# A verification of the macOS VM fleet

TLA+ modules, TLC configurations and TLAPS proofs for the parts of this repository that have
state and concurrency: the fleet's scripts and server (`fleet/`), the recovery downloader they
run (`fetch-macOS-v2.py`), and noVNC (`fleet/dashboard/novnc/core/`), the console the dashboard
opens on a VM. Single-VM boot scripts, OpenCore, host setup and media builders are outside it;
the reasons are at the end.

## 1. Inventory

| Component | State it keeps | Operations | What makes it correct | Here |
|---|---|---|---|---|
| Dashboard server, `fleet/dashboard/server.py` | `status.json`, `status.json.tmp`, `<id>.png` in `DASH_DATA`; `LOCK`; one thread per request | GET `/status.json`, POST `/state`, POST `/remove`, PUT `/shot/<id>`, GET `/<id>.png`; container restart | no update lost, the file never torn, the list sorted and free of duplicates, the lock always returned, pictures independent of the lock, pictures whole | `StatusFile`, `StatusServer`, `Board` |
| VM launches, `fleet/boot-macos.sh`, `fleet/ppc/boot-tiger.sh`, `fleet/versions.sh` | per VM directory: disk, NVRAM, install media, `vnc.env`, QMP and monitor sockets; host ports | a launch line by line, QEMU's start and end, kills | VMs of different names never collide; socket paths lead to the VM they name; the published console is the served one; saved NVRAM is kept | `PortBlocks`, `BootMacos` |
| Recovery download, `fetch-macOS-v2.py` | the output directory; a session with Apple; an optional mirror | query, probe mirror, download with fallback, verify | an image that passes for downloaded is whole | `RecoveryFetch` |
| Provisioning, `fleet/provision.sh` | `BaseSystem.dmg`, `BaseSystem.img`, disk, NVRAM of a VM | the script, rerun after failures | steps whose output exists are skipped; "ready" is true | `Provisioning` |
| Recovery mirror, `fleet/mirror/populate.sh` (nginx serves it) | product directories, `index.json`, a staging directory per run | skip, stage, accept, move, index | a product's directory holds that product; the index names only what is there | `Provisioning` |
| noVNC session, `novnc/core/rfb.js`, `ra2.js` | connection state, socket, disconnect timer, handshake stage, credentials | open, message, close, `disconnect()`, `sendCredentials()`, `approveServer()`, timers and promises | connects at most once, ends once, reports the end once, never misreads the handshake, never waits for a server that waits for it | `Console`, `RfbStream`, `RfbSession` |
| noVNC messages and decoders, `rfb.js`, `display.js`, `decoders/*.js` | `_FBU`, what each decoder keeps between calls, `_flushing`, the render queue | every server message, encoding and pseudo-encoding; images that load | no field misread however the stream is cut; painted in order; the next update always asked for | `RfbProtocol`, `RfbUpdates` |
| noVNC byte queues, `websock.js` | `_rQ`, `_rQi`, `_rQlen`, `_rQbufferSize`, `_sQ`, `_sQlen` | message event, shift, put back, push, flush | bytes kept in order while queues are compacted, grown, full or flushed | `Websock` |
| noVNC viewport, `display.js`, `rfb.js` | `_viewportLoc`, clip, scale, expected size of the element | settings, resizes by server and browser, animation frame, drags | inside the picture; fits the element | `Viewport` |
| noVNC keyboard, `input/keyboard.js`, `rfb.js` | `_keyDownList`, AltGr timer, last lock state reported | key events of three platforms, blur, focus, LED reports | no key stuck on the server; Ctrl before what it modifies; CapsLock follows | `Keyboard` |
| noVNC mouse, `rfb.js`, `util/events.js` | button mask, last position, throttle timer, wheel sums, capture | buttons, moves, wheel, drags of the viewport | no button stuck; the last position arrives | `Pointer` |
| noVNC touch, `input/gesturehandler.js`, `rfb.js` | tracked and ignored touches, possible gestures, two timers | touches start, move, lift; timers | gestures paired; handlers never throw; lifting everything resets | `Gestures` |
| noVNC clipboard, cursor, crypto, compression, key tables | | transform data | | not modelled |
| Console and reporting tools, `fleet/vmctl.py`, `record.sh`, `health.sh`, `dashboard/*.sh` | frame files, a VM's status | key events, screenshots, verdicts, pushes | no key left held; a VM reported gone is gone; verdicts consistent | not modelled |
| Dashboard page, `fleet/dashboard/index.html` | view mode, rotation timer, one console | poll, rotate, open, close | one console at a time | not modelled |
| Host probe, `fleet/preflight.sh` | none | a verdict on CPU, RAM, disk, KVM | agrees with the limits it prints | not modelled |
| Host setup, media builders, single-VM scripts, OpenCore | | | | not modelled |

How they interact. `provision.sh` and `populate.sh` call `fetch-macOS-v2.py`; every fetch may
read over HTTP what `populate.sh` has moved into the mirror. `provision.sh` leaves the files
`boot-macos.sh` checks for. `boot-macos.sh --headless` leaves `vnc.env` for `publish.sh` and the
sockets for `vmctl.py`. `publish.sh` and other workers POST to the server, whose list and
pictures the page polls; the page gives a VM's `ws://` address to noVNC, which talks to QEMU's
VNC server and turns the user's keys, mouse and touches into its messages. Nothing in the fleet
is coordinated other than by the file system, one lock inside the server, QEMU's image locks and
the host's ports.

The hard behaviours, each at its line, are the `hazards` of `PROJECT.json`: concurrent
read-modify-write of one list, a crash inside `save()`, files that are truncated before they are
written, tests for existence taken as tests for completeness, two launches that interleave line
by line, port arithmetic, a download cut short, a name asked for once while the catalogue moves
on, and reruns of everything; in noVNC, a stream cut in the middle of any field, images that
finish later than what is drawn after them, a session whose end has four causes, timers that
decide about input while input goes on, and key and button state that two sides keep.

## 2. The modules

A module's state variables are named for the program's (`status`, `tmp`, `lock`; `disk`,
`nvram`, `env`, `sock`; `tree`, `index`, ...) plus a program counter `pc` per thread or process;
an action is one atomic piece of the code between two points at which another thread or process
can be seen. `PROJECT.json` maps each definition to its lines.

* **StatusFile** -- what the handlers do to the list, as operators: the entry made of a JSON
  body with `server.py`'s defaults, the sort key and the one arrangement that ascends by it
  (`Sorted`), upsert, removal (`Without`), and `load()`'s fallback to an empty list.
* **StatusServer** -- handler threads as processes. A POST parses its body, acquires `LOCK`,
  loads, edits its copy, truncates and dumps `status.json.tmp`, renames it, releases, replies;
  parsing and dumping may fail; GET `/status.json` sends while it holds the lock, as the code
  does. A PUT opens and empties the picture *before* it reads the body; a GET of it takes no
  lock. `Restart` drops the threads and keeps the files. A second PUT over a picture leaves the
  new image, the other one's, or a mixture.
* **Board** -- the abstract specification: requests that are called, take effect at one instant
  on one list, and are answered. `StatusServer` implements it (`AtomicBoard`) with `board <-
  Load(status)`; an edit takes effect at `os.replace`, a read at `load()`.
* **PortBlocks** -- the version table, VM names, offsets, and the three ports of a VM.
* **BootMacos** -- launches as processes, one action per script line that touches shared state,
  then QEMU (external) by what it takes and in which order: sockets, images, ports. A launch may
  start from any state `provision.sh` leaves behind, an interrupted one included.
* **RecoveryFetch** -- one fetch: the query fixes the product, each of the two files is probed
  on the mirror, opened (which empties it), served whole, cut short, or dropped with a fallback
  to Apple; then verified. `NewBuild` moves Apple's catalogue at any time. Its variable `tree`
  is every directory a fetch writes to or a mirror serves from.
* **Provisioning** -- extends RecoveryFetch with runs of `provision.sh` (one VM directory each)
  and `populate.sh` (a staging directory each, one tree and index for all). Any run may be
  killed at any point and run again.
* **Console** -- the connection as the page and the input modules see it: four states, and which
  may follow which. It is the abstract specification of a session (`ConnectionRefined`) and the
  base of Keyboard and Pointer, which may send or not by its state.
* **RfbStream** -- the wire: cells the server has written (`net`), cells received and not read
  (`rQ`), and the loop that calls handlers (`run`). `Receive` brings any number of cells up to
  `MaxPiece`. A handler says how many cells it waits for (`rQwait`) and which roles it believes
  it reads: reading another role, or past the end, sets `misread`. A cell is one field, or a run
  of fields the code waits for at once.
* **RfbSession** -- from the constructor to the end: `_updateConnectionState` as `Update`, its
  callers `_fail`, `_socketClose`, `disconnect()` and the disconnect timer, then the handshake,
  one action per handler: version, security types, every authentication (None, VNC, RSA-AES with
  its six stages and two promises, Tight with tunnels and sub-types, VeNCrypt, XVP, ARD,
  MS-Logon, Plain), result, ClientInit, ServerInit. A scheme the code does not know, tunnels it
  cannot use and what `ra2.js` throws at a bad key, random number, hash or subtype end the
  session (`AuthUnsupported`, `AuthTightTunnels`, `Ra2Throw`). `Serve` is the server (external): it follows
  the protocol, and refuses or stops where it likes.
* **RfbProtocol** -- what a server may write to a connected session (external): a grammar of
  places in the stream, with the field that comes next at each, how many of it are left and how
  many rectangles are owed. RfbUpdates assumes of its server that each rectangle and each message
  is written by it (`BodiesAssumption`, `NotesAssumption`); no action of the client looks at it.
* **RfbUpdates** -- a connected session: `_normalMsg` with each message, `_framebufferUpdate`,
  each rectangle handler and pseudo-encoding, the decoders (Raw, CopyRect, RRE, Hextile, Tight,
  TightPNG, ZRLE, JPEG) with what they keep between calls (`dec`), display.js's render queue
  with images that load late, break or are of another size (`screen`), `flush()` and its
  promise, continuous updates and fences.
* **Websock** -- the two byte queues, byte by byte: a byte is known by its place in the stream,
  so that a byte lost, doubled or moved shows. Compaction, doubling, the cap, `rQwait`'s
  put-back, `sQpush` with its flushes.
* **Viewport** -- `viewportChangePos` and `viewportChangeSize`, the settings, resizes and drags,
  with the animation frame between a resize and the refit.
* **Keyboard** -- key events on Windows, macOS and others: `_keyDownList`, the AltGr timer,
  keysyms that change while a key is down, focus, `_handleKeyEvent`'s CapsLock fix, LED reports
  in flight, the QEMU key events that the server accepts in mid-session. Beside what the client
  keeps it has what the server believes (`held`, `lock`) and the presses the last handler sent,
  in the order of their messages (`sent`).
* **Pointer** -- mouse buttons with the capture of `events.js`, throttled moves, the wheel,
  drags of the viewport; beside the client's state, what the server was last told (`at`,
  `down`).
* **Gestures** -- extends Pointer: touches, the set of gestures still possible, the long-press
  and two-touch timers, and what `_handleGesture` sends.
* **MCStatusServer, MCBootMacos, MCProvisioning, MCConsoleStream, MCConsoleInput** -- small
  instances for TLC. The last two hold several parts of noVNC that meet only through `Console`'s
  state and `RfbStream`; one part runs in a behaviour (`part`, chosen in Init) and the others
  stand still.
* **StatusServerProofs, BootMacosProofs, ProvisioningProofs, RfbSessionProofs, RfbUpdatesProofs,
  StreamProofs, KeyboardProofs, InputProofs** -- the theorems. StreamProofs is about Websock and
  Viewport and composes them with the session and the updates in MCConsoleStream; InputProofs is
  about Pointer and Gestures, alone and with Keyboard in MCConsoleInput.

What is abstracted: an image is empty, part of a build, or a whole one, never bytes; a report is
one of a few JSON bodies; time stamps, titles and other text are left out because nothing
decides by them; HTTP is a request and an answer. A handler of noVNC is one step, as JavaScript
runs an event to its end; the next event, of the network, a timer, a promise or the user, may be
any. Pixels, keys and hashes are labels; positions of mouse and touch lie on a line. Definitions
headed `Mutant of ...` are not part of the models: each is a plausible bug of the definition
below it, used to see that a property notices.

## 3. The runs

`tlc -config X.cfg M` in this directory; all finish in three minutes or less.

| Run | Instance | Distinct states | Shows |
|---|---|---|---|
| status | 2 threads, 2 VMs, an empty report and one that wants attention in a state `ORDER` does not know | 88,812 | edits are atomic and none is lost (`NoLostUpdate`, `AtomicBoard`); the file is never torn and never disappears (`StatusWhole`, `StatusStays`); the list stays sorted although `/remove` does not sort (`ListOrdered`); the lock is returned (`LockReleased`) |
| images | 3 threads, 1 VM, 2 images | 175,940 | PUT and GET of a picture end whatever holds the board (`ImagesNeverWait`) |
| served_frame | the same | violation | a picture is served empty during a PUT |
| boot | 2 launches at a time out of 5 command lines, 3 names | 3,186,989 | `NoCollision`, `SocketsLead`, `ConsoleServed`, `NvramKept` with one launch per name |
| relaunch | 2 launches, names launched twice | 271,157 | a launch is refused images or ports only for a namesake (`CollisionsAreNamesakes`) |
| advertised_console | as boot | violation | a windowed VM is advertised with an earlier launch's console |
| provision | 1 VM, 1 `populate.sh`, 1 build, with mirror | 414,915 | finished images are kept (`ImagesKept`); "ready" is true if no body was cut short and no run failed or was killed (`ReadySound`) |
| mirror | 2 `populate.sh`, 2 builds | 474,228 | `MirrorByProduct`, `IndexServed` |
| console_stream | a server with 4 protocol versions, every security type and encoding, rectangles of none, one and several parts, bad values; queues of 2, 7 and 3 bytes; pictures and elements of up to 4 by 4 | 283,264 | `InStep`: no field is read as another, or before it came; `NeverHangs`: neither side waits for the other; `EndsOnce`, `ConnectionRefined`, `DisconnectEnds`: four causes of an end, one end, within the timeout; `PaintedInOrder`; `QueueHolds`, `LostAtLimit`; `ViewInside`, `ViewFits` |
| console_input | 10 keys on three platforms, 3 buttons and a wheel, 3 positions, 3 fingers | 659,971 | `KeysLetGo`, `CtrlFirst`, `LockFollows`; `ButtonsLetGo`, `PointerInSync`, `MovesArrive`; `GesturesPaired`, `HandlersNeverThrow`, `TouchesLetGo` |
| transfers | as provision | violation | a body cut short passes for a download |
| skipped | 1 `populate.sh` | violation | a product that does not verify is skipped |

**Bounds.** In the fleet's modules no counter is unbounded: the state is finite by the sets the
constants are given. Two threads are enough for a lost update, a shared temporary file or a wait
for the lock; three let a picture be read and written while the board is held. Two launches are
enough for any conflict over a port, a path or an image, since each is between two; the command
lines cover a default offset, `VM_NAME`/`PORT_OFFSET` twice with different offsets, Tiger's
fixed numbers, windowed and headless, with and without `--install`. A launch begins from every
state of the files, so a longer history adds nothing. One build is enough where the question is
whether files are complete, two where it is which build they are; with more than two runs of
`populate.sh` each pair behaves as two do.

noVNC's bounds have names. `MaxPiece` = 4 cells to a message event: no handler waits for more
than that at once, so every wait is met with any part of what it needs there. `MaxAhead` = 1:
the server begins another message when at most one cell is on its way or unread, so an update can arrive
while the last one is incomplete or waits for an image, which is the case that matters; more of
them only queue. An announced number of rectangles is 0, 1, 2 or the 65535 that stands for
"until LastRect", of which two come before it ends: two are enough for the state one leaves to
meet the next. `MaxBytes` = 12 is three times round the send queue and beyond the cap of the
receive queue (start 2, cap 7, headroom 2 in place of 4 MiB, 40 MiB and 8): compaction, growth,
refusal and a flush in the middle of a push all occur. `MaxLed` = 2 reports in flight let a key
be pressed while an older report is on its way, and CapsLock be put right a second time before
the report of the first has come. Wheel deltas of 30 and lines of 19 to a step of 50 make
steps and remainders of both signs; the touch positions 0, 60, 120 are below and beyond each
threshold. Sizes 1 to 4 have the element smaller than, equal to and larger than the picture. The
theorems below have none of these bounds.

**Fairness.** Safety is checked without any. `LockReleased` assumes `FairSpec`: a thread
*inside* `with LOCK` goes on, because there it waits for the disk only; the answer to GET
`/status.json`, sent under the lock, has to fit the socket buffer, which is so for the handful
of VMs of a fleet and is listed as a hazard otherwise. Of threads outside the lock nothing is
assumed, so a client that never sends its body may hold its own thread for ever.
`ImagesNeverWait` assumes `FairImages`: picture steps and replies go on (a client sends its body
or goes away) and nothing is assumed of whoever holds the lock. Runs of scripts are under no
fairness and no liveness is claimed of them: they may stop at every line. `DisconnectEnds`
assumes `SessionFairness`: the timer that `disconnect()` starts fires (`setTimeout`, and the
browser runs it), and a handler that was called returns; nothing is assumed of the socket or the
server. `MovesArrive` assumes that the 17 ms throttle timer fires (`PointerFairness`), and
nothing of the user. Deadlock is checked in every run but the two of noVNC, where a session that
is over and a user who does nothing are legal ends.

## 4. The theorems

Every one holds for all values of the constants; `tlapm` checks them to the last leaf. Each rests
on an inductive invariant: what the property says, and what else it takes for no step to break it.

**StatusServerProofs** (assumptions: `NoThread` is not a thread, ids are ranks, the `state` and
`attention` of a body are what workers send). `IndInv` says: a thread serves a request of the kind
its `pc` is for; `pc` is inside `with LOCK` exactly for the lock's holder (`Exclusive`); the
holder's list and temporary file are its own (`NoLostUpdate`); and the file is absent or whole.
`NoLostUpdate` alone is not inductive: it takes `Exclusive` to see that no other thread replaced
the file in between. From `IndInv`: `UpdatesKept`, `NeverTorn`, `NeverErased`, and the refinement
`ServerIsBoard` (one lemma per kind of step). `ListInv` adds the types and that the list on disk,
and each a handler has edited, is `InOrder`: one entry per VM, ascending. What `Sorted` and
`Without` return is shown from what they are (the arrangement of the entries by their keys, of
which there is one): inserting into such a list and removing from it give such a list. `ServerTypes`,
`AlwaysSorted`.

**BootMacosProofs** (assumptions: offsets differ between the host's names and are at most 209,
an assumption TLC evaluates for the table as it is; and, where a theorem says so,
`OneLaunchPerName`, that operators give each VM at most one launch at a time). `BlocksDisjoint` is
the port arithmetic. `IndInv` adds to the types that active launches have different names
(`Private`) and what each has done so far at its line (`Following`): sockets are its own once
bound, `vnc.env` its own once written, NVRAM absent between the test and the `cp`. From it
`LaunchesNeverCollide`, `RunningReachable`, `HeadlessServed`, `BootEntriesKept`. `LaunchTypes` and
`OnlyNamesakesCollide` do without `OneLaunchPerName`: where a name may be launched again, whoever
is refused an image or a port is refused it by a VM of its own name.

**ProvisioningProofs** (assumptions: no product is the absent one; a run is either a VM's or a
staging one, directories of runs and products differ). `Typed` gives each place of the code the
product it has in hand; `Stock` says which file may be where (a staging directory holds only its
run's product, a product's directory only that product's files); `Steady` that a VM's finished
images stay out of reach of what its run does next. `IndInv` is the three together, and gives
`TypesHold`, `MirrorIsTrue`, `ImagesStay`. `IndexNeverAhead` adds `Indexed`: what the index, the
copy of it a run has read, or a run about to write it names is there, and what is in the mirror
stays there, so overwriting another run's index does no harm. `ReadyIsTrue` adds `Uncut` and
`Honest`. As long as no body has been cut short, a part of a file exists only where a run is
about to open that file again, so what the mirror serves is whole (`Uncut`); and a run of a VM
that was never hurt has, at each line, what the lines before it leave (`Honest`).

**RfbSessionProofs** (no assumption). `Legal` says which change of connection state one step may
make; each caller of `_updateConnectionState` is shown to make only such, `_fail` by way of
"disconnecting" in one step. With the type of `link` as invariant that gives
`SessionImplementsConsole`, for every server. `SessionEndsOnce` takes the invariant `ToldOnce`
with the state of the socket: the end is reported exactly when it has come, and the timer runs
only while it has not.

The handshake's invariant, `Handshake`, says where the two sides are. While the connection is
being made (`Talking`), the cells that are on their way and not read are what the client's state
expects, role by role (`Roles`, `Fits`); they are the complete answer to what the server has
heard, or the server still has the word (`Whole`, `Line`); and whoever is to go on can
(`Readers`). Before the socket opens nothing is on its way (`Unopened`), afterwards the session is
connected (`Settled`) or over (`Late`). The first candidate, without the cases of `Readers`, was
not inductive: a handler is called again by the loop, by a promise or by
`sendCredentials`, and only the last two may find the queue as it was left. So it says that a
loop with such a call due is only Apple's, with its keys still to come, and that the
calls due for VNC and MS-Logon have their challenge in the queue. One step does read
what it should not: ra2.js's random number, and the session is over by then (`MisreadOver`), which is
the exception `HandshakeInStep` makes. From it `HandshakeStaysInStep`, `HandshakeAlwaysGoesOn`,
`SessionEndsClean`, `SessionTypes`: for every list of versions, types and sub-types, and every way
of cutting the stream. `SessionHandsOver` says that a session that connects has read all that
came, with nothing on its way but its own request: what `UpdatesInit` starts from.

**RfbUpdatesProofs** (assumptions: the server writes each rectangle and each message by the
grammar of RfbProtocol, ending where it may or with a value no client can go on from; and no
message hides in another's fields). Of the render queue `InOrder` says that it holds the numbers
after the last one painted, each once, ascending, and that a queue waits only for an image at its
head; painting what is ready from the head on keeps that, for any stream of updates and any order
in which images load: `PaintsInOrder`, `WaitsOnlyForImages`.

Of the stream, `UInv` says that client and server are at two places of one grammar. `NextPlace`
is the client's: what the handler in charge reads next, from `_FBU` and what the decoder
remembers (`dec`). The cells that have come or are on their way (`Ahead`) are a path (`Path`)
from there to the place at which the server's next update, rectangle or message begins (`Leads`), or to
one of no return, after a bad value. A handler that reads takes cells off the front of the path,
and has to arrive at the `NextPlace` of what it keeps; there is a lemma per handler (`RawAligned`,
`HextileAligned`, `TightPixelsAligned`, ...). A step of the server adds to the end of the path, which is
where the assumptions are used; the network moves cells from one half of `Ahead` to the other.

`UpdatesInStep` is not inductive without three more conjuncts. `Remembers`: a decoder keeps
something only while its own rectangle is in hand. Tight's is the delicate one: a palette, once read, is kept only
with the filter that announced it, and the state is dropped whenever a rectangle ends. (The
mutant `TightDoneKeep`, which keeps the filter, breaks exactly this.) `Served`: a handler that has returned lacks
something it waits for (`HasToWait`), the next update is asked for, on its way or in hand
(`NextDue`), and the server offers continuous updates once (`Offered`). And `Blank`: whatever
completes a rectangle leaves nothing remembered. From it `UpdatesTypes`,
`UpdatesKeepStep`; and, because a client that has all that was written and still waits would
stand within a message or a rectangle, where the path cannot have ended (`RectWhole`,
`MessageWhole`), `NeverStarves`. A handler known to leave data behind ends the claim (`leftover`).

**StreamProofs** (assumptions: sizes are positive, the first size of the receive queue is at most
the cap, moves are whole numbers). `ReceiveInv` says that the unread bytes *and those a handler
may still put back* are the end of what came, in order, within an array of the size the code
believes, as long as nothing was refused; `SendInv` that what was pushed is what was flushed
followed by what is queued, unless a payload straddled the room. Both hold for any sizes:
`QueuesKept`, `LossNeedsLimit`.

Every step of the viewport ends in `viewportChangePos`, which puts a viewport no larger than the
picture inside it, or in `viewportChangeSize`, which makes it so: `ViewStaysInside`. `ViewFits`
alone is not inductive: switching clipping on forgets that a change of size was ignored, rightly
only because a picture that is not scaled has no scale left, which `FitInv` adds:
`ViewFitsElement`.

`MCInv` joins the invariants of all four: the queues' and the viewport's hold whichever part
runs, because nothing else touches them; the stream is the handshake's (`Handshake`) or the
updates' (`UInv`). It carries the theorems to the instance the run checks: `StreamTyped`,
`StaysInStep`, `NothingHangs`.

**KeyboardProofs** (assumptions on the keymap: what `getKeysym` can return, and for which keys).
`KInv` ties each key and keysym the server holds to the entry of `_keyDownList` it was sent from
(`Sound`), and adds what the handlers count on: no unidentified key is in the list, an AltGr
timer runs only while ControlLeft is not, and the list is empty when nobody listens or the focus
is away. `NoStuckKeys` alone is not inductive: a second press under another keysym would leave
the first. From it `KeyboardTyped`, `NoKeyLeftDown`. `ControlComesFirst` is an action property:
by `KInv` a ControlLeft that waits is not down and the platform is Windows, so its press is sent,
and as the first message of the handler that ends the wait but for the CapsLock of `FixLock`; the
one handler that drops it sends AltRight alone. `LockIsFollowed` adds `Reported`: the last LED
report on its way is the server's state, and with none the client knows that state or knows that
it does not. It does not ask that no report is in flight, only that the last one heard is right.

**InputProofs** (assumptions: `Buttons` and wheel buttons differ, thresholds are positive). Mouse:
`PInv` says where the last position is (`Sync`: in `ptr.pos` while the timer runs, at the server
otherwise), that the server knows no button the client does not (`Told`), and, for a user of one
button at a time, that a button in the mask is held and the mouse captured, so that its release
will be heard (`Single`). From it `PointerTyped`, `NoMoveLost`, `NoButtonLeftDown`.

Touches: `GInv` lists how far a set of touches can have got, by their number, the gestures still
possible, the timers and whether one was lifted (`Phase`); says that a finger on the canvas is
ignored or tracked and not yet lifted, and that tracked ones differ (`Known`); ties the gesture
the listeners believe in to the one detected (`Believed`); and the server's buttons to
that gesture (`HandInv`). Each is needed: a handler that takes the one gesture left of a set
counts on `Phase`, the average over the touches on `Known`, and a gesture's end on `Believed`. The
two-finger gestures are not in `Believed`'s second half, because they may start twice. Averages are sums over a sequence (`Total`, a
recursive function); that a sum is a number was proved from a least length for
which it is not, in place of induction. From it `TouchesNeverThrow`, `EveryGesturePaired`,
`LiftedHoldsNothing`. `MCInv`, the invariant of whichever part runs, and the types of all three,
carry these to the instance the run checks: `InputTyped`, `MouseLetsGo`, `TouchesHoldNothing`.

Only model-checked: the liveness properties (`LockReleased`, `ImagesNeverWait`, `DisconnectEnds`,
`MovesArrive`), which are out of the prover's reach. Every safety property of a passing run is
stated by a theorem.

## 5. Where the code and its documentation disagree

* `server.py:56` empties the picture before it waits for the body, and `do_GET` takes no lock:
  `server.py:6` promises "a VM's latest frame" (run `served_frame`). Writing to a temporary file
  and renaming it, as `save()` does, would do.
* `boot-macos.sh:126` writes `vnc.env` for headless launches and nothing removes it:
  `publish.sh:8` publishes "console endpoints (from boot-macos.sh --headless)" of a launch that
  has none (run `advertised_console`).
* `fetch-macOS-v2.py:600` drops the outcome of the verification and `save_image` takes a body
  that ends for a whole one: `deploy/DEPLOY.md:34` says transfers tolerate a flaky link (run
  `transfers`).
* `populate.sh:23` tests for files that are not empty: `populate.sh:4` says "a product dir that
  already verifies is skipped" (run `skipped`). Under `populate.sh` verification cannot succeed
  at all: standard output is a pipe and `verify_image` asks for the size of the terminal.

In noVNC the code departs from what its callers expect at these places. No line of the
repository promises the contrary, so they are not claimed as runs; the models have them as the
code does, and a property that meets one excepts exactly it:

* `rfb.js:2309-2316` returns from an extended clipboard message with its data unread when the
  session is view-only or no text is offered; `tight.js:181-210` keeps `_numColors` after a
  palette rectangle of no pixels; `rfb.js:2683` neither handles nor puts back an unknown VMware
  cursor; `rfb.js:2500-2512` forgets an update of no rectangles that arrives while images are
  painted; `rfb.js:2380-2385` reads 64 bytes of a fence that announces more, which no server
  should. After each of them (`leftover`) `InStep` and `NeverHangs` claim nothing.
* `_fail` on a bad XVP or an unknown message type returns true, so the loop goes on with what is
  queued.
* `ra2.js:201-205` waits for the two bytes of a length and then reads 256 more without a wait.
* `websock.js:211` passes a length where `subarray` takes an end: a payload longer than the room
  left in the send queue goes out wrong (`straddled`); lines 202-215 never end if the queue is
  full and the socket is not open; after a refused message (326-329) `rQbufferSize` exceeds the
  array.
* `rfb.js:719-723` ignores a change back to a size it has saved (`ignored`, excepted by
  `ViewFits`).
* `display.js:499-503` waits for ever for an image that is broken or of the wrong size
  (`NeverHangs` allows that wait), and a queued copy (389) ignores the byte offset of its array.
* `events.js` ends the capture at the first release: of two buttons held together, the second
  let go outside the canvas stays down (`chorded`, excepted by `ButtonsLetGo`).
* A two-finger gesture may start twice, or not end, when its timer runs after one finger was
  lifted; `GesturesPaired` claims only those that hold a button.

## 6. Not modelled, and why

* noVNC's clipboard contents, cursor picture, inflated and decoded data, cryptography and key
  tables transform data and order no events: their messages are read cell by cell in RfbUpdates,
  their values are labels. The request for a remote resize, the scale factor and scrollbars are
  left out of Viewport, NumLock of Keyboard (the same code as CapsLock), the second axis of
  Pointer and Gestures. The Control that a zoom presses and releases around its wheel clicks
  (`rfb.js:1338-1351`) is down only within one handler, so Gestures has the clicks and not the key.
* Tight's `_readData` (`tight.js:359`) waits for three bytes though a length may take one: in
  RfbUpdates the cell `len` is those three bytes, the first of the data among them. That a
  rectangle of fewer than three bytes in all waits for bytes of the next message is not seen.
* `vmctl.py`, `record.sh`, `refresh-shots.sh`, `health.sh`, `publish.sh`, `measure.sh` are
  sequences of one process each between commands of QEMU, ImageMagick and curl. What one would
  claim of them is false by reading them: `vmctl.py` killed between key down and key up (line
  115) leaves the key held; a recorder that waits 20 s for a monitor another client holds, or
  whose `magick` fails, logs "VM GONE"; a recorder started again numbers its frames from 0 over
  the old ones (`record.sh:27`); `publish.sh` ends before the state is pushed while a VM has no
  frames (line 16, under `pipefail`). A model would repeat these sentences.
* `index.html` is one script with a poll and a rotation timer; its one stateful part, the
  console, is noVNC. A late `disconnect` event of a console already replaced overwrites the new
  one's status line (lines 205-217 share `#vStat`).
* `preflight.sh` prints a report and keeps nothing.
* `scripts/`, `boot-passthrough.sh`, `OpenCore/*.sh` are straight-line root scripts over sysfs,
  guestfish and hdiutil with no state of their own; OpenCore is binaries and property lists; the
  single-VM boot scripts are one QEMU command line each.
* nginx serves the files as they are; its caching and ranges are configuration.
* QEMU, dmg2img, qemu-img, Apple's service and the host appear by what the scripts can see of
  them, and are marked external.
* Two `provision.sh` over one VM directory write the same images, the older `set-state.sh` and
  `remove-vm.sh` rewrite `status.json` with no lock, `updated` is taken before the lock, a late
  POST brings a removed VM back, and a tenth row of `versions.sh` would get the offset
  `boot-tiger.sh` has: known, visible in the lines, and of no further consequence to what is
  modelled.
* `load()` (`server.py:22-24`) takes any failure of `open()` for an empty list, so a POST that
  meets a passing one (no file descriptor left, an I/O error) saves its one VM over the board.
  StatusFile takes a whole file to be readable; otherwise `NoLostUpdate` is false. It is listed
  as a hazard.
* The MLB actions and the menu of `fetch-macOS-v2.py` keep no state the fleet reads.

## 7. Plan

Order: what is most used and most concurrent first.

1. *Done*: the server and its board; launches; downloads, provisioning, mirror; their theorems.
2. *Done*: noVNC's session, stream, updates, queues, viewport, keyboard, mouse and touch.
3. *Done*: theorems of all of these: every safety property the runs check.
4. Left to model: a monitor of QMP with one client at a time, its 20 s timeout and the tools that
   share it; the page's handling of late console events; the legacy writers of `status.json`.
