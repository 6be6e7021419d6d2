---------------------------- MODULE StatusServer ----------------------------
(***************************************************************************)
(* fleet/dashboard/server.py: a ThreadingHTTPServer whose handler threads  *)
(* share one process-wide LOCK, the file status.json (rewritten through a  *)
(* temporary file and os.replace) and one <id>.png per VM (written in      *)
(* place, without the lock).  A step is what the other threads can see:    *)
(* between two steps any other handler runs, and the process may be        *)
(* restarted.                                                              *)
(***************************************************************************)
EXTENDS StatusFile

CONSTANTS Threads,      \* handler threads alive at once
          Bodies,       \* parsed JSON objects workers POST (partial functions)
          Frames        \* PNG images workers PUT

NoThread  == "nothread"

ASSUME ThreadsAssumption == NoThread \notin Threads

ASSUME BodiesAssumption ==
  \A j \in Bodies : /\ "state" \in DOMAIN j => j.state \in StateNames
                    /\ "attention" \in DOMAIN j => j.attention \in BOOLEAN

Malformed == [error |-> TRUE]     \* a body json.loads or j.get raises on

VARIABLES pc,           \* where each handler is; "idle" when it serves nothing
          req,          \* the request it serves
          doc,          \* its local copy of the list (d in the code)
          lock,         \* holder of LOCK
          status,       \* status.json
          tmp,          \* status.json.tmp
          shot,         \* <id>.png of every VM
          frame         \* the image a handler is about to send

lockVars == <<lock, status, tmp, doc>>
shotVars == <<shot, frame>>
vars == <<pc, req, doc, lock, status, tmp, shot, frame>>

BoardRequests ==
       [op : {"state"}, id : Ids, body : Bodies \union {Malformed}]
  \union [op : {"remove"}, id : Ids]
  \union {[op |-> "status"]}

ImageRequests ==
       [op : {"shot"}, id : Ids, png : Frames]
  \union [op : {"png"}, id : Ids]

(***************************************************************************)
(* Contents of a .png: no file, truncated to nothing, part of an image (or *)
(* of two), or an image.                                                   *)
(***************************************************************************)
NoFile == "nofile"
Empty  == "empty"
Broken == "broken"

NoRequest == [op |-> "none"]

Init ==
  /\ pc = [t \in Threads |-> "idle"]
  /\ req = [t \in Threads |-> NoRequest]
  /\ doc = [t \in Threads |-> <<>>]
  /\ lock = NoThread
  /\ status = Absent
  /\ tmp = Absent
  /\ shot = [i \in Ids |-> NoFile]
  /\ frame = [t \in Threads |-> NoFile]

Goto(t, from, to) == pc[t] = from /\ pc' = [pc EXCEPT ![t] = to]

(***************************************************************************)
(* The handler is done: the response is out, or the handler raised and the *)
(* connection was closed on the client.                                    *)
(***************************************************************************)
Finish(t, from) ==
  /\ Goto(t, from, "idle")
  /\ req' = [req EXCEPT ![t] = NoRequest]
  /\ doc' = [doc EXCEPT ![t] = <<>>]
  /\ frame' = [frame EXCEPT ![t] = NoFile]

(***************************************************************************)
(* do_GET, do_PUT, do_POST: dispatch on the path.                          *)
(***************************************************************************)
Receive(t, r) ==
  /\ Goto(t, "idle", CASE r.op = "state" -> "parse"
                       [] r.op \in {"remove", "status"} -> "lock"
                       [] r.op = "shot" -> "open"
                       [] r.op = "png"  -> "read")
  /\ req' = [req EXCEPT ![t] = r]
  /\ UNCHANGED <<lockVars, shotVars>>

(***************************************************************************)
(* POST /state/<id>: the body is parsed and the entry built before LOCK.   *)
(***************************************************************************)
Parse(t) ==
  /\ Goto(t, "parse", "lock")
  /\ req[t].body # Malformed
  /\ UNCHANGED <<req, lockVars, shotVars>>

ParseFails(t) ==
  /\ Finish(t, "parse")
  /\ req[t].body = Malformed
  /\ UNCHANGED <<lock, status, tmp, shot>>

\* Mutant of Acquire: the handlers' `with LOCK` is gone.
AcquireUnlocked(t) ==
  /\ Goto(t, "lock", "load")
  /\ lock' = t
  /\ UNCHANGED <<req, doc, status, tmp, shotVars>>

Acquire(t) ==
  /\ Goto(t, "lock", "load")
  /\ lock = NoThread
  /\ lock' = t
  /\ UNCHANGED <<req, doc, status, tmp, shotVars>>

LoadStatus(t) ==
  /\ Goto(t, "load", IF req[t].op = "status" THEN "send" ELSE "edit")
  /\ doc' = [doc EXCEPT ![t] = Load(status)]
  /\ UNCHANGED <<req, lock, status, tmp, shotVars>>

(***************************************************************************)
(* GET /status.json answers while it still holds LOCK.                     *)
(***************************************************************************)
SendStatus(t) ==
  /\ Finish(t, "send")
  /\ lock' = NoThread
  /\ UNCHANGED <<status, tmp, shot>>

(***************************************************************************)
(* The edit of the loaded list, then save(): open(t, "w") empties the      *)
(* temporary file, json.dump fills it, os.replace moves it over the file.  *)
(***************************************************************************)
Edited(r, vms) ==
  IF r.op = "state" THEN Upserted(vms, EntryOf(r.id, r.body))
                    ELSE Removed(vms, r.id)

\* Mutant of OpenTmp: save() opens status.json itself.
OpenInPlace(t) ==
  /\ Goto(t, "edit", "dump")
  /\ doc' = [doc EXCEPT ![t] = Edited(req[t], doc[t])]
  /\ status' = Torn
  /\ UNCHANGED <<req, lock, tmp, shotVars>>

OpenTmp(t) ==
  /\ Goto(t, "edit", "dump")
  /\ doc' = [doc EXCEPT ![t] = Edited(req[t], doc[t])]
  /\ tmp' = Torn
  /\ UNCHANGED <<req, lock, status, shotVars>>

Dump(t) ==
  /\ Goto(t, "dump", "replace")
  /\ tmp' = Json(doc[t])
  /\ UNCHANGED <<req, doc, lock, status, shotVars>>

\* Mutant of DumpFails: acquire() and release() instead of `with LOCK`.
DumpFailsInside(t) ==
  /\ Finish(t, "dump")
  /\ UNCHANGED <<lock, status, tmp, shot>>

(***************************************************************************)
(* A full disk: the exception leaves `with LOCK`, which releases it, and   *)
(* ends the handler with no answer.                                        *)
(***************************************************************************)
DumpFails(t) ==
  /\ Finish(t, "dump")
  /\ lock' = NoThread
  /\ UNCHANGED <<status, tmp, shot>>

Replace(t) ==
  /\ Goto(t, "replace", "release")
  /\ status' = tmp
  /\ tmp' = Absent
  /\ UNCHANGED <<req, doc, lock, shotVars>>

Release(t) ==
  /\ Goto(t, "release", "reply")
  /\ lock' = NoThread
  /\ UNCHANGED <<req, doc, status, tmp, shotVars>>

Reply(t) ==
  /\ Finish(t, "reply")
  /\ UNCHANGED <<lock, status, tmp, shot>>

(***************************************************************************)
(* PUT /shot/<id>: open(..., "wb") truncates the file before rfile.read    *)
(* waits for the body.  Two writers of one file each write from offset 0:  *)
(* the tail of a longer image outlives a shorter one written over it.  A   *)
(* client that goes away leaves as much as it had sent.                    *)
(***************************************************************************)
\* Mutant of OpenShot: images are written under LOCK too.
OpenShotWaiting(t) ==
  /\ Goto(t, "open", "body")
  /\ lock = NoThread
  /\ shot' = [shot EXCEPT ![req[t].id] = Empty]
  /\ UNCHANGED <<req, lockVars, frame>>

OpenShot(t) ==
  /\ Goto(t, "open", "body")
  /\ shot' = [shot EXCEPT ![req[t].id] = Empty]
  /\ UNCHANGED <<req, lockVars, frame>>

WriteShot(t) ==
  /\ Goto(t, "body", "reply")
  /\ \E left \in {req[t].png} \union
                 (IF shot[req[t].id] \in {Empty, req[t].png} THEN {} ELSE {Broken}) :
       shot' = [shot EXCEPT ![req[t].id] = left]
  /\ UNCHANGED <<req, lockVars, frame>>

ClientLeaves(t) ==
  /\ Goto(t, "body", "reply")
  /\ shot' = [shot EXCEPT ![req[t].id] = Broken]
  /\ UNCHANGED <<req, lockVars, frame>>

(***************************************************************************)
(* GET /<id>.png: the file as it is at that moment, or 404.                *)
(***************************************************************************)
ReadShot(t) ==
  /\ Goto(t, "read", "reply")
  /\ frame' = [frame EXCEPT ![t] = shot[req[t].id]]
  /\ UNCHANGED <<req, lockVars, shot>>

(***************************************************************************)
(* The server process dies and its container starts it again: the threads  *)
(* and LOCK are gone, the files stay as they are.                          *)
(***************************************************************************)
Restart ==
  /\ pc' = [t \in Threads |-> "idle"]
  /\ req' = [t \in Threads |-> NoRequest]
  /\ doc' = [t \in Threads |-> <<>>]
  /\ frame' = [t \in Threads |-> NoFile]
  /\ lock' = NoThread
  /\ UNCHANGED <<status, tmp, shot>>

BoardStep(t) ==
  \/ Parse(t) \/ ParseFails(t)
  \/ Acquire(t) \/ LoadStatus(t) \/ SendStatus(t)
  \/ OpenTmp(t) \/ Dump(t) \/ DumpFails(t) \/ Replace(t) \/ Release(t)

ImageStep(t) == OpenShot(t) \/ WriteShot(t) \/ ClientLeaves(t) \/ ReadShot(t)

Step(t) == BoardStep(t) \/ ImageStep(t) \/ Reply(t)

Next ==
  \/ \E t \in Threads : Step(t)
  \/ \E t \in Threads : \E r \in BoardRequests \union ImageRequests : Receive(t, r)
  \/ Restart

Spec == Init /\ [][Next]_vars

(***************************************************************************)
(* A thread inside `with LOCK` waits for no client and no other thread     *)
(* (the answer it writes there fits the socket's buffer), so it goes on.   *)
(* Of a thread outside it nothing is promised.                             *)
(***************************************************************************)
FairSpec == Spec /\ \A t \in Threads : WF_vars(lock = t /\ Step(t))
-----------------------------------------------------------------------------
PCs == {"idle", "parse", "lock", "load", "send", "edit", "dump", "replace",
        "release", "reply", "open", "body", "read"}

Inside == {"load", "send", "edit", "dump", "replace", "release"}

TypeOK ==
  /\ pc \in [Threads -> PCs]
  /\ req \in [Threads -> BoardRequests \union ImageRequests \union {NoRequest}]
  /\ doc \in [Threads -> Seq(Entry)]
  /\ lock \in Threads \union {NoThread}
  /\ status.kind \in {"absent", "torn", "json"} /\ status.vms \in Seq(Entry)
  /\ tmp.kind \in {"absent", "torn", "json"} /\ tmp.vms \in Seq(Entry)
  /\ shot \in [Ids -> Frames \union {NoFile, Empty, Broken}]
  /\ frame \in [Threads -> Frames \union {NoFile, Empty, Broken}]

(***************************************************************************)
(* A status.json that was ever written is a whole document, whatever was   *)
(* interrupted: a restart in the middle of save() loses no VM, and load()  *)
(* never takes its empty-list fallback again.                              *)
(***************************************************************************)
StatusWhole == status.kind # "torn"

StatusStays == [][status.kind = "json" => status'.kind = "json"]_vars

(***************************************************************************)
(* The stored list has one entry per VM, those needing attention first,    *)
(* then by ORDER, then by id: it stays so through removals, which do not   *)
(* sort, and through every interleaving of handlers.                       *)
(***************************************************************************)
ListOrdered ==
  \A i, k \in DOMAIN Load(status) :
    i < k => /\ Precedes(Load(status)[i], Load(status)[k])
             /\ Load(status)[i].id # Load(status)[k].id

(***************************************************************************)
(* No lost update: from the moment a handler has loaded the list until it  *)
(* moves its edit into place, the list it started from is still the stored *)
(* one and the temporary file is its own.                                  *)
(***************************************************************************)
NoLostUpdate ==
  \A t \in Threads :
    /\ pc[t] = "edit" => doc[t] = Load(status)
    /\ pc[t] \in {"dump", "replace"} => doc[t] = Edited(req[t], Load(status))
    /\ pc[t] = "replace" => tmp = Json(doc[t])

(***************************************************************************)
(* LOCK is always given back: by an answered read, by a finished save and  *)
(* by one that failed.                                                     *)
(***************************************************************************)
LockReleased == \A t \in Threads : lock = t ~> lock # t

(***************************************************************************)
(* server.py:6 -- "GET /<id>.png -> a VM's latest frame": what a handler   *)
(* sends is an image some worker pushed (or 404), never an empty or mixed  *)
(* file.                                                                   *)
(***************************************************************************)
ServedFrameWhole == \A t \in Threads : frame[t] \in Frames \union {NoFile}

(***************************************************************************)
(* The server implements the board: a handler's request takes effect in    *)
(* the step that loads the list (for a read) or moves the saved list into  *)
(* place (for an edit), so two workers publishing at once lose nothing.    *)
(***************************************************************************)
Phase(t) ==
  IF req[t].op \notin {"state", "remove", "status"} THEN "idle"
  ELSE IF pc[t] \in {"release", "reply", "send"} THEN "applied" ELSE "called"

TheBoard == INSTANCE Board WITH
  Requests <- BoardRequests, Edited <- Edited,
  board    <- Load(status),
  phase    <- [t \in Threads |-> Phase(t)],
  request  <- [t \in Threads |-> IF Phase(t) = "idle" THEN NoRequest ELSE req[t]],
  answer   <- [t \in Threads |-> IF pc[t] = "send" THEN doc[t] ELSE <<>>]

AtomicBoard == TheBoard!BoardSpec
=============================================================================
