--------------------------- MODULE KeyboardProofs ---------------------------
(***************************************************************************)
(* The keys of a console are let go of, for every keymap and platform.     *)
(* The invariant ties what the server holds to the list of the client, key *)
(* by key and keysym by keysym, and adds what the handlers count on: which *)
(* keys are never in the list, and that it is empty while nobody listens.  *)
(***************************************************************************)
EXTENDS Keyboard, TLAPS

Syms == Keysyms \union {NoSymbol}

K == [down : [Codes -> Keysyms \union {NoSymbol, Up}], held : SUBSET (Codes \X Syms),
      remoteLock : Locks \union {Unknown}, lock : Locks, sent : Seq(Codes)]

Caps == Locks \union {Unknown}

\* Whether a key can be sent at all does not change while it is down.
Sendable(code, sym) == sym = NoSymbol => qemu /\ code # "Unidentified"

Matched(k) == \A p \in k.held : k.down[p[1]] = p[2] /\ Sendable(p[1], p[2])

Sound(k) == k \in K /\ Matched(k) /\ (~Sending => k.held = {})

\* These are never in the list once a handler has returned.
Bare(k) ==
  /\ k.down["Unidentified"] = Up
  /\ Mac => k.down["CapsLock"] = Up
  /\ Windows => \A c \in Codes : k.down[c] \notin JpBadKeys

Clear(k) == \A c \in Codes \ {"ControlLeft"} : k.down[c] = Up

KInv ==
  /\ KeyboardTypeOK
  /\ Live => Sound(keys)
  /\ Bare(keys)
  /\ altGr => keys.down["ControlLeft"] = Up /\ Windows
  /\ ~grabbed \/ focus = "away" => Clear(keys)
  /\ grabbed => Live

-----------------------------------------------------------------------------
\* What a press may add to the messages: its key, after the CapsLock of a fix.
Adds(s, was, code) ==
  IF Sending
  THEN s \in {was, Append(was, "CapsLock"), Append(was, code),
              Append(Append(was, "CapsLock"), code)}
  ELSE s = was

\* The key was sent, and last.
SentLast(s, code) == s # <<>> /\ s[Len(s)] = code

(* Where a handler begins, nothing is sent and all else is as it was. *)
LEMMA QuietIs ==
  ASSUME keys \in K
  PROVE  /\ Quiet \in K /\ Quiet.down = keys.down /\ Quiet.held = keys.held
         /\ Quiet.remoteLock = keys.remoteLock /\ Quiet.lock = keys.lock
         /\ Quiet.sent = <<>>
<1>1. <<>> \in Seq(Codes)
  OBVIOUS
<1> QED
  BY <1>1 DEF Quiet, K

(* So it is as sound as before. *)
LEMMA QuietSound ==
  ASSUME keys \in K
  PROVE  /\ Sound(keys) => Sound(Quiet)
         /\ Bare(keys) => Bare(Quiet)
         /\ Clear(keys) => Clear(Quiet)
BY QuietIs DEF Sound, Matched, Bare, Clear

(* What sendKey does to the server's view: one key, or nothing. *)
LEMMA SendKeyDown ==
  \A k \in K, sym \in Syms, code \in Codes :
    LET s == SendKey(k, sym, code, TRUE)
        told == Sending /\ Sendable(code, sym)
    IN  /\ s \in K /\ s.down = k.down
        /\ s.held = IF told THEN k.held \union {<<code, sym>>} ELSE k.held
        /\ s.sent = IF told THEN Append(k.sent, code) ELSE k.sent
<1> TAKE k \in K, sym \in Syms, code \in Codes
<1> DEFINE held == k.held \union {<<code, sym>>}
           lock == IF code = "CapsLock" THEN Toggled(k.lock) ELSE k.lock
           log == Append(k.sent, code)
           new == [k EXCEPT !.held = held, !.lock = lock, !.sent = log]
<1>1. SendKey(k, sym, code, TRUE) = IF Sending /\ Sendable(code, sym) THEN new ELSE k
  BY DEF SendKey, Sendable
<1>2. held \in SUBSET (Codes \X Syms) /\ lock \in Locks /\ log \in Seq(Codes)
  BY DEF K, Locks, Toggled
<1> HIDE DEF held, lock, log
<1>3. new \in K /\ new.down = k.down /\ new.held = held /\ new.sent = log
  BY <1>2 DEF K
<1> QED
  BY <1>1, <1>3 DEF held, log

(* The same of a release. *)
LEMMA SendKeyUp ==
  \A k \in K, sym \in Syms, code \in Codes :
    LET s == SendKey(k, sym, code, FALSE)
    IN  /\ s \in K /\ s.down = k.down /\ s.sent = k.sent
        /\ s.held = IF Sending /\ Sendable(code, sym) THEN k.held \ {<<code, sym>>} ELSE k.held
<1> TAKE k \in K, sym \in Syms, code \in Codes
<1> DEFINE held == k.held \ {<<code, sym>>}
           new == [k EXCEPT !.held = held, !.lock = k.lock, !.sent = k.sent]
<1>1. SendKey(k, sym, code, FALSE) = IF Sending /\ Sendable(code, sym) THEN new ELSE k
  BY DEF SendKey, Sendable
<1>2. held \in SUBSET (Codes \X Syms)
  BY DEF K
<1> HIDE DEF held
<1>3. new \in K /\ new.down = k.down /\ new.held = held /\ new.sent = k.sent
  BY <1>2 DEF K
<1> QED
  BY <1>1, <1>3 DEF held

(* Putting the lock right leaves the list, and holds no key that it did    *)
(* not hold before.                                                        *)
LEMMA FixLockDoes ==
  \A k \in K :
    /\ FixLock(k) \in K /\ FixLock(k).down = k.down /\ FixLock(k).held \subseteq k.held
    /\ FixLock(k).sent = IF Sending THEN Append(k.sent, "CapsLock") ELSE k.sent
<1> TAKE k \in K
<1> DEFINE on == SendKey(k, CapsSym, "CapsLock", TRUE)
<1>1. CapsSym \in Syms /\ "CapsLock" \in Codes /\ Sendable("CapsLock", CapsSym)
  BY KeyboardAssumption DEF KeyboardAssumption, Syms, Sendable
<1>2. /\ on \in K /\ on.down = k.down
      /\ on.held = IF Sending /\ Sendable("CapsLock", CapsSym)
                   THEN k.held \union {<<"CapsLock", CapsSym>>} ELSE k.held
      /\ on.sent = IF Sending THEN Append(k.sent, "CapsLock") ELSE k.sent
  BY <1>1, SendKeyDown
<1>3. FixLock(k) = SendKey(on, CapsSym, "CapsLock", FALSE)
  BY DEF FixLock
<1> HIDE DEF on
<1> DEFINE off == SendKey(on, CapsSym, "CapsLock", FALSE)
<1>4. /\ off \in K /\ off.down = on.down
      /\ off.held = IF Sending /\ Sendable("CapsLock", CapsSym)
                    THEN on.held \ {<<"CapsLock", CapsSym>>} ELSE on.held
      /\ off.sent = on.sent
  BY <1>1, <1>2, SendKeyUp
<1> HIDE DEF off
<1>5. off.held \subseteq k.held
  BY <1>2, <1>4
<1> QED
  BY <1>2, <1>3, <1>4, <1>5 DEF off

\* The most that a press may add to the keys held.
Added(code, sym) == IF Sending /\ Sendable(code, sym) THEN {<<code, sym>>} ELSE {}

(* A press leaves the list to its caller, and adds its key and no other.   *)
LEMMA KeyDownEvent ==
  ASSUME NEW k \in K, NEW sym \in Syms, NEW code \in Codes, NEW caps \in Caps
  PROVE  LET s == HandleKeyEvent(k, sym, code, TRUE, caps)
         IN  /\ s \in K /\ s.down = k.down
             /\ s.held \subseteq k.held \union Added(code, sym)
             /\ Adds(s.sent, k.sent, code)
             /\ Sending /\ Sendable(code, sym) => SentLast(s.sent, code)
<1> DEFINE remote == IF code = "CapsLock" THEN Unknown ELSE k.remoteLock
           wrong == remote # Unknown /\ caps # Unknown /\ remote # caps
           fixed == IF wrong THEN FixLock(k) ELSE k
           known == IF wrong THEN Unknown ELSE remote
           ready == [fixed EXCEPT !.remoteLock = known]
           s == SendKey(ready, sym, code, TRUE)
           told == Sending /\ Sendable(code, sym)
<1>1. HandleKeyEvent(k, sym, code, TRUE, caps) = s
  BY DEF HandleKeyEvent
<1>2. known \in Locks \union {Unknown}
  BY DEF K
<1>3. /\ fixed \in K /\ fixed.down = k.down /\ fixed.held \subseteq k.held
      /\ fixed.sent = k.sent \/ (Sending /\ fixed.sent = Append(k.sent, "CapsLock"))
  BY FixLockDoes
<1> HIDE DEF fixed, known
<1>4. /\ ready \in K /\ ready.down = k.down /\ ready.held \subseteq k.held
      /\ ready.sent = fixed.sent
  BY <1>2, <1>3 DEF K
<1> HIDE DEF ready
<1>5. /\ s \in K /\ s.down = ready.down
      /\ s.held = IF told THEN ready.held \union {<<code, sym>>} ELSE ready.held
      /\ s.sent = IF told THEN Append(ready.sent, code) ELSE ready.sent
  BY <1>4, SendKeyDown
<1> HIDE DEF s
<1>6. Adds(s.sent, k.sent, code)
  BY <1>3, <1>4, <1>5 DEF Adds
<1>7. told => SentLast(s.sent, code)
  <2>1. ready.sent \in Seq(Codes)
    BY <1>4 DEF K
  <2> QED
    BY <1>5, <2>1 DEF SentLast
<1> QED
  BY <1>1, <1>4, <1>5, <1>6, <1>7 DEF Added

(* A release takes its key away and adds none. *)
LEMMA KeyUpEvent ==
  \A k \in K, sym \in Syms, code \in Codes :
    LET s == HandleKeyEvent(k, sym, code, FALSE, Unknown)
    IN  /\ s \in K /\ s.down = k.down /\ s.sent = k.sent
        /\ s.held \subseteq k.held \ Added(code, sym)
<1> TAKE k \in K, sym \in Syms, code \in Codes
<1> DEFINE ready == [k EXCEPT !.remoteLock = k.remoteLock]
           s == SendKey(k, sym, code, FALSE)
<1>1. ready = k
  BY DEF K
<1>2. HandleKeyEvent(k, sym, code, FALSE, Unknown) = s
  BY <1>1 DEF HandleKeyEvent
<1>3. /\ s \in K /\ s.down = k.down /\ s.sent = k.sent
      /\ s.held = IF Sending /\ Sendable(code, sym) THEN k.held \ {<<code, sym>>} ELSE k.held
  BY SendKeyUp
<1> QED
  BY <1>2, <1>3 DEF Added

-----------------------------------------------------------------------------
(* The list after a press has the key under the keysym it was sent with.   *)
LEMMA KeyPressDoes ==
  \A k \in K, sym \in Syms, code \in Codes, caps \in Caps :
    /\ Press(k, sym, code, caps) \in K
    /\ Press(k, sym, code, caps).down = [k.down EXCEPT ![code] = sym]
    /\ Press(k, sym, code, caps).held \subseteq k.held \union Added(code, sym)
    /\ Adds(Press(k, sym, code, caps).sent, k.sent, code)
    /\ Sending /\ Sendable(code, sym) => SentLast(Press(k, sym, code, caps).sent, code)
<1> TAKE k \in K, sym \in Syms, code \in Codes, caps \in Caps
<1> DEFINE listed == [k EXCEPT !.down[code] = sym]
           s == HandleKeyEvent(listed, sym, code, TRUE, caps)
<1>1. Press(k, sym, code, caps) = s
  BY DEF Press
<1>2. /\ listed \in K /\ listed.down = [k.down EXCEPT ![code] = sym]
      /\ listed.held = k.held /\ listed.sent = k.sent
  BY DEF K, Syms
<1> HIDE DEF listed
<1>3. /\ s \in K /\ s.down = listed.down
      /\ s.held \subseteq listed.held \union Added(code, sym)
      /\ Adds(s.sent, listed.sent, code)
      /\ Sending /\ Sendable(code, sym) => SentLast(s.sent, code)
  BY <1>2, KeyDownEvent
<1> HIDE DEF s
<1> QED
  BY <1>1, <1>2, <1>3

(* The list after a release has the key no more. *)
LEMMA KeyReleaseDoes ==
  \A k \in K, code \in Codes :
    /\ Release(k, code) \in K
    /\ Release(k, code).down = [k.down EXCEPT ![code] = Up]
    /\ Release(k, code).held \subseteq k.held
    /\ k.down[code] # Up => Release(k, code).held \subseteq k.held \ Added(code, k.down[code])
    /\ Release(k, code).sent = k.sent
<1> TAKE k \in K, code \in Codes
<1>1. CASE k.down[code] = Up
  <2>1. Release(k, code) = k
    BY <1>1 DEF Release
  <2>2. k.down = [k.down EXCEPT ![code] = Up]
    BY <1>1 DEF K
  <2> QED
    BY <1>1, <2>1, <2>2
<1>2. CASE k.down[code] # Up
  <2> DEFINE sym == k.down[code]
             dropped == [k EXCEPT !.down[code] = Up]
  <2>1. sym \in Syms
    BY <1>2 DEF K, Syms
  <2>2. Release(k, code) = HandleKeyEvent(dropped, sym, code, FALSE, Unknown)
    BY <1>2 DEF Release
  <2>3. /\ dropped \in K /\ dropped.down = [k.down EXCEPT ![code] = Up]
        /\ dropped.held = k.held /\ dropped.sent = k.sent
    BY DEF K
  <2> HIDE DEF dropped, sym
  <2>4. /\ HandleKeyEvent(dropped, sym, code, FALSE, Unknown) \in K
        /\ HandleKeyEvent(dropped, sym, code, FALSE, Unknown).down = dropped.down
        /\ HandleKeyEvent(dropped, sym, code, FALSE, Unknown).held
             \subseteq dropped.held \ Added(code, sym)
        /\ HandleKeyEvent(dropped, sym, code, FALSE, Unknown).sent = dropped.sent
    BY <2>1, <2>3, KeyUpEvent
  <2>5. Release(k, code).held \subseteq k.held \ Added(code, sym)
    BY <2>2, <2>3, <2>4
  <2> QED
    BY <2>2, <2>3, <2>4, <2>5 DEF sym
<1> QED
  BY <1>1, <1>2

(* A press keeps list and server matched, if the key was not down or is    *)
(* pressed again under the keysym it is down with.                         *)
LEMMA PressSound ==
  \A k \in K, sym \in Syms, code \in Codes, caps \in Caps :
    Sound(k) /\ k.down[code] \in {Up, sym} => Sound(Press(k, sym, code, caps))
<1> SUFFICES ASSUME NEW k \in K, NEW sym \in Syms, NEW code \in Codes, NEW caps \in Caps,
                    Sound(k), k.down[code] \in {Up, sym}
    PROVE  Sound(Press(k, sym, code, caps))
  OBVIOUS
<1> DEFINE s == Press(k, sym, code, caps)
<1>1. /\ s \in K /\ s.down = [k.down EXCEPT ![code] = sym]
      /\ s.held \subseteq k.held \union Added(code, sym)
  BY KeyPressDoes
<1> HIDE DEF s
<1>2. ASSUME NEW p \in s.held
      PROVE  s.down[p[1]] = p[2] /\ Sendable(p[1], p[2])
  <2>1. CASE p \in k.held
    <3>1. p[1] \in Codes /\ p[2] \in Syms /\ k.down \in [Codes -> Keysyms \union {NoSymbol, Up}]
      BY <2>1 DEF Sound, K
    <3>2. k.down[p[1]] = p[2] /\ Sendable(p[1], p[2])
      BY <2>1 DEF Sound, Matched
    <3>3. p[2] # Up
      BY <3>1, KeyboardAssumption DEF KeyboardAssumption, Syms, NoSymbol, Up
    <3> QED
      BY <1>1, <3>1, <3>2, <3>3
  <2>2. CASE p \in Added(code, sym)
    <3>1. s.down[code] = sym
      BY <1>1 DEF K
    <3>2. p = <<code, sym>> /\ Sendable(code, sym)
      BY <2>2 DEF Added
    <3> QED
      BY <3>1, <3>2
  <2> QED
    BY <1>1, <2>1, <2>2
<1>3. ~Sending => s.held = {}
  BY <1>1 DEF Sound, Added
<1> QED
  BY <1>1, <1>2, <1>3 DEF Sound, Matched, s

(* A release lets go of the key under the keysym it is held with. *)
LEMMA ReleaseSound ==
  \A k \in K, code \in Codes : Sound(k) => Sound(Release(k, code))
<1> SUFFICES ASSUME NEW k \in K, NEW code \in Codes, Sound(k)
    PROVE  Sound(Release(k, code))
  OBVIOUS
<1> DEFINE s == Release(k, code)
<1>1. /\ s \in K /\ s.down = [k.down EXCEPT ![code] = Up]
      /\ s.held \subseteq k.held
      /\ k.down[code] # Up => s.held \subseteq k.held \ Added(code, k.down[code])
  BY KeyReleaseDoes
<1> HIDE DEF s
<1>2. ASSUME NEW p \in s.held
      PROVE  s.down[p[1]] = p[2] /\ Sendable(p[1], p[2])
  <2>1. /\ p \in Codes \X Syms /\ p[1] \in Codes /\ p[2] \in Syms /\ p = <<p[1], p[2]>>
        /\ k.down \in [Codes -> Keysyms \union {NoSymbol, Up}]
    BY <1>1 DEF K
  <2>2. k.down[p[1]] = p[2] /\ Sendable(p[1], p[2]) /\ Sending
    BY <1>1 DEF Sound, Matched
  <2>3. p[2] # Up
    BY <2>1, KeyboardAssumption DEF KeyboardAssumption, Syms, NoSymbol, Up
  <2>4. p[1] # code
    <3> SUFFICES ASSUME p[1] = code PROVE FALSE
      OBVIOUS
    <3>1. p = <<code, k.down[code]>> /\ k.down[code] # Up /\ Sendable(code, k.down[code])
      BY <2>1, <2>2, <2>3
    <3>2. p \in Added(code, k.down[code])
      BY <2>2, <3>1 DEF Added
    <3> QED
      BY <1>1, <3>1, <3>2
  <2> QED
    BY <1>1, <2>1, <2>2, <2>4
<1>3. ~Sending => s.held = {}
  BY <1>1 DEF Sound
<1> QED
  BY <1>1, <1>2, <1>3 DEF Sound, Matched, s

(* A tap leaves the key up. *)
LEMMA TapSound ==
  \A k \in K, sym \in Syms, code \in Codes, caps \in Caps :
    /\ Tap(k, sym, code, caps) \in K
    /\ Tap(k, sym, code, caps).down = [k.down EXCEPT ![code] = Up]
    /\ Sound(k) /\ k.down[code] \in {Up, sym} => Sound(Tap(k, sym, code, caps))
    /\ Adds(Tap(k, sym, code, caps).sent, k.sent, code)
<1> TAKE k \in K, sym \in Syms, code \in Codes, caps \in Caps
<1> DEFINE s == Press(k, sym, code, caps)
<1>1. Tap(k, sym, code, caps) = Release(s, code)
  BY DEF Tap
<1>2. s \in K /\ s.down = [k.down EXCEPT ![code] = sym] /\ Adds(s.sent, k.sent, code)
  BY KeyPressDoes
<1>3. Sound(k) /\ k.down[code] \in {Up, sym} => Sound(s)
  BY PressSound
<1> HIDE DEF s
<1>4. /\ Release(s, code) \in K /\ Release(s, code).down = [s.down EXCEPT ![code] = Up]
      /\ Release(s, code).sent = s.sent
  BY <1>2, KeyReleaseDoes
<1>5. [s.down EXCEPT ![code] = Up] = [k.down EXCEPT ![code] = Up]
  BY <1>2 DEF K
<1>6. Sound(s) => Sound(Release(s, code))
  BY <1>2, ReleaseSound
<1> QED
  BY <1>1, <1>2, <1>3, <1>4, <1>5, <1>6

(* Releasing every key leaves none held. *)
LEMMA AllKeysUpSound ==
  \A k \in K : Sound(k) =>
    Sound(AllKeysUp(k)) /\ AllKeysUp(k).down = [c \in Codes |-> Up]
<1> SUFFICES ASSUME NEW k \in K, Sound(k)
    PROVE  Sound(AllKeysUp(k)) /\ AllKeysUp(k).down = [c \in Codes |-> Up]
  OBVIOUS
<1> DEFINE s == AllKeysUp(k)
           listed == {<<c, k.down[c]>> : c \in {d \in Codes : k.down[d] # Up}}
<1>1. /\ s \in K /\ s.down = [c \in Codes |-> Up]
      /\ s.held = IF Sending THEN k.held \ listed ELSE k.held
  BY DEF AllKeysUp, Sound, K
<1>2. ASSUME NEW p \in k.held PROVE p \in listed
  <2>1. p[1] \in Codes /\ p[2] \in Syms /\ p = <<p[1], p[2]>>
    BY DEF Sound, K
  <2>2. k.down[p[1]] = p[2]
    BY DEF Sound, Matched
  <2>3. p[2] # Up
    BY <2>1, KeyboardAssumption DEF KeyboardAssumption, Syms, NoSymbol, Up
  <2> QED
    BY <2>1, <2>2, <2>3
<1> HIDE DEF s, listed
<1>3. s.held = {}
  BY <1>1, <1>2 DEF Sound
<1> QED
  BY <1>1, <1>3 DEF Sound, Matched, s

-----------------------------------------------------------------------------
\* What a step leaves of the list: it is as before, or one key has changed.
Changed(k, code, to) == [k.down EXCEPT ![code] = to]

(* One key changed: the list stays bare of those that are let go at once. *)
LEMMA BareSet ==
  ASSUME NEW k \in K, Bare(k), NEW code \in Codes, NEW to, NEW r \in K,
         r.down = [k.down EXCEPT ![code] = to],
         \/ to = Up
         \/ /\ code # "Unidentified" /\ ~(Mac /\ code = "CapsLock")
            /\ Windows => to \notin JpBadKeys
  PROVE  Bare(r)
<1>1. \A c \in Codes : r.down[c] = IF c = code THEN to ELSE k.down[c]
  BY DEF K
<1>2. {"Unidentified", "CapsLock"} \subseteq Codes
  BY KeyboardAssumption DEF KeyboardAssumption
<1>3. Up \notin JpBadKeys
  BY DEF Up, JpBadKeys
<1> QED
  BY <1>1, <1>2, <1>3 DEF Bare

(* The ControlLeft that was held back is pressed, or not. *)
LEMMA HeldBackDoes ==
  ASSUME KInv, Live, NEW code \in Codes, NEW quick \in BOOLEAN, NEW caps \in Caps
  PROVE  LET k == HeldBackCtrl(code, quick, caps) IN
         k \in K /\ Sound(k) /\ Bare(k)
<1> DEFINE k == HeldBackCtrl(code, quick, caps)
<1>1. CtrlSym \in Syms /\ "ControlLeft" \in Codes /\ CtrlSym \notin JpBadKeys
  BY KeyboardAssumption DEF KeyboardAssumption, Syms, CtrlSym, JpBadKeys
<1>2. Quiet \in K /\ Sound(Quiet) /\ Bare(Quiet) /\ Quiet.down = keys.down
  BY QuietIs, QuietSound DEF KInv, Sound
<1>3. CASE k = Quiet
  BY <1>2, <1>3
<1>4. CASE altGr /\ k = Press(Quiet, CtrlSym, "ControlLeft", caps)
  <2>1. Quiet.down["ControlLeft"] = Up
    BY <1>2, <1>4 DEF KInv
  <2>2. Sound(k) /\ k \in K
    BY <1>1, <1>2, <1>4, <2>1, PressSound DEF Sound
  <2>3. k.down = [Quiet.down EXCEPT !["ControlLeft"] = CtrlSym]
    BY <1>1, <1>2, <1>4, KeyPressDoes
  <2> HIDE DEF k
  <2>4. Bare(k)
    BY <1>1, <1>2, <2>2, <2>3, BareSet
  <2> QED
    BY <2>2, <2>4 DEF k
<1>5. k = Quiet \/ (altGr /\ k = Press(Quiet, CtrlSym, "ControlLeft", caps))
  BY DEF HeldBackCtrl
<1> QED
  BY <1>3, <1>4, <1>5

(* The keysym of a key that is down is the one it is down with. *)
LEMMA KeysymDoes ==
  \A k \in K, sym \in Syms, code \in Codes :
    KeysymOf(k, sym, code) \in Syms /\ k.down[code] \in {Up, KeysymOf(k, sym, code)}
<1> SUFFICES ASSUME NEW k \in K, NEW sym \in Syms, NEW code \in Codes
    PROVE  KeysymOf(k, sym, code) \in Syms /\ k.down[code] \in {Up, KeysymOf(k, sym, code)}
  OBVIOUS
<1>1. MacKeysym(sym) \in Syms
  BY KeyboardAssumption DEF KeyboardAssumption, MacKeysym, Syms
<1>2. k.down[code] # Up => k.down[code] \in Syms
  BY DEF K, Syms
<1> QED
  BY <1>1, <1>2 DEF KeysymOf

\* What the handlers of key events leave behind, with the listeners on.
Handled ==
  /\ keys' \in K /\ Sound(keys') /\ Bare(keys')
  /\ altGr' \in BOOLEAN /\ (altGr' => keys'.down["ControlLeft"] = Up /\ Windows)
  /\ localLock' \in Locks

(* A press. *)
LEMMA HandleKeyDownDoes ==
  ASSUME KInv, NEW code \in Codes, NEW keysym \in Syms, NEW quick \in BOOLEAN,
         NEW meta \in BOOLEAN, HandleKeyDown(code, keysym, quick, meta)
  PROVE  Handled
<1> DEFINE lock == IF code = "CapsLock" THEN Toggled(localLock) ELSE localLock
           k == HeldBackCtrl(code, quick, lock)
           wanted == IF IsAltGr(code, quick) THEN AltGrSym ELSE keysym
           sym == KeysymOf(k, wanted, code)
           tapped == TappedAtOnce(code, sym, meta)
           tapSym == IF Mac /\ code = "CapsLock" /\ ~meta THEN CapsSym ELSE sym
<1>1. /\ Live /\ localLock' = lock
      /\ IF code = "Unidentified"
         THEN /\ altGr' = FALSE
              /\ keys' = IF keysym = NoSymbol THEN k ELSE Tap(k, keysym, code, lock)
         ELSE /\ altGr' = (StartsAltGr(k, code) /\ ~tapped)
              /\ keys' = CASE tapped -> Tap(k, tapSym, code, lock)
                           [] ~tapped /\ StartsAltGr(k, code) -> k
                           [] OTHER -> Press(k, sym, code, lock)
  BY DEF HandleKeyDown, KInv
<1>2. lock \in Locks /\ lock \in Caps
  BY DEF KInv, KeyboardTypeOK, Locks, Toggled, Caps
<1>3. k \in K /\ Sound(k) /\ Bare(k)
  BY <1>1, <1>2, HeldBackDoes
<1>4. wanted \in Syms /\ CapsSym \in Syms
  BY KeyboardAssumption DEF KeyboardAssumption, Syms
<1> HIDE DEF lock, k, wanted
<1>5. sym \in Syms /\ k.down[code] \in {Up, sym}
  BY <1>3, <1>4, KeysymDoes
<1> HIDE DEF sym
<1>6. tapSym \in Syms /\ k.down[code] \in {Up, tapSym}
  <2>1. Mac /\ code = "CapsLock" => k.down[code] = Up
    BY <1>3 DEF Bare
  <2> QED
    BY <1>4, <1>5, <2>1
<1> HIDE DEF tapped, tapSym
<1>7. ASSUME NEW s \in Syms, k.down[code] \in {Up, s}, keys' = Tap(k, s, code, lock)
      PROVE  keys' \in K /\ Sound(keys') /\ Bare(keys')
  <2>1. keys' \in K /\ Sound(keys') /\ keys'.down = [k.down EXCEPT ![code] = Up]
    BY <1>2, <1>3, <1>7, TapSound
  <2>2. Bare(keys')
    BY <1>3, <2>1, BareSet
  <2> QED
    BY <2>1, <2>2
<1>8. CASE code = "Unidentified"
  <2>1. keys' = k \/ keys' = Tap(k, keysym, code, lock)
    BY <1>1, <1>8
  <2>2. k.down[code] = Up
    BY <1>3, <1>8 DEF Bare
  <2>3. keys' \in K /\ Sound(keys') /\ Bare(keys')
    BY <1>3, <1>7, <2>1, <2>2
  <2> QED
    BY <1>1, <1>2, <1>8, <2>3 DEF Handled
<1>9. CASE code # "Unidentified" /\ tapped
  <2>1. keys' = Tap(k, tapSym, code, lock) /\ altGr' = FALSE
    BY <1>1, <1>9
  <2>2. keys' \in K /\ Sound(keys') /\ Bare(keys')
    BY <1>6, <1>7, <2>1
  <2> QED
    BY <1>1, <1>2, <2>1, <2>2 DEF Handled
<1>10. CASE code # "Unidentified" /\ ~tapped /\ StartsAltGr(k, code)
  <2>1. keys' = k /\ altGr' = TRUE
    BY <1>1, <1>10
  <2>2. k.down["ControlLeft"] = Up /\ Windows
    BY <1>10 DEF StartsAltGr
  <2> QED
    BY <1>1, <1>2, <1>3, <2>1, <2>2 DEF Handled
<1>11. CASE code # "Unidentified" /\ ~tapped /\ ~StartsAltGr(k, code)
  <2>1. keys' = Press(k, sym, code, lock) /\ altGr' = FALSE
    BY <1>1, <1>11
  <2>2. keys' \in K /\ Sound(keys') /\ keys'.down = [k.down EXCEPT ![code] = sym]
    BY <1>2, <1>3, <1>5, <2>1, PressSound, KeyPressDoes DEF Sound
  <2>3. ~(Mac /\ code = "CapsLock") /\ (Windows => sym \notin JpBadKeys)
    BY <1>11 DEF tapped, TappedAtOnce
  <2>4. Bare(keys')
    BY <1>3, <1>11, <2>2, <2>3, BareSet
  <2> QED
    BY <1>1, <1>2, <2>1, <2>2, <2>4 DEF Handled
<1> QED
  BY <1>8, <1>9, <1>10, <1>11

(* A release. *)
LEMMA HandleKeyUpDoes ==
  ASSUME KInv, NEW code \in Codes, HandleKeyUp(code)
  PROVE  Handled
<1> DEFINE k == IF altGr THEN Press(Quiet, CtrlSym, "ControlLeft", Unknown) ELSE Quiet
           up == Release(k, code)
           right == Release(up, "ShiftRight")
           shift == code \in {"ShiftLeft", "ShiftRight"}
<1>1. /\ Live /\ altGr' = FALSE
      /\ localLock' \in {localLock, Toggled(localLock)}
      /\ \/ Mac /\ code = "CapsLock" /\ keys' = Tap(k, CapsSym, code, Unknown)
         \/ keys' = Release(right, "ShiftLeft")
         \/ keys' = up
  BY DEF HandleKeyUp, KInv
<1>2. localLock' \in Locks
  BY <1>1 DEF KInv, KeyboardTypeOK, Locks, Toggled
<1>3. /\ CtrlSym \in Syms /\ CapsSym \in Syms /\ Unknown \in Caps
      /\ {"ControlLeft", "ShiftLeft", "ShiftRight"} \subseteq Codes
      /\ CtrlSym \notin JpBadKeys
  BY KeyboardAssumption DEF KeyboardAssumption, Syms, Caps, CtrlSym, JpBadKeys
<1>4. k \in K /\ Sound(k) /\ Bare(k)
  <2>1. Quiet \in K /\ Sound(Quiet) /\ Bare(Quiet) /\ Quiet.down = keys.down
    BY <1>1, QuietIs, QuietSound DEF KInv, Sound
  <2>2. CASE altGr
    <3>1. k = Press(Quiet, CtrlSym, "ControlLeft", Unknown) /\ Quiet.down["ControlLeft"] = Up
      BY <2>1, <2>2 DEF KInv
    <3> HIDE DEF k
    <3>2. k \in K /\ k.down = [Quiet.down EXCEPT !["ControlLeft"] = CtrlSym]
      BY <1>3, <2>1, <3>1, KeyPressDoes
    <3>4. Sound(k)
      BY <1>3, <2>1, <3>1, PressSound
    <3>3. Bare(k)
      BY <1>3, <2>1, <3>2, BareSet
    <3> QED
      BY <3>2, <3>3, <3>4
  <2> QED
    BY <2>1, <2>2
<1> HIDE DEF k
<1>5. ASSUME NEW r \in K, Sound(r), Bare(r), NEW c \in Codes
      PROVE  Release(r, c) \in K /\ Sound(Release(r, c)) /\ Bare(Release(r, c))
  <2>1. /\ Release(r, c) \in K /\ Sound(Release(r, c))
        /\ Release(r, c).down = [r.down EXCEPT ![c] = Up]
    BY <1>5, ReleaseSound, KeyReleaseDoes
  <2>2. Bare(Release(r, c))
    BY <1>5, <2>1, BareSet
  <2> QED
    BY <2>1, <2>2
<1>6. up \in K /\ Sound(up) /\ Bare(up)
  BY <1>4, <1>5
<1> HIDE DEF up
<1>7. right \in K /\ Sound(right) /\ Bare(right)
  BY <1>3, <1>5, <1>6
<1> HIDE DEF right
<1>8. CASE keys' = up \/ keys' = Release(right, "ShiftLeft")
  <2>1. keys' \in K /\ Sound(keys') /\ Bare(keys')
    BY <1>3, <1>5, <1>6, <1>7, <1>8
  <2> QED
    BY <1>1, <1>2, <2>1 DEF Handled
<1>9. CASE Mac /\ code = "CapsLock" /\ keys' = Tap(k, CapsSym, code, Unknown)
  <2>1. k.down[code] = Up
    BY <1>4, <1>9 DEF Bare
  <2>2. keys' \in K /\ Sound(keys') /\ keys'.down = [k.down EXCEPT ![code] = Up]
    BY <1>3, <1>4, <1>9, <2>1, TapSound
  <2>3. Bare(keys')
    BY <1>4, <2>2, BareSet
  <2> QED
    BY <1>1, <1>2, <2>2, <2>3 DEF Handled
<1> QED
  BY <1>1, <1>8, <1>9

-----------------------------------------------------------------------------
(* The handlers of key events keep the invariant. *)
LEMMA HandledInv ==
  ASSUME KInv, Live, Handled, grabbed, focus = "canvas", led' = Report(keys'),
         UNCHANGED <<connState, fixedVars, grabbed, focus>>
  PROVE  KInv'
<1>1. led' \in Seq(Locks)
  <2>1. led \in Seq(Locks) /\ keys'.lock \in Locks
    BY DEF KInv, KeyboardTypeOK, Handled, K
  <2>2. Append(led, keys'.lock) \in Seq(Locks)
    BY <2>1
  <2> QED
    BY <2>1, <2>2 DEF Report
<1>2. KeyboardTypeOK'
  BY <1>1 DEF KInv, KeyboardTypeOK, fixedVars, Handled, K, Syms
<1>3. Sound(keys)' /\ Bare(keys)' /\ Live'
  BY DEF Handled, Sound, Matched, Sendable, Bare, Mac, Windows, Sending, Live, fixedVars
<1> QED
  BY <1>2, <1>3 DEF KInv, Handled, Windows, fixedVars

(* The initial states. *)
LEMMA KeyboardStarts == KeyboardInit => KInv
<1> SUFFICES ASSUME KeyboardInit PROVE KInv
  OBVIOUS
<1>1. /\ keys = [down |-> [c \in Codes |-> Up], held |-> {}, remoteLock |-> Unknown,
                 lock |-> "off", sent |-> <<>>]
      /\ connState = "connecting" /\ grabbed = FALSE /\ altGr = FALSE
      /\ focus = "canvas" /\ localLock = "off" /\ led = <<>>
      /\ viewOnly \in BOOLEAN /\ qemu = FALSE /\ platform \in Platforms
  BY DEF KeyboardInit
<1>2. {"Unidentified", "CapsLock", "ControlLeft"} \subseteq Codes
  BY KeyboardAssumption DEF KeyboardAssumption
<1>3. keys \in K
  BY <1>1 DEF K, Locks
<1>4. KeyboardTypeOK
  <2>1. <<>> \in Seq(Locks)
    OBVIOUS
  <2>2. localLock \in Locks
    BY <1>1 DEF Locks
  <2>3. keys \in [down : [Codes -> Keysyms \union {NoSymbol, Up}],
                 held : SUBSET (Codes \X (Keysyms \union {NoSymbol})),
                 remoteLock : Locks \union {Unknown}, lock : Locks, sent : Seq(Codes)]
    BY <1>3 DEF K, Syms
  <2> QED
    BY <1>1, <2>1, <2>2, <2>3 DEF KeyboardTypeOK, ConnStates
<1>5. Sound(keys)
  BY <1>1, <1>3 DEF Sound, Matched
<1>6. Bare(keys) /\ Clear(keys)
  BY <1>1, <1>2 DEF Bare, Clear, Up, JpBadKeys
<1> QED
  BY <1>1, <1>4, <1>5, <1>6 DEF KInv, Live

(* The connection comes up with nothing held, or goes down. *)
LEMMA ConnectInv == KInv /\ KeyboardConnect => KInv'
<1> SUFFICES ASSUME KInv, KeyboardConnect PROVE KInv'
  OBVIOUS
<1>1. /\ connState = "connecting" /\ connState' = "connected"
      /\ UNCHANGED <<viewOnly, platform, qemu, focus, altGr, localLock, led>>
      /\ (~grabbed' => ~grabbed) /\ grabbed' \in BOOLEAN /\ keys' = Quiet
  BY DEF KeyboardConnect, Connect, fixedVars, KInv, KeyboardTypeOK
<1>2. keys.held = {} /\ keys \in K
  BY <1>1 DEF KInv, Live, Sound, Sending
<1>7. keys' \in K /\ keys'.held = {} /\ keys'.down = keys.down
  BY <1>1, <1>2, QuietIs
<1>3. Sound(keys)' /\ Live'
  BY <1>1, <1>7 DEF Sound, Matched, Live
<1>6. Bare(keys)'
  BY <1>1, <1>7 DEF Bare, Mac, Windows, KInv
<1>4. KeyboardTypeOK'
  BY <1>1, <1>7 DEF KInv, KeyboardTypeOK, ConnStates, K, Syms
<1>5. /\ (altGr => keys.down["ControlLeft"] = Up /\ Windows)'
      /\ (~grabbed \/ focus = "away" => Clear(keys))'
  BY <1>1, <1>7 DEF KInv, Clear, Windows
<1> QED
  BY <1>1, <1>3, <1>4, <1>5, <1>6 DEF KInv

(* Going down empties the list. *)
LEMMA DropInv == KInv /\ KeyboardDrop => KInv'
<1> SUFFICES ASSUME KInv, KeyboardDrop PROVE KInv'
  OBVIOUS
<1>1. /\ connState' \in {"disconnecting", "disconnected"}
      /\ UNCHANGED <<viewOnly, platform, qemu, focus, altGr, localLock, led>>
      /\ grabbed' = FALSE
      /\ keys' = [Quiet EXCEPT !.down = [c \in Codes |-> Up]]
  BY DEF KeyboardDrop, Drop, Ungrab, fixedVars
<1>2. Quiet \in K
  BY QuietIs DEF KInv, KeyboardTypeOK, K, Syms
<1>3. keys' \in K /\ keys'.down = [c \in Codes |-> Up]
  BY <1>1, <1>2 DEF K
<1>4. {"Unidentified", "CapsLock", "ControlLeft"} \subseteq Codes
  BY KeyboardAssumption DEF KeyboardAssumption
<1>5. Bare(keys)' /\ Clear(keys)' /\ (keys.down["ControlLeft"] = Up)' /\ ~Live'
  BY <1>1, <1>3, <1>4 DEF Bare, Clear, Live, Up, JpBadKeys
<1>6. KeyboardTypeOK'
  BY <1>1, <1>3 DEF KInv, KeyboardTypeOK, ConnStates, K, Syms
<1> QED
  BY <1>1, <1>5, <1>6 DEF KInv, Windows

(* The AltGr timer presses a ControlLeft, wherever it runs out. *)
LEMMA TimeoutInv == KInv /\ HandleAltGrTimeout => KInv'
<1> SUFFICES ASSUME KInv, HandleAltGrTimeout PROVE KInv'
  OBVIOUS
<1>1. /\ altGr /\ altGr' = FALSE
      /\ keys' = Press(Quiet, CtrlSym, "ControlLeft", Unknown)
      /\ UNCHANGED <<connState, viewOnly, platform, qemu, grabbed, focus, localLock, led>>
  BY DEF HandleAltGrTimeout, fixedVars
<1>2. /\ CtrlSym \in Syms /\ Unknown \in Caps /\ "ControlLeft" \in Codes
      /\ CtrlSym \notin JpBadKeys
  BY KeyboardAssumption DEF KeyboardAssumption, Syms, Caps, CtrlSym, JpBadKeys
<1>3. keys \in K /\ keys.down["ControlLeft"] = Up
  BY <1>1 DEF KInv, KeyboardTypeOK, K, Syms
<1>11. Quiet \in K /\ Quiet.down = keys.down /\ (Live => Sound(Quiet)) /\ Bare(Quiet)
  BY <1>3, QuietIs, QuietSound DEF KInv
<1>4. keys' \in K /\ keys'.down = [keys.down EXCEPT !["ControlLeft"] = CtrlSym]
  BY <1>1, <1>2, <1>11, KeyPressDoes
<1>5. Live => Sound(keys')
  BY <1>1, <1>2, <1>3, <1>11, PressSound
<1>6. (Live => Sound(keys))'
  BY <1>1, <1>5 DEF Sound, Matched, Sendable, Sending, Live
<1>7. \A c \in Codes \ {"ControlLeft"} : keys'.down[c] = keys.down[c]
  BY <1>3, <1>4 DEF K
<1>9. Bare(keys)'
  <2>1. Bare(keys')
    BY <1>2, <1>4, <1>11, BareSet
  <2> QED
    BY <1>1, <2>1 DEF Bare, Mac, Windows
<1>10. Clear(keys) => Clear(keys)'
  BY <1>7 DEF Clear
<1>8. KeyboardTypeOK'
  BY <1>1, <1>4 DEF KInv, KeyboardTypeOK, K, Syms
<1> QED
  BY <1>1, <1>6, <1>8, <1>9, <1>10 DEF KInv, Live

(* The window loses the focus. *)
LEMMA BlurInv == KInv /\ Blur => KInv'
<1> SUFFICES ASSUME KInv, Blur PROVE KInv'
  OBVIOUS
<1>1. /\ keys' = IF grabbed THEN AllKeysUp(Quiet) ELSE Quiet
      /\ focus' = "away"
      /\ UNCHANGED <<connState, viewOnly, platform, qemu, grabbed, altGr, localLock, led>>
  BY DEF Blur, fixedVars
<1>2. {"Unidentified", "CapsLock", "ControlLeft"} \subseteq Codes
  BY KeyboardAssumption DEF KeyboardAssumption
<1>3. Quiet \in K /\ Quiet.down = keys.down /\ Quiet.held = keys.held
      /\ (Live => Sound(Quiet)) /\ Bare(Quiet) /\ (Clear(keys) => Clear(Quiet))
  BY QuietIs, QuietSound DEF KInv, KeyboardTypeOK, K, Syms
<1>4. CASE grabbed
  <2>1. Live /\ keys' = AllKeysUp(Quiet) /\ Sound(Quiet)
    BY <1>1, <1>3, <1>4 DEF KInv
  <2>2. Sound(keys') /\ keys'.down = [c \in Codes |-> Up]
    BY <1>3, <2>1, AllKeysUpSound
  <2>3. Sound(keys)' /\ Live'
    BY <1>1, <2>1, <2>2 DEF Sound, Matched, Sendable, Sending, Live
  <2>4. Bare(keys)' /\ Clear(keys)' /\ (keys.down["ControlLeft"] = Up)'
    BY <1>2, <2>2 DEF Bare, Clear, Up, JpBadKeys
  <2>5. KeyboardTypeOK'
    BY <1>1, <2>2 DEF KInv, KeyboardTypeOK, Sound, K, Syms
  <2> QED
    BY <1>1, <2>3, <2>4, <2>5 DEF KInv, Windows
<1>5. CASE ~grabbed
  <2>1. keys' = Quiet /\ Clear(Quiet)
    BY <1>1, <1>3, <1>5 DEF KInv
  <2>2. KeyboardTypeOK'
    BY <1>1, <1>3, <2>1 DEF KInv, KeyboardTypeOK, K, Syms
  <2>3. (Live => Sound(keys))'
    BY <1>1, <1>3, <2>1 DEF Sound, Matched, Sendable, Sending, Live
  <2>4. Bare(keys)' /\ Clear(keys)'
    BY <1>1, <1>3, <2>1 DEF Bare, Clear, Mac, Windows
  <2> QED
    BY <1>1, <1>3, <2>1, <2>2, <2>3, <2>4 DEF KInv, Live, Windows
<1> QED
  BY <1>4, <1>5

(* Everything that leaves the list and the keys held alone.  More keys may *)
(* be sendable than before.                                                *)
LEMMA KeptInv ==
  ASSUME KInv, KeyboardTypeOK', keys'.down = keys.down, keys'.held = keys.held,
         UNCHANGED <<connState, viewOnly, platform, altGr>>, qemu => qemu',
         grabbed' => Live, ~grabbed' \/ focus' = "away" => ~grabbed \/ focus = "away"
  PROVE  KInv'
<1>1. keys' \in K
  BY DEF KeyboardTypeOK, K, Syms
<1>2. (Live => Sound(keys))'
  BY <1>1 DEF KInv, Sound, Matched, Sendable, Sending, Live
<1>3. Bare(keys)' /\ (Clear(keys) => Clear(keys)')
  BY DEF KInv, Bare, Clear, Mac, Windows
<1> QED
  BY <1>2, <1>3 DEF KInv, Live, Windows

(* Every step keeps the invariant. *)
LEMMA KeyboardKeeps == KInv /\ [KeyboardNext]_keyboardVars => KInv'
<1> SUFFICES ASSUME KInv, [KeyboardNext]_keyboardVars PROVE KInv'
  OBVIOUS
<1> USE DEF fixedVars
<1>12. /\ keys \in K /\ Quiet \in K
       /\ Quiet.down = keys.down /\ Quiet.held = keys.held
  BY QuietIs DEF KInv, KeyboardTypeOK, K, Syms
<1>13. keys' = Quiet => keys' \in K /\ keys'.down = keys.down /\ keys'.held = keys.held
  BY <1>12
<1>1. CASE Grab
  <2>1. KeyboardTypeOK'
    BY <1>1, <1>13 DEF Grab, KInv, KeyboardTypeOK, K, Syms
  <2> QED
    BY <1>1, <1>13, <2>1, KeptInv DEF Grab
<1>2. CASE KeyboardConnect
  BY <1>2, ConnectInv
<1>3. CASE KeyboardDrop
  BY <1>3, DropInv
<1>4. ASSUME NEW key \in Keymap[platform], NEW quick \in BOOLEAN, NEW meta \in BOOLEAN,
             HandleKeyDown(key[1], key[2], quick, meta)
      PROVE  KInv'
  <2>1. key[1] \in Codes /\ key[2] \in Syms
    BY KeyboardAssumption DEF KeyboardAssumption, KInv, KeyboardTypeOK, Syms
  <2>2. Handled
    BY <1>4, <2>1, HandleKeyDownDoes
  <2>3. /\ grabbed /\ focus = "canvas" /\ led' = Report(keys')
        /\ UNCHANGED <<connState, fixedVars, grabbed, focus>>
    BY <1>4 DEF HandleKeyDown
  <2>4. Live
    BY <2>3 DEF KInv
  <2> QED
    BY <2>2, <2>3, <2>4, HandledInv
<1>5. ASSUME NEW code \in Codes, HandleKeyUp(code)
      PROVE  KInv'
  <2>1. Handled
    BY <1>5, HandleKeyUpDoes
  <2>2. /\ grabbed /\ focus = "canvas" /\ led' = Report(keys')
        /\ UNCHANGED <<connState, fixedVars, grabbed, focus>>
    BY <1>5 DEF HandleKeyUp
  <2>3. Live
    BY <2>2 DEF KInv
  <2> QED
    BY <2>1, <2>2, <2>3, HandledInv
<1>6. CASE HandleAltGrTimeout
  BY <1>6, TimeoutInv
<1>7. CASE Blur
  BY <1>7, BlurInv
<1>8. ASSUME NEW to \in {"canvas", "page"}, MoveFocus(to)
      PROVE  KInv'
  <2>1. KeyboardTypeOK'
    BY <1>8, <1>13 DEF MoveFocus, KInv, KeyboardTypeOK, K, Syms
  <2> QED
    BY <1>8, <1>13, <2>1, KeptInv DEF MoveFocus, KInv
<1>9. CASE HandleLedEvent
  <2>1. /\ keys' = [Quiet EXCEPT !.remoteLock = Head(led)] /\ led' = Tail(led)
        /\ led # <<>> /\ led \in Seq(Locks)
    BY <1>9 DEF HandleLedEvent, KInv, KeyboardTypeOK, K, Syms
  <2>2. Head(led) \in Locks /\ led' \in Seq(Locks)
    BY <2>1
  <2>3. keys' \in K /\ keys'.down = keys.down /\ keys'.held = keys.held
    BY <1>12, <2>1, <2>2 DEF K
  <2>4. KeyboardTypeOK'
    BY <1>9, <2>2, <2>3 DEF HandleLedEvent, fixedVars, KInv, KeyboardTypeOK, K, Syms
  <2> QED
    BY <1>9, <2>3, <2>4, KeptInv DEF HandleLedEvent, fixedVars, KInv
<1>10. CASE RemoteToggle
  <2>1. /\ keys' = [Quiet EXCEPT !.lock = Toggled(@)] /\ led' = Append(led, Toggled(keys.lock))
        /\ led \in Seq(Locks)
    BY <1>10 DEF RemoteToggle, KInv, KeyboardTypeOK, K, Syms
  <2>2. \A l : Toggled(l) \in Locks
    BY DEF Toggled, Locks
  <2>3. led' \in Seq(Locks)
    BY <2>1, <2>2
  <2>4. keys' \in K /\ keys'.down = keys.down /\ keys'.held = keys.held
    BY <1>12, <2>1, <2>2 DEF K
  <2>5. KeyboardTypeOK'
    BY <1>10, <2>3, <2>4 DEF RemoteToggle, fixedVars, KInv, KeyboardTypeOK, K, Syms
  <2> QED
    BY <1>10, <2>4, <2>5, KeptInv DEF RemoteToggle, fixedVars, KInv
<1>11. CASE UNCHANGED keyboardVars
  <2>1. KeyboardTypeOK'
    BY <1>11 DEF keyboardVars, KInv, KeyboardTypeOK
  <2> QED
    BY <1>11, <2>1, KeptInv DEF keyboardVars, KInv
<1>14. CASE EnableQemu
  <2>1. KeyboardTypeOK'
    BY <1>13, <1>14 DEF EnableQemu, KInv, KeyboardTypeOK, K, Syms
  <2> QED
    BY <1>13, <1>14, <2>1, KeptInv DEF EnableQemu, KInv
<1> QED
  BY <1>1, <1>2, <1>3, <1>4, <1>5, <1>6, <1>7, <1>8, <1>9, <1>10, <1>11, <1>14
     DEF KeyboardNext

(* The invariant says of every state what KeysLetGo does. *)
LEMMA LetGo == KInv => KeysLetGo
<1> SUFFICES ASSUME KInv PROVE KeysLetGo
  OBVIOUS
<1>1. NoStuckKeys
  BY DEF NoStuckKeys, KInv, Live, Sound, Matched
<1>2. NothingHeldAway
  BY DEF NothingHeldAway, KInv, Clear
<1> QED
  BY <1>1, <1>2 DEF KeysLetGo

(* The fields of the keyboard's state have their types. *)
THEOREM KeyboardTyped == KeyboardSpec => []KeyboardTypeOK
<1>1. KInv => KeyboardTypeOK
  BY DEF KInv
<1> QED
  BY <1>1, KeyboardStarts, KeyboardKeeps, PTL DEF KeyboardSpec

(***************************************************************************)
(* For every keymap, on every platform: whatever keys are pressed, under   *)
(* keysyms that change meanwhile, and wherever the focus and the session   *)
(* go, the server holds no key that the client would not let go of, and    *)
(* the client counts none as down once the user has gone.                  *)
(***************************************************************************)
THEOREM NoKeyLeftDown == KeyboardSpec => []KeysLetGo
BY KeyboardStarts, KeyboardKeeps, LetGo, PTL DEF KeyboardSpec

-----------------------------------------------------------------------------
(***************************************************************************)
(* The ControlLeft held back.  Once its press is among the messages of a   *)
(* step, with nothing but a CapsLock before it, every further press leaves *)
(* them so.                                                                *)
(***************************************************************************)
Led(s) ==
  /\ Follows1st(s, "ControlLeft", {"CapsLock"})
  /\ \E i \in DOMAIN s : s[i] = "ControlLeft"

(* Another message changes nothing of what came before it. *)
LEMMA LedAppend ==
  ASSUME NEW s \in Seq(Codes), NEW code \in Codes, Led(s)
  PROVE  Led(Append(s, code))
<1> DEFINE t == Append(s, code)
<1>1. /\ Len(s) \in Nat /\ DOMAIN s = 1 .. Len(s) /\ DOMAIN t = 1 .. Len(s) + 1
      /\ \A i \in 1 .. Len(s) : t[i] = s[i]
  <2>1. t \in Seq(Codes) /\ Len(t) = Len(s) + 1
    OBVIOUS
  <2>2. DOMAIN t = 1 .. Len(t) /\ DOMAIN s = 1 .. Len(s) /\ Len(s) \in Nat
    BY <2>1
  <2>3. \A i \in 1 .. Len(s) : t[i] = s[i]
    BY <2>2
  <2> QED
    BY <2>1, <2>2, <2>3
<1> HIDE DEF t
<1>2. PICK j \in 1 .. Len(s) : s[j] = "ControlLeft"
  BY <1>1 DEF Led
<1>3. j \in DOMAIN t /\ t[j] = "ControlLeft"
  BY <1>1, <1>2
<1>4. ASSUME NEW i \in DOMAIN t
      PROVE  t[i] \in {"CapsLock"} \/ \E n \in 1 .. i : t[n] = "ControlLeft"
  <2>1. CASE i \in 1 .. Len(s)
    <3>1. t[i] = s[i] /\ \A n \in 1 .. i : t[n] = s[n]
      BY <1>1, <2>1
    <3>2. s[i] \in {"CapsLock"} \/ \E n \in 1 .. i : s[n] = "ControlLeft"
      BY <1>1, <2>1 DEF Led, Follows1st
    <3> QED
      BY <3>1, <3>2
  <2>2. CASE i = Len(s) + 1
    <3>1. j \in 1 .. i /\ t[j] = "ControlLeft"
      BY <1>1, <1>3, <2>2
    <3> QED
      BY <3>1
  <2> QED
    BY <1>1, <2>1, <2>2
<1> QED
  BY <1>3, <1>4 DEF Led, Follows1st, t

(* So a press keeps it, whatever it is of. *)
LEMMA LedAdds ==
  ASSUME NEW was \in Seq(Codes), NEW code \in Codes, NEW s, Led(was), Adds(s, was, code)
  PROVE  Led(s) /\ s \in Seq(Codes)
<1>1. "CapsLock" \in Codes
  BY KeyboardAssumption DEF KeyboardAssumption
<1>2. \A c \in Codes : Led(Append(was, c)) /\ Append(was, c) \in Seq(Codes)
  BY LedAppend
<1>3. Led(Append(Append(was, "CapsLock"), code))
  BY <1>1, <1>2, LedAppend
<1>4. Append(Append(was, "CapsLock"), code) \in Seq(Codes)
  BY <1>1, <1>2
<1>5. s \in {was, Append(was, "CapsLock"), Append(was, code),
             Append(Append(was, "CapsLock"), code)}
  BY DEF Adds
<1> QED
  BY <1>1, <1>2, <1>3, <1>4, <1>5

(* The press of a ControlLeft that is sent begins it. *)
LEMMA LedStarts ==
  ASSUME NEW s \in Seq(Codes), Sending, Adds(s, <<>>, "ControlLeft"), SentLast(s, "ControlLeft")
  PROVE  Led(s)
<1>1. s \in {<<>>, <<"CapsLock">>, <<"ControlLeft">>, <<"CapsLock", "ControlLeft">>}
  BY DEF Adds
<1>2. s = <<"ControlLeft">> \/ s = <<"CapsLock", "ControlLeft">>
  BY <1>1 DEF SentLast
<1>3. CASE s = <<"ControlLeft">>
  <2>1. DOMAIN s = 1 .. 1 /\ s[1] = "ControlLeft"
    BY <1>3
  <2> QED
    BY <2>1 DEF Led, Follows1st
<1>4. CASE s = <<"CapsLock", "ControlLeft">>
  <2>1. DOMAIN s = 1 .. 2 /\ s[1] = "CapsLock" /\ s[2] = "ControlLeft"
    BY <1>4
  <2> QED
    BY <2>1 DEF Led, Follows1st
<1> QED
  BY <1>2, <1>3, <1>4

(* The messages of a step that presses the ControlLeft held back. *)
LEMMA CtrlPressed ==
  ASSUME KInv, NEW caps \in Caps
  PROVE  LET k == Press(Quiet, CtrlSym, "ControlLeft", caps)
         IN  k \in K /\ (IF Sending THEN Led(k.sent) ELSE k.sent = <<>>)
<1> DEFINE k == Press(Quiet, CtrlSym, "ControlLeft", caps)
<1>1. Quiet \in K /\ Quiet.sent = <<>>
  BY QuietIs DEF KInv, KeyboardTypeOK, K, Syms
<1>2. CtrlSym \in Syms /\ "ControlLeft" \in Codes /\ Sendable("ControlLeft", CtrlSym)
  BY KeyboardAssumption DEF KeyboardAssumption, Syms, Sendable
<1>3. /\ k \in K /\ Adds(k.sent, Quiet.sent, "ControlLeft")
      /\ Sending => SentLast(k.sent, "ControlLeft")
  BY <1>1, <1>2, KeyPressDoes
<1> HIDE DEF k
<1>4. k.sent \in Seq(Codes)
  BY <1>3 DEF K
<1>5. Sending => Led(k.sent)
  BY <1>1, <1>3, <1>4, LedStarts
<1>6. ~Sending => k.sent = <<>>
  BY <1>1, <1>3 DEF Adds
<1> QED
  BY <1>3, <1>5, <1>6 DEF k

\* The messages of a step begin with that press, if any can be sent.
Leads(k) == k \in K /\ (IF Sending THEN Led(k.sent) ELSE k.sent = <<>>)

(* A press, a release and a tap leave it in front. *)
LEMMA LeadsKept ==
  ASSUME NEW k, Leads(k), NEW sym \in Syms, NEW code \in Codes, NEW caps \in Caps
  PROVE  /\ Leads(Press(k, sym, code, caps))
         /\ Leads(Tap(k, sym, code, caps))
         /\ Leads(Release(k, code))
<1>1. k \in K /\ k.sent \in Seq(Codes)
  BY DEF Leads, K
<1>2. ASSUME NEW r \in K, Adds(r.sent, k.sent, code) PROVE Leads(r)
  <2>1. CASE Sending
    <3>1. Led(r.sent)
      BY <1>1, <1>2, <2>1, LedAdds DEF Leads
    <3> QED
      BY <2>1, <3>1 DEF Leads
  <2>2. CASE ~Sending
    BY <1>2, <2>2 DEF Leads, Adds
  <2> QED
    BY <2>1, <2>2
<1>3. Press(k, sym, code, caps) \in K /\ Adds(Press(k, sym, code, caps).sent, k.sent, code)
  BY <1>1, KeyPressDoes
<1>4. Tap(k, sym, code, caps) \in K /\ Adds(Tap(k, sym, code, caps).sent, k.sent, code)
  BY <1>1, TapSound
<1>5. Release(k, code) \in K /\ Release(k, code).sent = k.sent
  BY <1>1, KeyReleaseDoes
<1>6. Leads(Release(k, code))
  BY <1>5 DEF Leads
<1> QED
  BY <1>2, <1>3, <1>4, <1>6

\* What CtrlFirst asks of a step.
CtrlBefore ==
  altGr =>
    \/ /\ Follows1st(keys'.sent, "ControlLeft", {"CapsLock"})
       /\ Sending /\ ~altGr' => \E i \in DOMAIN keys'.sent : keys'.sent[i] = "ControlLeft"
    \/ /\ \A i \in DOMAIN keys'.sent : keys'.sent[i] \in {"CapsLock", "AltRight"}
       /\ ~altGr' /\ keys'.down["AltRight"] # Up

(* A step that presses it first, or that sends nothing and holds it back.  *)
LEMMA LeadsBefore ==
  /\ Leads(keys') => CtrlBefore
  /\ keys'.sent = <<>> /\ altGr' = altGr => CtrlBefore
<1>1. DOMAIN <<>> = {}
  OBVIOUS
<1>2. Follows1st(<<>>, "ControlLeft", {"CapsLock"})
  BY <1>1 DEF Follows1st
<1> QED
  BY <1>2 DEF Leads, Led, CtrlBefore

(* A keydown presses it first, unless it was part of an AltGr. *)
LEMMA DownCtrlFirst ==
  ASSUME KInv, altGr, NEW code \in Codes, NEW keysym \in Syms, NEW quick \in BOOLEAN,
         NEW meta \in BOOLEAN, HandleKeyDown(code, keysym, quick, meta)
  PROVE  CtrlBefore
<1> DEFINE lock == IF code = "CapsLock" THEN Toggled(localLock) ELSE localLock
           k == HeldBackCtrl(code, quick, lock)
           wanted == IF IsAltGr(code, quick) THEN AltGrSym ELSE keysym
           sym == KeysymOf(k, wanted, code)
           tapped == TappedAtOnce(code, sym, meta)
           tapSym == IF Mac /\ code = "CapsLock" /\ ~meta THEN CapsSym ELSE sym
<1>1. /\ Live
      /\ IF code = "Unidentified"
         THEN /\ altGr' = FALSE
              /\ keys' = IF keysym = NoSymbol THEN k ELSE Tap(k, keysym, code, lock)
         ELSE /\ altGr' = (StartsAltGr(k, code) /\ ~tapped)
              /\ keys' = CASE tapped -> Tap(k, tapSym, code, lock)
                           [] ~tapped /\ StartsAltGr(k, code) -> k
                           [] OTHER -> Press(k, sym, code, lock)
  BY DEF HandleKeyDown, KInv
<1>2. lock \in Caps
  BY DEF KInv, KeyboardTypeOK, Locks, Toggled, Caps
<1>3. k \in K /\ Bare(k)
  BY <1>1, <1>2, HeldBackDoes
<1>4. wanted \in Syms /\ CapsSym \in Syms
  BY KeyboardAssumption DEF KeyboardAssumption, Syms
<1>5. k = IF IsAltGr(code, quick) THEN Quiet ELSE Press(Quiet, CtrlSym, "ControlLeft", lock)
  BY DEF HeldBackCtrl
<1>6. IsAltGr(code, quick) => wanted = AltGrSym /\ code = "AltRight"
  BY DEF IsAltGr
<1> HIDE DEF lock, k, wanted
<1>7. sym \in Syms
  BY <1>3, <1>4, KeysymDoes
<1>8. CASE IsAltGr(code, quick)
  <2>1. Windows /\ ~Mac /\ code = "AltRight" /\ wanted = AltGrSym
    BY <1>6, <1>8 DEF KInv, Windows, Mac
  <2>2. sym \notin JpBadKeys
    <3>1. AltGrSym \notin JpBadKeys
      BY DEF AltGrSym, JpBadKeys
    <3>2. sym \in {k.down[code], AltGrSym} /\ (sym = k.down[code] \/ sym = AltGrSym)
      BY <2>1 DEF KeysymOf, MacKeysym
    <3> QED
      BY <1>3, <2>1, <3>1, <3>2 DEF Bare
  <2>3. ~tapped /\ ~StartsAltGr(k, code)
    BY <2>1, <2>2 DEF TappedAtOnce, StartsAltGr
  <2> HIDE DEF sym, tapped, tapSym
  <2>4. keys' = Press(k, sym, code, lock) /\ altGr' = FALSE
    BY <1>1, <2>1, <2>3
  <2>5. /\ keys'.down = [k.down EXCEPT ![code] = sym]
        /\ Adds(keys'.sent, k.sent, code)
    BY <1>2, <1>3, <1>7, <2>4, KeyPressDoes
  <2>6. keys'.down["AltRight"] # Up
    <3>1. keys'.down["AltRight"] = sym
      BY <1>3, <2>1, <2>5 DEF K
    <3> QED
      BY <1>7, <3>1, KeyboardAssumption DEF KeyboardAssumption, Syms, NoSymbol, Up
  <2>7. k.sent = <<>>
    BY <1>5, <1>8, QuietIs DEF KInv, KeyboardTypeOK, K, Syms
  <2>8. keys'.sent \in {<<>>, <<"CapsLock">>, <<"AltRight">>, <<"CapsLock", "AltRight">>}
    BY <2>1, <2>5, <2>7 DEF Adds
  <2>9. \A i \in DOMAIN keys'.sent : keys'.sent[i] \in {"CapsLock", "AltRight"}
    BY <2>8
  <2> QED
    BY <2>4, <2>6, <2>9 DEF CtrlBefore
<1>9. CASE ~IsAltGr(code, quick)
  <2>1. Leads(k)
    BY <1>2, <1>5, <1>9, CtrlPressed DEF Leads
  <2> HIDE DEF sym, tapped
  <2>2. tapSym \in Syms
    BY <1>4, <1>7
  <2> HIDE DEF tapSym
  <2>3. \/ keys' = k \/ keys' = Tap(k, keysym, code, lock)
        \/ keys' = Tap(k, tapSym, code, lock) \/ keys' = Press(k, sym, code, lock)
    BY <1>1
  <2>4. Leads(keys')
    BY <1>2, <1>7, <2>1, <2>2, <2>3, LeadsKept
  <2> QED
    BY <2>4, LeadsBefore
<1> QED
  BY <1>8, <1>9

(* A keyup presses it first. *)
LEMMA UpCtrlFirst ==
  ASSUME KInv, altGr, NEW code \in Codes, HandleKeyUp(code)
  PROVE  CtrlBefore
<1> DEFINE k == Press(Quiet, CtrlSym, "ControlLeft", Unknown)
           up == Release(k, code)
           right == Release(up, "ShiftRight")
<1>1. \/ keys' = Tap(k, CapsSym, code, Unknown)
      \/ keys' = Release(right, "ShiftLeft")
      \/ keys' = up
  BY DEF HandleKeyUp
<1>2. /\ CapsSym \in Syms /\ Unknown \in Caps
      /\ {"ShiftLeft", "ShiftRight"} \subseteq Codes
  BY KeyboardAssumption DEF KeyboardAssumption, Syms, Caps
<1>3. Leads(k)
  BY <1>2, CtrlPressed DEF Leads
<1> HIDE DEF k
<1>4. Leads(up) /\ Leads(Tap(k, CapsSym, code, Unknown))
  BY <1>2, <1>3, LeadsKept
<1> HIDE DEF up
<1>5. Leads(right)
  BY <1>2, <1>4, LeadsKept
<1> HIDE DEF right
<1>6. Leads(Release(right, "ShiftLeft"))
  BY <1>2, <1>5, LeadsKept
<1>7. Leads(keys')
  BY <1>1, <1>4, <1>6
<1> QED
  BY <1>7, LeadsBefore

(* No other step presses a key, but for the timer, which presses this one. *)
LEMMA CtrlStep == KInv /\ KeyboardNext => CtrlBefore
<1> SUFFICES ASSUME KInv, altGr, KeyboardNext PROVE CtrlBefore
  BY DEF CtrlBefore
<1>1. Quiet \in K /\ Quiet.sent = <<>>
  BY QuietIs DEF KInv, KeyboardTypeOK, K, Syms
<1>2. ASSUME keys'.sent = Quiet.sent, altGr' = altGr PROVE CtrlBefore
  BY <1>1, <1>2, LeadsBefore
<1>3. CASE Grab \/ KeyboardConnect \/ EnableQemu
           \/ (\E to \in {"canvas", "page"} : MoveFocus(to))
  BY <1>2, <1>3 DEF Grab, KeyboardConnect, EnableQemu, MoveFocus
<1>4. CASE KeyboardDrop
  <2>1. keys' = [Quiet EXCEPT !.down = [c \in Codes |-> Up]] /\ altGr' = altGr
    BY <1>4 DEF KeyboardDrop, Ungrab
  <2> QED
    BY <1>1, <1>2, <2>1 DEF K
<1>5. ASSUME NEW key \in Keymap[platform], NEW quick \in BOOLEAN, NEW meta \in BOOLEAN,
             HandleKeyDown(key[1], key[2], quick, meta)
      PROVE  CtrlBefore
  <2>1. key[1] \in Codes /\ key[2] \in Syms
    BY KeyboardAssumption DEF KeyboardAssumption, KInv, KeyboardTypeOK, Syms
  <2> QED
    BY <1>5, <2>1, DownCtrlFirst
<1>6. ASSUME NEW code \in Codes, HandleKeyUp(code) PROVE CtrlBefore
  BY <1>6, UpCtrlFirst
<1>7. CASE HandleAltGrTimeout
  <2>1. keys' = Press(Quiet, CtrlSym, "ControlLeft", Unknown)
    BY <1>7 DEF HandleAltGrTimeout
  <2>2. Leads(keys')
    BY <2>1, CtrlPressed DEF Leads, Caps
  <2> QED
    BY <2>2, LeadsBefore
<1>8. CASE Blur
  <2>1. keys' = (IF grabbed THEN AllKeysUp(Quiet) ELSE Quiet) /\ altGr' = altGr
    BY <1>8 DEF Blur
  <2>2. AllKeysUp(Quiet).sent = Quiet.sent
    BY <1>1 DEF AllKeysUp, K
  <2> QED
    BY <1>2, <2>1, <2>2
<1>9. CASE HandleLedEvent
  <2>1. keys' = [Quiet EXCEPT !.remoteLock = Head(led)] /\ altGr' = altGr
    BY <1>9 DEF HandleLedEvent
  <2> QED
    BY <1>1, <1>2, <2>1 DEF K
<1>10. CASE RemoteToggle
  <2>1. keys' = [Quiet EXCEPT !.lock = Toggled(@)] /\ altGr' = altGr
    BY <1>10 DEF RemoteToggle
  <2> QED
    BY <1>1, <1>2, <2>1 DEF K
<1> QED
  BY <1>3, <1>4, <1>5, <1>6, <1>7, <1>8, <1>9, <1>10 DEF KeyboardNext

(***************************************************************************)
(* keyboard.js _handleKeyDown, _handleKeyUp and _handleAltGrTimeout, for   *)
(* every keymap: the press of a ControlLeft that Windows may mean as a     *)
(* part of AltGr is the first message of the step that lets go of it, but  *)
(* for the CapsLock that puts the lock right, so every key pressed after   *)
(* it reaches the server after it.  It is dropped only for the AltRight it *)
(* belongs to, and then that key is pressed alone.                         *)
(***************************************************************************)
THEOREM ControlComesFirst == KeyboardSpec => CtrlFirst
<1>1. KInv /\ [KeyboardNext]_keyboardVars =>
        [altGr =>
           \/ /\ Follows1st(keys'.sent, "ControlLeft", {"CapsLock"})
              /\ Sending /\ ~altGr' => \E i \in DOMAIN keys'.sent : keys'.sent[i] = "ControlLeft"
           \/ /\ \A i \in DOMAIN keys'.sent : keys'.sent[i] \in {"CapsLock", "AltRight"}
              /\ ~altGr' /\ keys'.down["AltRight"] # Up]_keyboardVars
  BY CtrlStep, Zenon DEF CtrlBefore
<1> QED
  BY <1>1, KeyboardStarts, KeyboardKeeps, PTL DEF KeyboardSpec, CtrlFirst

-----------------------------------------------------------------------------
(***************************************************************************)
(* CapsLock.  The last report on its way is the state of the server; when  *)
(* there is none, the client knows that state or knows that it does not.   *)
(***************************************************************************)
Reported ==
  IF led = <<>> THEN keys.remoteLock \in {Unknown, keys.lock}
  ELSE led[Len(led)] = keys.lock

LockInv == KInv /\ Reported

\* What no handler does to the state last reported: know another one.
Knows(s, k) == s.remoteLock \in {Unknown, k.remoteLock}

\* After a press the server's lock is the user's, and the client knows no other.
Agrees(s, caps) == s.lock = caps /\ s.remoteLock \in {Unknown, caps}

(* A release changes no lock. *)
LEMMA SendUpLock ==
  \A k \in K, sym \in Syms, code \in Codes :
    /\ SendKey(k, sym, code, FALSE).remoteLock = k.remoteLock
    /\ SendKey(k, sym, code, FALSE).lock = k.lock
<1> SUFFICES ASSUME NEW k \in K, NEW sym \in Syms, NEW code \in Codes
    PROVE  /\ SendKey(k, sym, code, FALSE).remoteLock = k.remoteLock
           /\ SendKey(k, sym, code, FALSE).lock = k.lock
  OBVIOUS
<1> DEFINE held == k.held \ {<<code, sym>>}
           sent == [k EXCEPT !.held = held, !.lock = k.lock, !.sent = k.sent]
<1>1. SendKey(k, sym, code, FALSE) = IF Sending /\ Sendable(code, sym) THEN sent ELSE k
  BY DEF SendKey, Sendable
<1> HIDE DEF held
<1>2. sent.remoteLock = k.remoteLock /\ sent.lock = k.lock
  BY DEF K
<1> QED
  BY <1>1, <1>2

(* A press changes it if it is of CapsLock, and sent. *)
LEMMA SendDownLock ==
  \A k \in K, sym \in Syms, code \in Codes :
    /\ SendKey(k, sym, code, TRUE).remoteLock = k.remoteLock
    /\ code # "CapsLock" => SendKey(k, sym, code, TRUE).lock = k.lock
    /\ code = "CapsLock" /\ Sending /\ Sendable(code, sym)
         => SendKey(k, sym, code, TRUE).lock = Toggled(k.lock)
<1> SUFFICES ASSUME NEW k \in K, NEW sym \in Syms, NEW code \in Codes
    PROVE  /\ SendKey(k, sym, code, TRUE).remoteLock = k.remoteLock
           /\ code # "CapsLock" => SendKey(k, sym, code, TRUE).lock = k.lock
           /\ code = "CapsLock" /\ Sending /\ Sendable(code, sym)
                => SendKey(k, sym, code, TRUE).lock = Toggled(k.lock)
  OBVIOUS
<1> DEFINE held == k.held \union {<<code, sym>>}
           lock == IF code = "CapsLock" THEN Toggled(k.lock) ELSE k.lock
           sent == [k EXCEPT !.held = held, !.lock = lock, !.sent = Append(@, code)]
<1>1. SendKey(k, sym, code, TRUE) = IF Sending /\ Sendable(code, sym) THEN sent ELSE k
  BY DEF SendKey, Sendable
<1> HIDE DEF held
<1>2. sent.remoteLock = k.remoteLock /\ sent.lock = lock
  BY DEF K
<1> QED
  BY <1>1, <1>2

(* _handleKeyEvent: a press other than of CapsLock finds the server right, *)
(* or puts it right; without a state to compare with it leaves it alone.   *)
LEMMA PressLock ==
  \A k \in K, sym \in Syms, code \in Codes \ {"CapsLock"}, caps \in Caps :
    LET s == Press(k, sym, code, caps) IN
    /\ Knows(s, k)
    /\ caps = Unknown => s.lock = k.lock
    /\ /\ Sending /\ caps # Unknown
       /\ k.remoteLock \in {Unknown, k.lock} /\ (k.remoteLock = Unknown => k.lock = caps)
       => Agrees(s, caps)
<1> SUFFICES ASSUME NEW k \in K, NEW sym \in Syms, NEW code \in Codes \ {"CapsLock"},
                    NEW caps \in Caps
    PROVE  LET s == Press(k, sym, code, caps) IN
           /\ Knows(s, k)
           /\ caps = Unknown => s.lock = k.lock
           /\ /\ Sending /\ caps # Unknown
              /\ k.remoteLock \in {Unknown, k.lock} /\ (k.remoteLock = Unknown => k.lock = caps)
              => Agrees(s, caps)
  OBVIOUS
<1> DEFINE listed == [k EXCEPT !.down[code] = sym]
           wrong == /\ listed.remoteLock # Unknown /\ caps # Unknown
                    /\ listed.remoteLock # caps
           fixed == IF wrong THEN FixLock(listed) ELSE listed
           known == IF wrong THEN Unknown ELSE listed.remoteLock
           ready == [fixed EXCEPT !.remoteLock = known]
           on == SendKey(listed, CapsSym, "CapsLock", TRUE)
           s == Press(k, sym, code, caps)
<1>1. s = SendKey(ready, sym, code, TRUE)
  BY DEF Press, HandleKeyEvent
<1>2. /\ listed \in K /\ listed.remoteLock = k.remoteLock /\ listed.lock = k.lock
      /\ k.lock \in Locks /\ k.remoteLock \in Locks \union {Unknown}
  BY DEF K, Syms
<1>3. CapsSym \in Syms /\ "CapsLock" \in Codes /\ Sendable("CapsLock", CapsSym)
  BY KeyboardAssumption DEF KeyboardAssumption, Syms, Sendable
<1>4. FixLock(listed) = SendKey(on, CapsSym, "CapsLock", FALSE)
  BY DEF FixLock
<1> HIDE DEF listed, s
<1>5. on \in K /\ (Sending => on.lock = Toggled(k.lock))
  <2>1. on \in K
    BY <1>2, <1>3, SendKeyDown
  <2>2. Sending => on.lock = Toggled(listed.lock)
    BY <1>2, <1>3, SendDownLock
  <2> QED
    BY <1>2, <2>1, <2>2
<1> HIDE DEF on
<1>6. FixLock(listed) \in K /\ FixLock(listed).lock = on.lock
  <2>1. SendKey(on, CapsSym, "CapsLock", FALSE) \in K
    BY <1>3, <1>5, SendKeyUp
  <2>2. SendKey(on, CapsSym, "CapsLock", FALSE).lock = on.lock
    BY <1>3, <1>5, SendUpLock
  <2> QED
    BY <1>4, <2>1, <2>2
<1>7. /\ fixed \in K /\ known \in Locks \union {Unknown}
      /\ ~wrong => fixed.lock = k.lock
      /\ wrong /\ Sending => fixed.lock = Toggled(k.lock)
  BY <1>2, <1>5, <1>6
<1>8. known = (IF wrong THEN Unknown ELSE k.remoteLock)
      /\ wrong = (k.remoteLock # Unknown /\ caps # Unknown /\ k.remoteLock # caps)
  BY <1>2
<1> HIDE DEF fixed, known, wrong
<1>9. ready \in K /\ ready.remoteLock = known /\ ready.lock = fixed.lock
  BY <1>7 DEF K
<1> HIDE DEF ready
<1>10. s.remoteLock = known /\ s.lock = fixed.lock
  BY <1>1, <1>9, SendDownLock
<1>11. Knows(s, k) /\ (caps = Unknown => s.lock = k.lock)
  BY <1>7, <1>8, <1>10 DEF Knows
<1>12. ASSUME Sending, caps # Unknown, k.remoteLock \in {Unknown, k.lock},
              k.remoteLock = Unknown => k.lock = caps
       PROVE  Agrees(s, caps)
  <2>1. caps \in Locks
    BY <1>12 DEF Caps
  <2>2. CASE wrong
    BY <1>2, <1>7, <1>8, <1>10, <1>12, <2>1, <2>2 DEF Agrees, Locks, Toggled
  <2>3. CASE ~wrong
    BY <1>7, <1>8, <1>10, <1>12, <2>1, <2>3 DEF Agrees
  <2> QED
    BY <2>2, <2>3
<1> QED
  BY <1>11, <1>12 DEF s

(* The press of CapsLock makes the client forget what it knew. *)
LEMMA PressKnows ==
  \A k \in K, sym \in Syms, code \in Codes, caps \in Caps :
    Knows(Press(k, sym, code, caps), k)
<1> SUFFICES ASSUME NEW k \in K, NEW sym \in Syms, NEW code \in Codes, NEW caps \in Caps
    PROVE  Knows(Press(k, sym, code, caps), k)
  OBVIOUS
<1>1. CASE code # "CapsLock"
  BY <1>1, PressLock
<1>2. CASE code = "CapsLock"
  <2> DEFINE listed == [k EXCEPT !.down[code] = sym]
             ready == [listed EXCEPT !.remoteLock = Unknown]
  <2>1. Press(k, sym, code, caps) = SendKey(ready, sym, code, TRUE)
    BY <1>2 DEF Press, HandleKeyEvent
  <2>2. listed \in K
    BY DEF K, Syms
  <2> HIDE DEF listed
  <2>3. ready \in K /\ ready.remoteLock = Unknown
    BY <2>2 DEF K
  <2> HIDE DEF ready
  <2>4. SendKey(ready, sym, code, TRUE).remoteLock = Unknown
    BY <2>3, SendDownLock
  <2> QED
    BY <2>1, <2>4 DEF Knows
<1> QED
  BY <1>1, <1>2

(* A release changes neither. *)
LEMMA ReleaseLock ==
  \A k \in K, code \in Codes :
    Release(k, code).remoteLock = k.remoteLock /\ Release(k, code).lock = k.lock
<1> SUFFICES ASSUME NEW k \in K, NEW code \in Codes
    PROVE  Release(k, code).remoteLock = k.remoteLock /\ Release(k, code).lock = k.lock
  OBVIOUS
<1>1. CASE k.down[code] = Up
  BY <1>1 DEF Release
<1>2. CASE k.down[code] # Up
  <2> DEFINE sym == k.down[code]
             dropped == [k EXCEPT !.down[code] = Up]
             ready == [dropped EXCEPT !.remoteLock = dropped.remoteLock]
  <2>1. sym \in Syms
    BY <1>2 DEF K, Syms
  <2>2. Release(k, code) = SendKey(ready, sym, code, FALSE)
    BY <1>2 DEF Release, HandleKeyEvent
  <2>3. dropped \in K /\ dropped.remoteLock = k.remoteLock /\ dropped.lock = k.lock
    BY DEF K
  <2> HIDE DEF dropped, sym
  <2>4. ready \in K /\ ready.remoteLock = k.remoteLock /\ ready.lock = k.lock
    BY <2>3 DEF K
  <2> HIDE DEF ready
  <2> QED
    BY <2>1, <2>2, <2>4, SendUpLock
<1> QED
  BY <1>1, <1>2

(* A tap knows no more than the press in it. *)
LEMMA TapKnows ==
  \A k \in K, sym \in Syms, code \in Codes, caps \in Caps :
    Knows(Tap(k, sym, code, caps), k)
<1> SUFFICES ASSUME NEW k \in K, NEW sym \in Syms, NEW code \in Codes, NEW caps \in Caps
    PROVE  Knows(Tap(k, sym, code, caps), k)
  OBVIOUS
<1> DEFINE s == Press(k, sym, code, caps)
<1>1. s \in K /\ Knows(s, k)
  BY KeyPressDoes, PressKnows
<1>2. Tap(k, sym, code, caps) = Release(s, code)
  BY DEF Tap
<1> HIDE DEF s
<1> QED
  BY <1>1, <1>2, ReleaseLock DEF Knows

(* A keydown: what the client knows, and, of a key that then is down, that *)
(* the server's lock is the user's.                                        *)
LEMMA DownLock ==
  ASSUME LockInv, NEW code \in Codes, NEW keysym \in Syms, NEW quick \in BOOLEAN,
         NEW meta \in BOOLEAN, HandleKeyDown(code, keysym, quick, meta)
  PROVE  /\ Knows(keys', keys)
         /\ \A c \in Codes \ {"CapsLock", "ControlLeft", "Unidentified"} :
              /\ Sending /\ keys.remoteLock # Unknown
              /\ led = <<>> \/ keys.remoteLock = keys.lock
              /\ keys.down[c] = Up /\ keys'.down[c] # Up
              => keys'.lock = localLock'
<1> DEFINE lock == IF code = "CapsLock" THEN Toggled(localLock) ELSE localLock
           k == HeldBackCtrl(code, quick, lock)
           wanted == IF IsAltGr(code, quick) THEN AltGrSym ELSE keysym
           sym == KeysymOf(k, wanted, code)
           tapSym == IF Mac /\ code = "CapsLock" /\ ~meta THEN CapsSym ELSE sym
<1>1. /\ Live /\ KInv /\ localLock' = lock
      /\ \/ keys' = k
         \/ code = "Unidentified" /\ keys' = Tap(k, keysym, code, lock)
         \/ keys' = Tap(k, tapSym, code, lock)
         \/ keys' = Press(k, sym, code, lock)
  BY DEF HandleKeyDown, LockInv, KInv
<1>2. lock \in Locks /\ lock \in Caps /\ lock # Unknown
  <2>1. lock \in Locks
    BY DEF LockInv, KInv, KeyboardTypeOK, Locks, Toggled
  <2> QED
    BY <2>1 DEF Caps, Locks, Unknown
<1>3. k \in K /\ keys \in K
  BY <1>1, <1>2, HeldBackDoes DEF KInv, Sound
<1>4. wanted \in Syms /\ CapsSym \in Syms /\ CtrlSym \in Syms
      /\ "ControlLeft" \in Codes \ {"CapsLock"}
  BY KeyboardAssumption DEF KeyboardAssumption, Syms
<1>5. k = Quiet \/ k = Press(Quiet, CtrlSym, "ControlLeft", lock)
  BY DEF HeldBackCtrl
<1>12. /\ Quiet \in K /\ Quiet.down = keys.down
       /\ Quiet.remoteLock = keys.remoteLock /\ Quiet.lock = keys.lock
  BY <1>3, QuietIs
<1> HIDE DEF lock, k, wanted
<1>6. sym \in Syms
  BY <1>3, <1>4, KeysymDoes
<1> HIDE DEF sym
<1>7. tapSym \in Syms
  BY <1>4, <1>6
<1> HIDE DEF tapSym
<1>8. Knows(k, keys)
  BY <1>2, <1>4, <1>5, <1>12, PressKnows DEF Knows
<1>9. Knows(keys', k)
  <2>1. CASE keys' = k
    BY <2>1 DEF Knows
  <2>2. CASE keys' # k
    BY <1>1, <1>2, <1>3, <1>6, <1>7, <2>2, PressKnows, TapKnows
  <2> QED
    BY <2>1, <2>2
<1>10. Knows(keys', keys)
  BY <1>8, <1>9 DEF Knows
<1>11. ASSUME NEW c \in Codes \ {"CapsLock", "ControlLeft", "Unidentified"},
              Sending, keys.remoteLock # Unknown, led = <<>> \/ keys.remoteLock = keys.lock,
              keys.down[c] = Up, keys'.down[c] # Up
       PROVE  keys'.lock = localLock'
  <2>1. keys.remoteLock = keys.lock
    BY <1>11 DEF LockInv, Reported
  <2>2. k.down[c] = Up
    <3>1. CASE k = Quiet
      BY <1>11, <1>12, <3>1
    <3>2. CASE k = Press(Quiet, CtrlSym, "ControlLeft", lock)
      <4>1. k.down = [keys.down EXCEPT !["ControlLeft"] = CtrlSym]
        BY <1>2, <1>4, <1>12, <3>2, KeyPressDoes
      <4> QED
        BY <1>3, <1>11, <4>1 DEF K
    <3> QED
      BY <1>5, <3>1, <3>2
  <2>3. ASSUME NEW s \in Syms, keys' = Tap(k, s, code, lock) PROVE FALSE
    <3>1. keys'.down = [k.down EXCEPT ![code] = Up]
      BY <1>2, <1>3, <2>3, TapSound
    <3> QED
      BY <1>3, <1>11, <2>2, <3>1 DEF K
  <2>4. keys' = Press(k, sym, code, lock)
    BY <1>1, <1>7, <1>11, <2>2, <2>3
  <2>5. c = code
    <3>1. keys'.down = [k.down EXCEPT ![code] = sym]
      BY <1>2, <1>3, <1>6, <2>4, KeyPressDoes
    <3> QED
      BY <1>3, <1>11, <2>2, <3>1 DEF K
  <2>6. k.remoteLock \in {Unknown, k.lock} /\ (k.remoteLock = Unknown => k.lock = lock)
    <3>1. CASE k = Quiet
      BY <1>11, <1>12, <2>1, <3>1
    <3>2. CASE k = Press(Quiet, CtrlSym, "ControlLeft", lock)
      <4>1. Agrees(k, lock)
        BY <1>2, <1>4, <1>11, <1>12, <2>1, <3>2, PressLock
      <4> QED
        BY <4>1 DEF Agrees
    <3> QED
      BY <1>5, <3>1, <3>2
  <2>7. Agrees(keys', lock)
    BY <1>2, <1>3, <1>6, <1>11, <2>4, <2>5, <2>6, PressLock
  <2> QED
    BY <1>1, <2>7 DEF Agrees
<1> QED
  BY <1>10, <1>11

(* A keyup: what the client knows; it leaves no key down but ControlLeft. *)
LEMMA UpLock ==
  ASSUME KInv, NEW code \in Codes, HandleKeyUp(code)
  PROVE  /\ Knows(keys', keys)
         /\ \A c \in Codes \ {"ControlLeft"} : keys.down[c] = Up => keys'.down[c] = Up
<1> DEFINE k == IF altGr THEN Press(Quiet, CtrlSym, "ControlLeft", Unknown) ELSE Quiet
           up == Release(k, code)
           right == Release(up, "ShiftRight")
           tap == Tap(k, CapsSym, code, Unknown)
<1>1. keys' = tap \/ keys' = Release(right, "ShiftLeft") \/ keys' = up
  BY DEF HandleKeyUp
<1>2. /\ CtrlSym \in Syms /\ CapsSym \in Syms /\ Unknown \in Caps
      /\ {"ControlLeft", "ShiftLeft", "ShiftRight"} \subseteq Codes
  BY KeyboardAssumption DEF KeyboardAssumption, Syms, Caps
<1>3. /\ keys \in K /\ Quiet \in K /\ Quiet.down = keys.down
      /\ Quiet.remoteLock = keys.remoteLock
  BY QuietIs DEF HandleKeyUp, KInv, Sound
<1> DEFINE Fine(s) == /\ s \in K /\ Knows(s, keys)
                      /\ \A c \in Codes \ {"ControlLeft"} : keys.down[c] = Up => s.down[c] = Up
<1>4. Fine(k)
  <2>1. CASE altGr
    <3>1. k = Press(Quiet, CtrlSym, "ControlLeft", Unknown)
      BY <2>1
    <3>2. k \in K /\ k.down = [keys.down EXCEPT !["ControlLeft"] = CtrlSym]
      BY <1>2, <1>3, <3>1, KeyPressDoes
    <3>3. Knows(k, keys)
      BY <1>2, <1>3, <3>1, PressKnows DEF Knows
    <3> QED
      BY <1>3, <3>2, <3>3 DEF K
  <2>2. CASE ~altGr
    BY <1>3, <2>2 DEF Knows
  <2> QED
    BY <2>1, <2>2
<1> HIDE DEF k
<1>5. ASSUME NEW s, Fine(s), NEW c \in Codes PROVE Fine(Release(s, c))
  <2>1. /\ Release(s, c) \in K /\ Release(s, c).down = [s.down EXCEPT ![c] = Up]
        /\ Release(s, c).remoteLock = s.remoteLock
    BY <1>5, KeyReleaseDoes, ReleaseLock
  <2> QED
    BY <1>5, <2>1 DEF K, Knows
<1>6. Fine(tap)
  <2>1. /\ tap \in K /\ tap.down = [k.down EXCEPT ![code] = Up] /\ Knows(tap, k)
    BY <1>2, <1>4, TapSound, TapKnows
  <2> HIDE DEF tap
  <2> QED
    BY <1>4, <2>1 DEF K, Knows
<1> HIDE DEF tap, Fine
<1>7. Fine(up)
  BY <1>4, <1>5
<1> HIDE DEF up
<1>8. Fine(right)
  BY <1>2, <1>5, <1>7
<1> HIDE DEF right
<1>9. Fine(Release(right, "ShiftLeft"))
  BY <1>2, <1>5, <1>8
<1>10. Fine(keys')
  BY <1>1, <1>6, <1>7, <1>9
<1> QED
  BY <1>10 DEF Fine

(* The server reports what the handlers of key events did to its lock. *)
LEMMA ReportedKeeps ==
  ASSUME LockInv, keys' \in K, Knows(keys', keys), led' = Report(keys')
  PROVE  Reported'
<1>1. led \in Seq(Locks) /\ keys'.lock \in Locks
  BY DEF LockInv, KInv, KeyboardTypeOK, K
<1>2. CASE keys'.lock = keys.lock
  <2>1. led' = led
    BY <1>2 DEF Report
  <2> QED
    BY <1>2, <2>1 DEF LockInv, Reported, Knows
<1>3. CASE keys'.lock # keys.lock
  <2>1. led' = Append(led, keys'.lock)
    BY <1>3 DEF Report
  <2>2. led' # <<>> /\ led'[Len(led')] = keys'.lock
    BY <1>1, <2>1
  <2> QED
    BY <2>2 DEF Reported
<1> QED
  BY <1>2, <1>3

(* Each step keeps it. *)
LEMMA LockStep == LockInv /\ [KeyboardNext]_keyboardVars => LockInv'
<1> SUFFICES ASSUME LockInv, [KeyboardNext]_keyboardVars PROVE Reported'
  BY KeyboardKeeps DEF LockInv
<1>1. /\ KInv /\ Reported /\ keys \in K /\ led \in Seq(Locks)
  BY DEF LockInv, KInv, KeyboardTypeOK, K, Syms
<1>2. ASSUME keys'.remoteLock = keys.remoteLock, keys'.lock = keys.lock, led' = led
      PROVE  Reported'
  BY <1>1, <1>2 DEF Reported
<1>11. /\ Quiet \in K /\ Quiet.remoteLock = keys.remoteLock /\ Quiet.lock = keys.lock
  BY <1>1, QuietIs
<1>3. CASE Grab \/ KeyboardConnect \/ EnableQemu
           \/ (\E to \in {"canvas", "page"} : MoveFocus(to)) \/ UNCHANGED keyboardVars
  BY <1>2, <1>3, <1>11 DEF Grab, KeyboardConnect, EnableQemu, MoveFocus, keyboardVars
<1>4. CASE KeyboardDrop
  <2>1. keys' = [Quiet EXCEPT !.down = [c \in Codes |-> Up]] /\ led' = led
    BY <1>4 DEF KeyboardDrop, Ungrab
  <2>2. keys'.remoteLock = keys.remoteLock /\ keys'.lock = keys.lock
    BY <1>11, <2>1 DEF K
  <2> QED
    BY <1>2, <2>1, <2>2
<1>5. ASSUME NEW key \in Keymap[platform], NEW quick \in BOOLEAN, NEW meta \in BOOLEAN,
             HandleKeyDown(key[1], key[2], quick, meta)
      PROVE  Reported'
  <2>1. key[1] \in Codes /\ key[2] \in Syms
    BY <1>1, KeyboardAssumption DEF KeyboardAssumption, KInv, KeyboardTypeOK, Syms
  <2>2. Handled /\ Knows(keys', keys)
    BY <1>1, <1>5, <2>1, HandleKeyDownDoes, DownLock
  <2>3. led' = Report(keys')
    BY <1>5 DEF HandleKeyDown
  <2> QED
    BY <2>2, <2>3, ReportedKeeps DEF Handled
<1>6. ASSUME NEW code \in Codes, HandleKeyUp(code) PROVE Reported'
  <2>1. Handled /\ Knows(keys', keys)
    BY <1>1, <1>6, HandleKeyUpDoes, UpLock
  <2>2. led' = Report(keys')
    BY <1>6 DEF HandleKeyUp
  <2> QED
    BY <2>1, <2>2, ReportedKeeps DEF Handled
<1>7. CASE HandleAltGrTimeout
  <2>1. keys' = Press(Quiet, CtrlSym, "ControlLeft", Unknown) /\ led' = led
    BY <1>7 DEF HandleAltGrTimeout
  <2>2. CtrlSym \in Syms /\ Unknown \in Caps /\ "ControlLeft" \in Codes \ {"CapsLock"}
    BY KeyboardAssumption DEF KeyboardAssumption, Syms, Caps
  <2>3. Knows(keys', keys) /\ keys'.lock = keys.lock
    BY <1>11, <2>1, <2>2, PressLock DEF Knows
  <2> QED
    BY <1>1, <2>1, <2>3 DEF Reported, Knows
<1>8. CASE Blur
  <2>1. keys' = (IF grabbed THEN AllKeysUp(Quiet) ELSE Quiet) /\ led' = led
    BY <1>8 DEF Blur
  <2>2. AllKeysUp(Quiet).remoteLock = Quiet.remoteLock /\ AllKeysUp(Quiet).lock = Quiet.lock
    BY <1>11 DEF AllKeysUp, K
  <2> QED
    BY <1>2, <1>11, <2>1, <2>2
<1>9. CASE HandleLedEvent
  <2>1. keys' = [Quiet EXCEPT !.remoteLock = Head(led)] /\ led' = Tail(led) /\ led # <<>>
    BY <1>9 DEF HandleLedEvent
  <2>2. keys'.lock = keys.lock /\ keys'.remoteLock = led[1]
    BY <1>1, <1>11, <2>1 DEF K
  <2>3. led[Len(led)] = keys.lock
    BY <1>1, <2>1 DEF Reported
  <2>4. CASE Len(led) = 1
    <3>1. led' = <<>>
      BY <1>1, <2>1, <2>4
    <3> QED
      BY <2>2, <2>3, <2>4, <3>1 DEF Reported
  <2>5. CASE Len(led) # 1
    <3>1. /\ Len(led) \in Nat /\ Len(led) > 1 /\ Len(Tail(led)) = Len(led) - 1
          /\ \A i \in 1 .. Len(led) - 1 : Tail(led)[i] = led[i + 1]
      <4>1. Len(led) \in Nat /\ Len(led) # 0
        BY <1>1, <2>1
      <4>2. Len(Tail(led)) = Len(led) - 1
        BY <1>1, <2>1, <4>1
      <4>3. ASSUME NEW i \in 1 .. Len(led) - 1 PROVE Tail(led)[i] = led[i + 1]
        BY <1>1, <2>1, <4>1
      <4> QED
        BY <2>5, <4>1, <4>2, <4>3
    <3>3. led'[Len(led')] = led[Len(led)]
      BY <2>1, <3>1
    <3>2. led' # <<>>
      BY <2>1, <3>1
    <3> QED
      BY <2>2, <2>3, <3>2, <3>3 DEF Reported
  <2> QED
    BY <2>4, <2>5
<1>10. CASE RemoteToggle
  <2>1. keys' = [Quiet EXCEPT !.lock = Toggled(@)] /\ led' = Append(led, Toggled(keys.lock))
    BY <1>10 DEF RemoteToggle
  <2>2. keys'.lock = Toggled(keys.lock) /\ Toggled(keys.lock) \in Locks
    BY <1>11, <2>1 DEF K, Toggled, Locks
  <2>3. led' # <<>> /\ led'[Len(led')] = Toggled(keys.lock)
    BY <1>1, <2>1, <2>2
  <2> QED
    BY <2>2, <2>3 DEF Reported
<1> QED
  BY <1>3, <1>4, <1>5, <1>6, <1>7, <1>8, <1>9, <1>10 DEF KeyboardNext

\* What LockFollows asks of a step.
LockAsUser ==
  \A c \in Codes \ {"CapsLock", "ControlLeft", "Unidentified"} :
    /\ Sending
    /\ keys.remoteLock # Unknown
    /\ led = <<>> \/ keys.remoteLock = keys.lock
    /\ keys.down[c] = Up /\ keys'.down[c] # Up
    => keys'.lock = localLock'

(* Only a keydown puts such a key down. *)
LEMMA LockHolds == LockInv /\ [KeyboardNext]_keyboardVars => LockAsUser
<1> SUFFICES ASSUME LockInv, [KeyboardNext]_keyboardVars PROVE LockAsUser
  OBVIOUS
<1>1. KInv /\ keys \in K
  BY DEF LockInv, KInv, KeyboardTypeOK, K, Syms
<1>2. ASSUME \A c \in Codes \ {"ControlLeft"} : keys.down[c] = Up => keys'.down[c] = Up
      PROVE  LockAsUser
  BY <1>2 DEF LockAsUser
<1>10. Quiet \in K /\ Quiet.down = keys.down
  BY <1>1, QuietIs
<1>3. CASE Grab \/ KeyboardConnect \/ EnableQemu
           \/ (\E to \in {"canvas", "page"} : MoveFocus(to)) \/ UNCHANGED keyboardVars
  BY <1>2, <1>3, <1>10 DEF Grab, KeyboardConnect, EnableQemu, MoveFocus, keyboardVars
<1>4. CASE KeyboardDrop
  <2>1. keys' = [Quiet EXCEPT !.down = [c \in Codes |-> Up]]
    BY <1>4 DEF KeyboardDrop, Ungrab
  <2> QED
    BY <1>2, <1>10, <2>1 DEF K
<1>5. ASSUME NEW key \in Keymap[platform], NEW quick \in BOOLEAN, NEW meta \in BOOLEAN,
             HandleKeyDown(key[1], key[2], quick, meta)
      PROVE  LockAsUser
  <2>1. key[1] \in Codes /\ key[2] \in Syms
    BY <1>1, KeyboardAssumption DEF KeyboardAssumption, KInv, KeyboardTypeOK, Syms
  <2> QED
    BY <1>5, <2>1, DownLock DEF LockAsUser
<1>6. ASSUME NEW code \in Codes, HandleKeyUp(code) PROVE LockAsUser
  BY <1>1, <1>2, <1>6, UpLock
<1>7. CASE HandleAltGrTimeout
  <2>1. keys' = Press(Quiet, CtrlSym, "ControlLeft", Unknown)
    BY <1>7 DEF HandleAltGrTimeout
  <2>2. CtrlSym \in Syms /\ Unknown \in Caps /\ "ControlLeft" \in Codes
    BY KeyboardAssumption DEF KeyboardAssumption, Syms, Caps
  <2>3. keys'.down = [keys.down EXCEPT !["ControlLeft"] = CtrlSym]
    BY <1>10, <2>1, <2>2, KeyPressDoes
  <2> QED
    BY <1>1, <1>2, <2>3 DEF K
<1>8. CASE Blur
  <2>1. keys'.down = keys.down \/ keys'.down = [c \in Codes |-> Up]
    <3>1. AllKeysUp(Quiet).down = [c \in Codes |-> Up]
      BY <1>10 DEF AllKeysUp, K
    <3> QED
      BY <1>8, <1>10, <3>1 DEF Blur
  <2> QED
    BY <1>2, <2>1
<1>9. CASE HandleLedEvent \/ RemoteToggle
  <2>1. \/ keys' = [Quiet EXCEPT !.remoteLock = Head(led)]
        \/ keys' = [Quiet EXCEPT !.lock = Toggled(@)]
    BY <1>9 DEF HandleLedEvent, RemoteToggle
  <2> QED
    BY <1>2, <1>10, <2>1 DEF K
<1> QED
  BY <1>3, <1>4, <1>5, <1>6, <1>7, <1>8, <1>9 DEF KeyboardNext

(* At the start nothing is reported. *)
LEMMA LockStarts == KeyboardInit => LockInv
BY KeyboardStarts DEF KeyboardInit, LockInv, Reported

(***************************************************************************)
(* keyboard.js _handleKeyDown and rfb.js _handleKeyEvent, for every        *)
(* keymap: if the state last reported is the server's, or no report is on  *)
(* its way and one was received, a key that goes down finds the server's   *)
(* CapsLock as the user's, however many stale reports are still to come,   *)
(* and also when a ControlLeft that was held back is pressed, and the lock *)
(* put right, before it.                                                   *)
(***************************************************************************)
THEOREM LockIsFollowed == KeyboardSpec => LockFollows
<1>1. LockInv /\ [KeyboardNext]_keyboardVars =>
        [\A c \in Codes \ {"CapsLock", "ControlLeft", "Unidentified"} :
           /\ Sending
           /\ keys.remoteLock # Unknown
           /\ led = <<>> \/ keys.remoteLock = keys.lock
           /\ keys.down[c] = Up /\ keys'.down[c] # Up
           => keys'.lock = localLock']_keyboardVars
  BY LockHolds, Zenon DEF LockAsUser
<1> QED
  BY <1>1, LockStarts, LockStep, PTL DEF KeyboardSpec, LockFollows
=============================================================================
