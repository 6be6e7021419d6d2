------------------------------ MODULE Keyboard ------------------------------
(***************************************************************************)
(* input/keyboard.js and the key half of rfb.js: browser key events become *)
(* key messages.  `keys` holds what the client remembers (which keys it    *)
(* pressed, the last lock state the server reported) beside what the       *)
(* server believes (the keys held, its lock state), so that properties can *)
(* compare the two, and the presses that the last step sent, in the order  *)
(* of their messages.  A keydown or keyup is one step: the handlers run to *)
(* completion.                                                             *)
(***************************************************************************)
EXTENDS Console, Sequences

CONSTANTS Codes,        \* physical keys, KeyboardEvent.code
          Keysyms,      \* what getKeysym may make of them
          Keymap,       \* per platform, the <<code, keysym>> of its keydowns
          MaxLed        \* bound: lock reports on their way to the client

NoSymbol == "nosymbol"  \* getKeysym found nothing: null
Up       == "up"        \* the code is not in _keyDownList
Unknown  == "unknown"   \* a lock state never reported, or out of date

Locks == {"on", "off"}
Toggled(l) == IF l = "on" THEN "off" ELSE "on"

CtrlSym == "Control_L"
AltGrSym == "ISO_Level3_Shift"
CapsSym == "Caps_Lock"
JpBadKeys == {"Zenkaku_Hankaku", "Eisu_toggle", "Katakana", "Hiragana", "Romaji"}

Platforms == {"windows", "mac", "other"}

ASSUME KeyboardAssumption ==
  /\ {"ControlLeft", "AltRight", "ShiftLeft", "ShiftRight", "CapsLock",
      "MetaLeft", "MetaRight", "Unidentified"} \subseteq Codes
  /\ {CtrlSym, AltGrSym, CapsSym, "Alt_L", "Alt_R", "Super_L", "Super_R",
      "Mode_switch"} \subseteq Keysyms
  /\ {NoSymbol, Up} \cap Keysyms = {}
  /\ Keymap \in [Platforms -> SUBSET (Codes \X (Keysyms \union {NoSymbol}))]
  /\ MaxLed \in Nat

VARIABLES platform,     \* which browser
          qemu,         \* _qemuExtKeyEventSupported
          grabbed,      \* the listeners of grab() are installed
          focus,        \* on the canvas, elsewhere in the page, or away
          altGr,        \* _altGrArmed, with its timer
          keys,         \* _keyDownList, and the server's view
          localLock,    \* CapsLock on the user's keyboard
          led           \* lock reports of the server not yet handled

keyboardVars == <<connState, viewOnly, platform, qemu, grabbed, focus, altGr,
                  keys, localLock, led>>

Mac == platform = "mac"
Windows == platform = "windows"

(***************************************************************************)
(* sendKey, for a press or a release: dropped unless connected; without    *)
(* the QEMU extension a key with no keysym is not sent.                    *)
(***************************************************************************)
SendKey(k, sym, code, down) ==
  IF ~Sending \/ (sym = NoSymbol /\ ~(qemu /\ code # "Unidentified"))
  THEN k
  ELSE [k EXCEPT
          !.held = IF down THEN @ \union {<<code, sym>>} ELSE @ \ {<<code, sym>>},
          !.lock = IF down /\ code = "CapsLock" THEN Toggled(@) ELSE @,
          !.sent = IF down THEN Append(@, code) ELSE @]

\* A handler begins: nothing is sent yet.
Quiet == [keys EXCEPT !.sent = <<>>]

(***************************************************************************)
(* _handleKeyEvent: before a press, a server known to disagree on CapsLock *)
(* is put right by one press of that key.  NumLock is the same code again. *)
(***************************************************************************)
FixLock(k) ==
  LET on == SendKey(k, CapsSym, "CapsLock", TRUE)
  IN  SendKey(on, CapsSym, "CapsLock", FALSE)

\* Mutant of HandleKeyEvent: the fix follows the user's own CapsLock key.
HandleKeyEventAlways(k, sym, code, down, caps) ==
  LET wrong == down /\ k.remoteLock # Unknown /\ caps # Unknown
               /\ k.remoteLock = caps
      fixed == IF wrong THEN FixLock(k) ELSE k
  IN  SendKey([fixed EXCEPT !.remoteLock = IF wrong THEN Unknown ELSE @],
              sym, code, down)

HandleKeyEvent(k, sym, code, down, caps) ==
  LET remote == IF code = "CapsLock" /\ down THEN Unknown ELSE k.remoteLock
      wrong == down /\ remote # Unknown /\ caps # Unknown /\ remote # caps
      fixed == IF wrong THEN FixLock(k) ELSE k
  IN  SendKey([fixed EXCEPT !.remoteLock = IF wrong THEN Unknown ELSE remote],
              sym, code, down)

(***************************************************************************)
(* _sendKeyEvent, a press and a release.  A release carries the keysym of  *)
(* the press, and a key that is not down is not released.                  *)
(***************************************************************************)
Press(k, sym, code, caps) ==
  HandleKeyEvent([k EXCEPT !.down[code] = sym], sym, code, TRUE, caps)

Release(k, code) ==
  IF k.down[code] = Up
  THEN k
  ELSE HandleKeyEvent([k EXCEPT !.down[code] = Up], k.down[code], code, FALSE,
                      Unknown)

Tap(k, sym, code, caps) == Release(Press(k, sym, code, caps), code)

\* Mutant of AllKeysUp: the list is cleared without sending the releases.
AllKeysForgotten(k) == [k EXCEPT !.down = [c \in Codes |-> Up]]

AllKeysUp(k) ==
  [k EXCEPT
     !.down = [c \in Codes |-> Up],
     !.held = IF Sending
              THEN @ \ {<<c, k.down[c]>> : c \in {d \in Codes : k.down[d] # Up}}
              ELSE @]

KeyboardInit ==
  /\ connState = "connecting"
  /\ viewOnly \in BOOLEAN
  /\ platform \in Platforms
  /\ qemu = FALSE
  /\ grabbed = FALSE
  /\ focus = "canvas"
  /\ altGr = FALSE
  /\ keys = [down |-> [c \in Codes |-> Up], held |-> {}, remoteLock |-> Unknown,
             lock |-> "off", sent |-> <<>>]
  /\ localLock = "off"
  /\ led = <<>>

fixedVars == <<viewOnly, platform, qemu>>

(***************************************************************************)
(* The setter of viewOnly, when the page has made the object and sets it   *)
(* to FALSE, and _negotiateServerInit both grab the keyboard.              *)
(***************************************************************************)
Grab ==
  /\ Live /\ ~viewOnly
  /\ grabbed' = TRUE /\ keys' = Quiet
  /\ UNCHANGED <<connState, fixedVars, focus, altGr, localLock, led>>

KeyboardConnect ==
  /\ Connect
  /\ grabbed' = (grabbed \/ ~viewOnly) /\ keys' = Quiet
  /\ UNCHANGED <<fixedVars, focus, altGr, localLock, led>>

\* Mutant of Ungrab: the keys that are down stay in the list.
UngrabQuietly ==
  /\ grabbed' = FALSE /\ keys' = Quiet
  /\ UNCHANGED <<fixedVars, focus, altGr, localLock, led>>

(***************************************************************************)
(* _disconnect ungrabs.  The state has already changed, so the releases of *)
(* ungrab() only empty the list; the pending AltGr timer is left running.  *)
(***************************************************************************)
Ungrab ==
  /\ grabbed' = FALSE
  /\ keys' = [Quiet EXCEPT !.down = [c \in Codes |-> Up]]
  /\ UNCHANGED <<fixedVars, focus, altGr, localLock, led>>

KeyboardDrop == Drop /\ Ungrab

\* The server reports a change of its lock state, whoever caused it.
Report(k) == IF k.lock = keys.lock THEN led ELSE Append(led, k.lock)

(***************************************************************************)
(* What becomes of a keydown once the AltGr question is settled: some keys *)
(* are pressed and released at once, because their release will not come.  *)
(***************************************************************************)
TappedAtOnce(code, sym, meta) ==
  \/ Mac /\ meta /\ code \notin {"MetaLeft", "MetaRight"}
  \/ Mac /\ code = "CapsLock"
  \/ Windows /\ sym \in JpBadKeys

MacKeysym(sym) ==
  CASE ~Mac -> sym
    [] Mac /\ sym = "Super_L" -> "Alt_L"
    [] Mac /\ sym = "Super_R" -> "Super_L"
    [] Mac /\ sym = "Alt_L" -> "Mode_switch"
    [] Mac /\ sym = "Alt_R" -> AltGrSym
    [] OTHER -> sym

\* Mutant of KeysymOf: a repeat takes the keysym of the moment.
KeysymOfTheMoment(k, sym, code) == MacKeysym(sym)

\* A key already down keeps the keysym of its press.
KeysymOf(k, sym, code) ==
  IF k.down[code] # Up THEN k.down[code] ELSE MacKeysym(sym)

(***************************************************************************)
(* Windows reports AltGr as Control and Alt within 50 ms, so a ControlLeft *)
(* is held back until the next key event or 100 ms have passed.  Whether   *)
(* the next key came within the 50 ms is `quick`.                          *)
(***************************************************************************)
IsAltGr(code, quick) == altGr /\ code = "AltRight" /\ quick

\* Mutant of HeldBackCtrl: the ControlLeft held back is forgotten.
LostCtrl(code, quick, caps) == Quiet

HeldBackCtrl(code, quick, caps) ==
  IF altGr /\ ~IsAltGr(code, quick)
  THEN Press(Quiet, CtrlSym, "ControlLeft", caps)
  ELSE Quiet

StartsAltGr(k, code) ==
  Windows /\ code = "ControlLeft" /\ k.down["ControlLeft"] = Up

HandleKeyDown(code, keysym, quick, meta) ==
  LET lock == IF code = "CapsLock" THEN Toggled(localLock) ELSE localLock
      k == HeldBackCtrl(code, quick, lock)
      sym == KeysymOf(k, IF IsAltGr(code, quick) THEN AltGrSym ELSE keysym, code)
      tapped == TappedAtOnce(code, sym, meta)
  IN
  /\ grabbed /\ focus = "canvas"
  /\ Len(led) < MaxLed
  /\ localLock' = lock
  /\ IF code = "Unidentified"
     THEN /\ altGr' = FALSE
          /\ keys' = IF keysym = NoSymbol THEN k ELSE Tap(k, keysym, code, lock)
     ELSE /\ altGr' = (StartsAltGr(k, code) /\ ~tapped)
          /\ keys' = CASE tapped -> Tap(k, IF Mac /\ code = "CapsLock" /\ ~meta
                                           THEN CapsSym ELSE sym, code, lock)
                       [] ~tapped /\ StartsAltGr(k, code) -> k
                       [] OTHER -> Press(k, sym, code, lock)
  /\ led' = Report(keys')
  /\ UNCHANGED <<connState, fixedVars, grabbed, focus>>

(***************************************************************************)
(* _handleKeyUp: a held back ControlLeft is pressed first.  On Windows the *)
(* release of one Shift releases both, as the second one may never come.   *)
(***************************************************************************)
HandleKeyUp(code) ==
  LET k == IF altGr THEN Press(Quiet, CtrlSym, "ControlLeft", Unknown) ELSE Quiet
      up == Release(k, code)
      shift == code \in {"ShiftLeft", "ShiftRight"}
  IN
  /\ grabbed /\ focus = "canvas"
  /\ Len(led) < MaxLed
  /\ altGr' = FALSE
  /\ keys' = CASE Mac /\ code = "CapsLock" -> Tap(k, CapsSym, code, Unknown)
               [] Windows /\ shift -> Release(Release(up, "ShiftRight"), "ShiftLeft")
               [] OTHER -> up
  /\ localLock' = IF Mac /\ code = "CapsLock" THEN Toggled(localLock) ELSE localLock
  /\ led' = Report(keys')
  /\ UNCHANGED <<connState, fixedVars, grabbed, focus>>

\* The timer is not cleared by blur or ungrab, and runs out wherever we are.
HandleAltGrTimeout ==
  /\ altGr
  /\ altGr' = FALSE
  /\ keys' = Press(Quiet, CtrlSym, "ControlLeft", Unknown)
  /\ UNCHANGED <<connState, fixedVars, grabbed, focus, localLock, led>>

(***************************************************************************)
(* The window loses the focus: the releases to come go elsewhere, so every *)
(* key that is down is released now.  Nothing listens to the focus moving  *)
(* from the canvas to another part of the page.                            *)
(***************************************************************************)
Blur ==
  /\ focus # "away"
  /\ focus' = "away"
  /\ keys' = IF grabbed THEN AllKeysUp(Quiet) ELSE Quiet
  /\ UNCHANGED <<connState, fixedVars, grabbed, altGr, localLock, led>>

MoveFocus(to) ==
  /\ focus # to
  /\ focus' = to /\ keys' = Quiet
  /\ UNCHANGED <<connState, fixedVars, grabbed, altGr, localLock, led>>

\* _handleLedEvent: the report the server sent longest ago.
HandleLedEvent ==
  /\ connState = "connected" /\ led # <<>>
  /\ keys' = [Quiet EXCEPT !.remoteLock = Head(led)]
  /\ led' = Tail(led)
  /\ UNCHANGED <<connState, fixedVars, grabbed, focus, altGr, localLock>>

\* Somebody else toggles CapsLock on the server.
RemoteToggle ==
  /\ connState = "connected" /\ Len(led) < MaxLed
  /\ keys' = [Quiet EXCEPT !.lock = Toggled(@)]
  /\ led' = Append(led, Toggled(keys.lock))
  /\ UNCHANGED <<connState, fixedVars, grabbed, focus, altGr, localLock>>

\* The server accepts the QEMU key event extension, at some update.
EnableQemu ==
  /\ connState = "connected" /\ ~qemu
  /\ qemu' = TRUE /\ keys' = Quiet
  /\ UNCHANGED <<connState, viewOnly, platform, grabbed, focus, altGr, localLock, led>>

KeyboardNext ==
  \/ Grab
  \/ KeyboardConnect
  \/ KeyboardDrop
  \/ \E key \in Keymap[platform], quick, meta \in BOOLEAN :
       HandleKeyDown(key[1], key[2], quick, meta)
  \/ \E code \in Codes : HandleKeyUp(code)
  \/ HandleAltGrTimeout
  \/ Blur
  \/ \E to \in {"canvas", "page"} : MoveFocus(to)
  \/ HandleLedEvent
  \/ RemoteToggle
  \/ EnableQemu

KeyboardSpec == KeyboardInit /\ [][KeyboardNext]_keyboardVars

-----------------------------------------------------------------------------
KeyboardTypeOK ==
  /\ connState \in ConnStates
  /\ viewOnly \in BOOLEAN /\ qemu \in BOOLEAN
  /\ platform \in Platforms
  /\ grabbed \in BOOLEAN /\ altGr \in BOOLEAN
  /\ focus \in {"canvas", "page", "away"}
  /\ keys \in [down : [Codes -> Keysyms \union {NoSymbol, Up}],
               held : SUBSET (Codes \X (Keysyms \union {NoSymbol})),
               remoteLock : Locks \union {Unknown},
               lock : Locks,
               sent : Seq(Codes)]
  /\ localLock \in Locks
  /\ led \in Seq(Locks)

(***************************************************************************)
(* No stuck key: whatever the server holds down, the client knows that it  *)
(* does, and under that very keysym, so that a release, a blur or the next *)
(* press of the key can let go of it.  A keysym that changes between press *)
(* and release (Shift let go in between, a repeat, AltGr, a macOS          *)
(* modifier) would leave the first one down for ever.                      *)
(***************************************************************************)
NoStuckKeys ==
  connState = "connected" =>
    \A p \in keys.held : keys.down[p[1]] = p[2]

(***************************************************************************)
(* Away from the window, or out of the session, no key is left in the list *)
(* but for a ControlLeft that the AltGr timer presses late.                *)
(***************************************************************************)
NothingHeldAway ==
  focus = "away" \/ ~Live =>
    \A c \in Codes \ {"ControlLeft"} : keys.down[c] = Up

(***************************************************************************)
(* Both at every moment: no key is left down on the server, nor counted    *)
(* down by the client once the user has gone.                              *)
(***************************************************************************)
KeysLetGo == NoStuckKeys /\ NothingHeldAway

(***************************************************************************)
(* A ControlLeft held back for an AltGr is not overtaken: in the order of  *)
(* the messages, every key that is pressed while it is held back follows   *)
(* the press of ControlLeft, so Ctrl+C reaches the server as Ctrl, then C. *)
(* Two keys may come before it: the CapsLock that puts the lock right, and *)
(* the AltRight it turned out to belong to, which then comes alone.  And   *)
(* it is not lost: unless that AltRight came, its press is sent as soon as *)
(* it is no longer held back.                                              *)
(***************************************************************************)
Follows1st(s, first, but) ==
  \A i \in DOMAIN s : s[i] \in but \/ \E j \in 1 .. i : s[j] = first

CtrlFirst ==
  [][altGr =>
       \/ /\ Follows1st(keys'.sent, "ControlLeft", {"CapsLock"})
          /\ Sending /\ ~altGr' => \E i \in DOMAIN keys'.sent : keys'.sent[i] = "ControlLeft"
       \/ /\ \A i \in DOMAIN keys'.sent : keys'.sent[i] \in {"CapsLock", "AltRight"}
          /\ ~altGr' /\ keys'.down["AltRight"] # Up]_keyboardVars

(***************************************************************************)
(* A press (not of CapsLock) leaves the server's CapsLock as the user's if *)
(* the lock state last reported is the server's, though older reports and  *)
(* those of earlier fixes may still be on their way; and it is, when no    *)
(* report is.                                                              *)
(***************************************************************************)
LockFollows ==
  [][\A c \in Codes \ {"CapsLock", "ControlLeft", "Unidentified"} :
       /\ Sending
       /\ keys.remoteLock # Unknown
       /\ led = <<>> \/ keys.remoteLock = keys.lock
       /\ keys.down[c] = Up /\ keys'.down[c] # Up
       => keys'.lock = localLock']_keyboardVars
=============================================================================
