----------------------------- MODULE RfbSession -----------------------------
(***************************************************************************)
(* A session of rfb.js from its construction to its end: the connection    *)
(* states, the socket, the handshake with every security type the code     *)
(* has, and the RSA-AES negotiation of ra2.js.  The server is external: it *)
(* follows the protocol, and may refuse or give up wherever that allows.   *)
(* Keys, hashes and credentials are labels.                                *)
(***************************************************************************)
EXTENDS RfbStream

CONSTANTS Versions,     \* protocol versions of servers, or "bad"
          Offers,       \* the lists of security types servers send
          SubOffers     \* the types a sub-negotiation may offer

New == {"3.7", "3.8"}    \* the server lists security types

Supported == {"none", "vnc", "ra2", "tight", "vencrypt", "xvp", "ard",
              "mslogon", "plain"}

VARIABLES viewOnly,
          link,         \* the connection: state, socket, timer, events
          init,         \* _rfbInitState
          version,      \* _rfbVersion
          scheme,       \* _rfbAuthScheme
          stage,        \* progress within a security type
          tight,        \* _rfbTightVNC
          creds,        \* credentials: "none", "asked" for, "given"
          pending,      \* a timer or a promise that goes on with the handshake
          out           \* what was sent and the server has not answered

authVars == <<version, scheme, stage, tight, creds, pending>>
sessionVars == <<viewOnly, link, init, authVars, out, streamVars>>

Live == link.conn \in {"connecting", "connected"}

SessionInit ==
  /\ viewOnly \in BOOLEAN
  /\ link = [conn |-> "connecting", sock |-> "connecting", closeOn |-> TRUE,
             timer |-> FALSE, grabbed |-> FALSE, clean |-> TRUE, reports |-> <<>>]
  /\ init = "start" /\ version = "unknown" /\ scheme = "unset"
  /\ stage = 0 /\ tight = FALSE
  /\ creds \in {"none", "given"}
  /\ pending = "nothing" /\ out = <<>>
  /\ StreamInit

-----------------------------------------------------------------------------
(***************************************************************************)
(* _updateConnectionState.  A transition that is not listed is logged and  *)
(* ignored.  Disconnecting lets go of the keyboard and closes the socket;  *)
(* the end is reported to the page once the socket has closed, or when the *)
(* timer runs out; it clears the timer and turns the close handler off.    *)
(***************************************************************************)
\* Mutant of Transitions: the end is not for good.
TransitionsAgain ==
  {<<"connecting", "connected">>, <<"connecting", "disconnecting">>,
   <<"connected", "disconnecting">>, <<"disconnecting", "disconnected">>,
   <<"disconnected", "disconnecting">>}

Transitions ==
  {<<"connecting", "connected">>, <<"connecting", "disconnecting">>,
   <<"connected", "disconnecting">>, <<"disconnecting", "disconnected">>}

\* Mutant of TearDown: the keyboard stays grabbed.
TearDownQuick(l) ==
  [l EXCEPT !.sock = IF @ = "closed" THEN @ ELSE "closing", !.timer = TRUE]

\* Mutant of TearDown: only the socket is waited for.
TearDownUntimed(l) ==
  [l EXCEPT !.grabbed = FALSE, !.sock = IF @ = "closed" THEN @ ELSE "closing"]

TearDown(l) ==
  [l EXCEPT !.grabbed = FALSE,
            !.sock = IF @ = "closed" THEN @ ELSE "closing",
            !.timer = TRUE]

Update(l, state) ==
  LET calm == IF l.timer /\ state # "disconnecting"
              THEN [l EXCEPT !.timer = FALSE, !.closeOn = FALSE] ELSE l
      next == [calm EXCEPT !.conn = state]
  IN IF <<l.conn, state>> \in Transitions
     THEN CASE state = "disconnecting" -> TearDown(next)
            [] state = "disconnected" -> [next EXCEPT !.reports = Append(@, l.clean)]
            [] state = "connected" -> next
     ELSE l

\* _fail: on to the end without waiting for the socket.
Failed(l) ==
  Update(Update([l EXCEPT !.clean = FALSE], "disconnecting"), "disconnected")

SocketOpen ==
  /\ link.sock = "connecting" /\ run = "idle"
  /\ link' = [link EXCEPT !.sock = "open"]
  /\ init' = "ProtocolVersion"
  /\ out' = << <<"open">> >>
  /\ UNCHANGED <<viewOnly, authVars, streamVars>>

(***************************************************************************)
(* _socketClose, after close() or because the server or the network ended  *)
(* it.  What was on its way is lost.                                       *)
(***************************************************************************)
OnClose(l) ==
  CASE l.conn = "connecting" -> Failed(l)
    [] l.conn = "connected" -> Update(Update(l, "disconnecting"), "disconnected")
    [] l.conn = "disconnecting" -> Update(l, "disconnected")
    [] l.conn = "disconnected" -> Failed(l)

SocketClose ==
  /\ link.sock # "closed" /\ run = "idle"
  /\ LET l == [link EXCEPT !.sock = "closed"]
     IN  link' = [(IF l.closeOn THEN OnClose(l) ELSE l) EXCEPT !.closeOn = FALSE]
  /\ net' = <<>> /\ out' = <<>>
  /\ UNCHANGED <<viewOnly, init, authVars, rQ, run, misread>>

(***************************************************************************)
(* disconnect(), at any time: it also turns the message handler off, and   *)
(* rejects what a negotiation of ra2.js waits for.                         *)
(***************************************************************************)
Disconnect ==
  /\ run = "idle"
  /\ link' = Update(link, "disconnecting")
  /\ net' = <<>>
  /\ IF scheme = "ra2" /\ stage > 0
     THEN stage' = 0 /\ init' = "SecurityResult" /\ pending' = "nothing"
     ELSE UNCHANGED <<stage, init, pending>>
  /\ UNCHANGED <<viewOnly, version, scheme, tight, creds, out, rQ, run, misread>>

DisconnectTimeout ==
  /\ link.timer /\ run = "idle"
  /\ link' = Update(link, "disconnected")
  /\ UNCHANGED <<viewOnly, init, authVars, out, streamVars>>

-----------------------------------------------------------------------------
(***************************************************************************)
(* The handlers of _initMsg.  What they send reaches the server only over  *)
(* an open socket.                                                         *)
(***************************************************************************)
In(state) == run # "idle" /\ init = state

Reply(label) == out' = IF link.sock = "open" THEN Append(out, label) ELSE out

\* A count or a status is zero or not; "0" is also what a check refuses.
Zero == rQ[1].val = "0"
Some == rQ[1].val # "0"

Goto(state, goOn) ==
  init' = state /\ Return(goOn) /\ UNCHANGED <<viewOnly, link>>

Fail ==
  /\ link' = Failed(link) /\ run' = "idle"
  /\ UNCHANGED <<viewOnly, init, authVars, out>>

(***************************************************************************)
(* _negotiateProtocolVersion returns nothing once its version is sent; the *)
(* loop ends, and the next handler is called with the next message only.   *)
(***************************************************************************)
\* Mutant of VersionSent: the handler returns true.
VersionSentOn == Goto("Security", TRUE)

VersionSent == Goto("Security", FALSE)

NegotiateProtocolVersion ==
  /\ In("ProtocolVersion") /\ Read(<<"version">>)
  /\ LET v == rQ[1].val IN
     \/ /\ v = "repeater"
        /\ Reply(<<"repeater">>) /\ Goto(init, TRUE)
        /\ UNCHANGED authVars
     \/ v = "bad" /\ Fail
     \/ /\ v \in {"3.3", "3.7", "3.8"}
        /\ version' = v /\ Reply(<<"version">>) /\ VersionSent
        /\ UNCHANGED <<scheme, stage, tight, creds, pending>>

(***************************************************************************)
(* _negotiateSecurity.  From 3.7 on the number of types is read without a  *)
(* wait: the handler counts on a byte being there.                         *)
(***************************************************************************)
FirstOf(t, types, known) ==
  \E i \in DOMAIN types :
    types[i] = t /\ t \in known /\ \A k \in 1 .. (i - 1) : types[k] \notin known

NoneOf(types, known) == \A i \in DOMAIN types : types[i] \notin known

NegotiateSecurity ==
  /\ In("Security")
  /\ \/ /\ version \in New /\ ReadPast
        /\ Goto(init, FALSE) /\ UNCHANGED <<authVars, out>>
     \/ /\ Read(IF version \in New THEN <<"ntypes">> ELSE <<"scheme">>)
        /\ Zero
        /\ Goto("SecurityReason", TRUE) /\ UNCHANGED <<authVars, out>>
     \/ /\ version \notin New
        /\ Read(<<"scheme">>) /\ Some
        /\ scheme' = rQ[1].val
        /\ Goto("Authentication", TRUE)
        /\ UNCHANGED <<out, version, stage, tight, creds, pending>>
     \/ /\ version \in New
        /\ Read(<<"ntypes", "types">>) /\ Some
        /\ \/ NoneOf(rQ[2].val, Supported) /\ Fail
           \/ \E t \in Supported :
              /\ FirstOf(t, rQ[2].val, Supported)
              /\ scheme' = t /\ Reply(<<"choice", t>>)
              /\ Goto("Authentication", TRUE)
              /\ UNCHANGED <<version, stage, tight, creds, pending>>

Reason == IF Zero THEN <<"reasonLen">> ELSE <<"reasonLen", "reason">>

HandleSecurityReason ==
  /\ In("SecurityReason") /\ Has(1) /\ Read(Reason)
  /\ Fail

\* _handleSecurityResult: from 3.8 on a refusal comes with its reason.
HandleSecurityResult ==
  /\ In("SecurityResult") /\ Read(<<"result">>)
  /\ \/ /\ Zero
        /\ Goto("ClientInitialisation", TRUE) /\ UNCHANGED <<authVars, out>>
     \/ /\ Some /\ version = "3.8"
        /\ Goto("SecurityReason", TRUE) /\ UNCHANGED <<authVars, out>>
     \/ Some /\ version # "3.8" /\ Fail

ClientInitialisation ==
  /\ In("ClientInitialisation")
  /\ Reply(<<"clientinit">>)
  /\ Goto("ServerInitialisation", TRUE)
  /\ UNCHANGED <<authVars, net, rQ, misread>>

(***************************************************************************)
(* _negotiateServerInit: the keyboard is grabbed, the first encodings and  *)
(* the first update request go out, and the page is told of the connection.*)
(* The loop of _handleMessage ends with the state it was entered for.      *)
(***************************************************************************)
ServerInit == IF tight THEN <<"init", "name", "caps", "lists">> ELSE <<"init", "name">>

NegotiateServerInit ==
  /\ In("ServerInitialisation") /\ Read(ServerInit)
  /\ link' = Update([link EXCEPT !.grabbed = ~viewOnly], "connected")
  /\ Reply(<<"request">>)
  /\ run' = "idle"
  /\ UNCHANGED <<viewOnly, init, authVars>>

-----------------------------------------------------------------------------
(***************************************************************************)
(* Security types.  A handler that lacks credentials asks the page for     *)
(* them and returns; what it waited for stays in the queue.                *)
(***************************************************************************)
Auth(s) == In("Authentication") /\ scheme = s

Ask ==
  /\ creds # "given" /\ creds' = "asked"
  /\ Goto(init, FALSE)
  /\ UNCHANGED <<out, version, scheme, stage, tight, pending, net, rQ, misread>>

AuthNone ==
  /\ Auth("none")
  /\ Goto(IF version = "3.8" THEN "SecurityResult" ELSE "ClientInitialisation", TRUE)
  /\ UNCHANGED <<authVars, out, net, rQ, misread>>

\* A type that a server before 3.7 dictates need not be one the code knows.
AuthUnsupported ==
  /\ Auth("other") /\ Fail
  /\ UNCHANGED <<net, rQ, misread>>

\* _negotiatePlainAuth, _negotiateTightUnixAuth.
AuthPlain ==
  /\ Auth("plain") \/ Auth("unix")
  /\ \/ Ask
     \/ /\ creds = "given"
        /\ Reply(<<"credentials">>) /\ Goto("SecurityResult", TRUE)
        /\ UNCHANGED <<authVars, net, rQ, misread>>

\* _negotiateXvpAuth goes on as _negotiateStdVNCAuth.
AuthXvp ==
  /\ Auth("xvp")
  /\ \/ Ask
     \/ /\ creds = "given"
        /\ Reply(<<"xvp">>)
        /\ scheme' = "vnc" /\ Goto(init, TRUE)
        /\ UNCHANGED <<version, stage, tight, creds, pending, net, rQ, misread>>

\* _negotiateStdVNCAuth and _negotiateMSLogonIIAuth answer a challenge.
AuthChallenge ==
  /\ Auth("vnc") \/ Auth("mslogon")
  /\ Has(1)
  /\ \/ Ask
     \/ /\ creds = "given" /\ Read(<<"challenge">>)
        /\ Reply(<<"response">>) /\ Goto("SecurityResult", TRUE)
        /\ UNCHANGED authVars

(***************************************************************************)
(* _negotiateARDAuth: the answer is computed asynchronously, and the       *)
(* handshake resumed when it is there (stage 1).                           *)
(***************************************************************************)
AuthArd ==
  /\ Auth("ard")
  /\ \/ Ask
     \/ /\ creds = "given" /\ stage = 1
        /\ Reply(<<"response">>) /\ Goto("SecurityResult", TRUE)
        /\ stage' = 0
        /\ UNCHANGED <<version, scheme, tight, creds, pending, net, rQ, misread>>
     \/ /\ creds = "given" /\ stage = 0 /\ Read(<<"ardHead", "ardKeys">>)
        /\ pending' = "ard" /\ Goto(init, FALSE)
        /\ UNCHANGED <<out, version, scheme, stage, tight, creds>>

ArdComputed ==
  /\ run = "idle" /\ pending = "ard"
  /\ stage' = 1 /\ pending' = "resume"
  /\ UNCHANGED <<viewOnly, link, init, version, scheme, tight, creds, out, streamVars>>

(***************************************************************************)
(* _negotiateTightAuth: tunnels first, once, then the types.  There has to *)
(* be one that is no tunnel, of the right vendor.                          *)
(***************************************************************************)
AuthTightTunnels ==
  /\ Auth("tight") /\ ~tight /\ Has(1)
  /\ tight' = TRUE
  /\ \/ /\ Zero /\ Read(<<"ntunnels">>)
        /\ Goto(init, TRUE) /\ UNCHANGED out
     \/ /\ Some /\ Read(<<"ntunnels", "tunnels">>) /\ rQ[2].val # "0"
        /\ Reply(<<"tunnel">>) /\ Goto(init, FALSE)
     \/ /\ Some /\ Read(<<"ntunnels", "tunnels">>) /\ rQ[2].val = "0"
        /\ link' = Failed(link) /\ run' = "idle"
        /\ UNCHANGED <<viewOnly, init, out>>
  /\ UNCHANGED <<version, scheme, stage, creds, pending>>

TightChoice(types) ==
  CASE "none" \in types -> "none"
    [] "none" \notin types /\ "vnc" \in types -> "vnc"
    [] types \intersect {"none", "vnc"} = {} /\ "unix" \in types -> "unix"
    [] OTHER -> "other"

AuthTight ==
  /\ Auth("tight") /\ tight /\ Has(1)
  /\ \/ /\ Zero /\ Read(<<"nauths">>)
        /\ Goto("SecurityResult", TRUE) /\ UNCHANGED <<authVars, out>>
     \/ /\ Some /\ Read(<<"nauths", "auths">>)
        /\ LET t == TightChoice(rQ[2].val) IN
           \/ t = "other" /\ Fail
           \/ /\ t # "other" /\ Reply(<<"choice", t>>)
              /\ scheme' = IF t = "none" THEN scheme ELSE t
              /\ Goto(IF t = "none" THEN "SecurityResult" ELSE init, TRUE)
              /\ UNCHANGED <<version, stage, tight, creds, pending>>

(***************************************************************************)
(* _negotiateVeNCryptAuth: four waits, with the one reached kept in        *)
(* `stage`; what was read before a wait is not read again.                 *)
(***************************************************************************)
AuthVeNCrypt ==
  /\ Auth("vencrypt") /\ Has(1)
  /\ \/ /\ stage = 0 /\ Read(<<"vcVersion">>) /\ rQ[1].val = "0.2"
        /\ stage' = 1 /\ Reply(<<"vcversion">>) /\ Goto(init, TRUE)
        /\ UNCHANGED <<version, scheme, tight, creds, pending>>
     \/ /\ stage = 1 /\ Read(<<"ack">>) /\ Zero
        /\ stage' = 2 /\ Goto(init, TRUE)
        /\ UNCHANGED <<out, version, scheme, tight, creds, pending>>
     \/ /\ stage = 2 /\ Read(<<"nsubs">>) /\ Some
        /\ stage' = 3 /\ Goto(init, TRUE)
        /\ UNCHANGED <<out, version, scheme, tight, creds, pending>>
     \/ /\ stage = 3 /\ Read(<<"subs">>)
        /\ \/ NoneOf(rQ[1].val, Supported \ {"vencrypt"}) /\ Fail
           \/ \E t \in Supported \ {"vencrypt"} :
              /\ FirstOf(t, rQ[1].val, Supported \ {"vencrypt"})
              /\ scheme' = t /\ stage' = 0
              /\ Reply(<<"choice", t>>) /\ Goto(init, TRUE)
              /\ UNCHANGED <<version, tight, creds, pending>>
     \/ /\ stage = 0 /\ Read(<<"vcVersion">>) /\ rQ[1].val # "0.2" /\ Fail
     \/ /\ stage = 1 /\ Read(<<"ack">>) /\ Some /\ Fail
     \/ /\ stage = 2 /\ Read(<<"nsubs">>) /\ Zero /\ Fail

(***************************************************************************)
(* ra2.js.  The first call starts negotiateRA2neAuthAsync, whose waits are *)
(* promises: a message event, or the page, makes the handler look whether  *)
(* what is waited for is there.  Data that came while no promise waited is *)
(* seen when the next wait begins.  A throw ends in _fail, and like a      *)
(* return in "SecurityResult", with the negotiation forgotten.             *)
(***************************************************************************)
AuthRa2 ==
  /\ Auth("ra2")
  /\ stage' = IF stage = 0 THEN 1 ELSE stage
  /\ Goto(init, FALSE)
  /\ UNCHANGED <<out, version, scheme, tight, creds, pending, net, rQ, misread>>

Ra2At(n) == scheme = "ra2" /\ stage = n /\ run = "idle" /\ Live

Ra2Go(n) ==
  /\ stage' = n
  /\ UNCHANGED <<viewOnly, link, run, version, scheme, tight>>

Ra2Throw ==
  /\ link' = Failed(link)
  /\ stage' = 0 /\ init' = "SecurityResult"
  /\ UNCHANGED <<viewOnly, run, version, scheme, tight, creds, pending, out>>

Ra2ServerKey ==
  /\ Ra2At(1)
  /\ \/ /\ Read(<<"keyLen", "key">>) /\ Some
        /\ Ra2Go(2) /\ pending' = "approve"
        /\ UNCHANGED <<init, creds, out>>
     \/ Read(<<"keyLen">>) /\ Zero /\ Ra2Throw

ApproveServer ==
  /\ Ra2At(2)
  /\ Ra2Go(3) /\ pending' = "nothing"
  /\ Reply(<<"clientKey">>)
  /\ UNCHANGED <<init, creds, net, rQ, misread>>

\* Only the length is waited for: if the rest is not there, garbage is read.
Ra2ServerRandom ==
  /\ Ra2At(3)
  /\ \/ /\ Read(<<"randLen", "random">>) /\ Some /\ rQ[2].val # "0"
        /\ Ra2Go(4) /\ Reply(<<"clientHash">>)
        /\ UNCHANGED <<init, creds, pending>>
     \/ Read(<<"randLen">>) /\ Zero /\ Ra2Throw
     \/ Read(<<"randLen", "random">>) /\ Some /\ rQ[2].val = "0" /\ Ra2Throw
     \/ /\ Len(rQ) = 1 /\ Some
        /\ rQ' = <<>> /\ misread' = TRUE
        /\ Ra2Throw /\ UNCHANGED net

Ra2ServerHash ==
  /\ Ra2At(4) /\ Read(<<"hash">>)
  /\ \/ /\ Some /\ Ra2Go(5)
        /\ UNCHANGED <<init, creds, pending, out>>
     \/ Zero /\ Ra2Throw

Ra2Subtype ==
  /\ Ra2At(5) /\ Read(<<"subtype">>)
  /\ \/ /\ Some /\ Ra2Go(6)
        /\ creds' = IF creds = "given" THEN "given" ELSE "asked"
        /\ UNCHANGED <<init, pending, out>>
     \/ Zero /\ Ra2Throw

Ra2Credentials ==
  /\ Ra2At(6) /\ creds = "given" /\ pending = "nothing"
  /\ Ra2Go(0)
  /\ Reply(<<"credentials">>) /\ init' = "SecurityResult"
  /\ UNCHANGED <<creds, pending, net, rQ, misread>>

-----------------------------------------------------------------------------
(***************************************************************************)
(* The page answers a request for credentials; _resumeAuthentication then  *)
(* calls _initMsg once, from a timer, whatever has become of the session.  *)
(***************************************************************************)
SendCredentials ==
  /\ run = "idle" /\ creds = "asked"
  /\ creds' = "given" /\ pending' = "resume"
  /\ UNCHANGED <<viewOnly, link, init, version, scheme, stage, tight, out, streamVars>>

\* Mutant of Resume: the credentials are kept for the next message.
ResumeLater ==
  /\ run = "idle" /\ pending = "resume"
  /\ pending' = "nothing"
  /\ UNCHANGED <<viewOnly, link, init, version, scheme, stage, tight, creds, out,
                 streamVars>>

Resume ==
  /\ run = "idle" /\ pending = "resume"
  /\ pending' = "nothing" /\ run' = "once"
  /\ UNCHANGED <<viewOnly, link, init, version, scheme, stage, tight, creds, out,
                 net, rQ, misread>>

\* A message event; in other states the data is left in the queue.
Message ==
  /\ link.sock = "open" /\ link.conn = "connecting"
  /\ Receive
  /\ UNCHANGED <<viewOnly, link, init, authVars, out>>

\* How many cells the handler in charge waits for.
Needed ==
  CASE init \in {"ProtocolVersion", "SecurityResult"} -> 1
    [] init = "Security" -> IF version \in New /\ Has(1) /\ Some THEN 2 ELSE 1
    [] init = "SecurityReason" -> IF Has(1) THEN Len(Reason) ELSE 1
    [] init = "ServerInitialisation" -> Len(ServerInit)
    [] init = "Authentication" /\ scheme \in {"vnc", "mslogon", "vencrypt"} -> 1
    [] init = "Authentication" /\ scheme = "tight" ->
         IF Has(1) /\ Some THEN 2 ELSE 1
    [] init = "Authentication" /\ scheme = "ard" /\ creds = "given" /\ stage = 0 -> 2
    [] OTHER -> 0

NotYet ==
  /\ ~(init = "Security" /\ version \in New /\ ~Has(1))
  /\ Await(Needed)
  /\ UNCHANGED <<viewOnly, link, init, authVars, out>>

InitMsg ==
  \/ NegotiateProtocolVersion \/ NegotiateSecurity \/ HandleSecurityReason
  \/ HandleSecurityResult \/ ClientInitialisation \/ NegotiateServerInit
  \/ AuthUnsupported \/ AuthNone \/ AuthPlain \/ AuthXvp \/ AuthChallenge \/ AuthArd
  \/ AuthTightTunnels \/ AuthTight \/ AuthVeNCrypt \/ AuthRa2
  \/ NotYet

Ra2Next ==
  \/ Ra2ServerKey \/ ApproveServer \/ Ra2ServerRandom \/ Ra2ServerHash
  \/ Ra2Subtype \/ Ra2Credentials

-----------------------------------------------------------------------------
(***************************************************************************)
(* The server (external): what it may write in answer to what it read.     *)
(***************************************************************************)
Refusal == {<<Cell("reasonLen", "0")>>, <<Cell("reasonLen", "1"), Cell("reason", "1")>>}

After(cells, continuations) == {cells \o c : c \in continuations}

Result ==
  {<<Cell("result", "0")>>}
  \union After(<<Cell("result", "1")>>, IF version = "3.8" THEN Refusal ELSE {<<>>})

Challenge == {<<Cell("challenge", "1")>>}

TightAuths ==
  After(<<Cell("nauths", "0")>>, Result)
  \union {<<Cell("nauths", "1"), Cell("auths", types)>> : types \in SubOffers["tight"]}

Opening(type) ==
  CASE type = "none" -> IF version = "3.8" \/ tight THEN Result ELSE {<<>>}
    [] type \in {"vnc", "mslogon"} -> Challenge
    [] type = "ard" -> {<<Cell("ardHead", "1"), Cell("ardKeys", "1")>>}
    [] type = "ra2" -> {<<Cell("keyLen", v), Cell("key", "1")>> : v \in {"0", "1"}}
    [] type = "tight" -> After(<<Cell("ntunnels", "0")>>, TightAuths)
                         \union {<<Cell("ntunnels", "1"), Cell("tunnels", v)>> :
                                   v \in {"0", "1"}}
    [] type = "vencrypt" -> {<<Cell("vcVersion", v)>> : v \in {"0.1", "0.2"}}
    [] OTHER -> {<<>>}

Answer(label) ==
  CASE label[1] \in {"open", "repeater"} ->
         {<<Cell("version", v)>> : v \in Versions}
         \union (IF label[1] = "open" THEN {<<Cell("version", "repeater")>>} ELSE {})
    [] label[1] = "version" /\ version \in New ->
         {<<Cell("ntypes", "1"), Cell("types", types)>> : types \in Offers}
         \union After(<<Cell("ntypes", "0")>>, Refusal)
    [] label[1] = "version" /\ version \notin New ->
         After(<<Cell("scheme", "0")>>, Refusal)
         \union {<<Cell("scheme", "none")>>, <<Cell("scheme", "other")>>}
         \union After(<<Cell("scheme", "vnc")>>, Challenge)
    [] label[1] = "choice" -> Opening(label[2])
    [] label[1] = "tunnel" -> TightAuths
    [] label[1] = "xvp" -> Challenge
    [] label[1] = "vcversion" ->
         {<<Cell("ack", "1")>>, <<Cell("ack", "0"), Cell("nsubs", "0")>>}
         \union {<<Cell("ack", "0"), Cell("nsubs", "1"), Cell("subs", types)>> :
                   types \in SubOffers["vencrypt"]}
    [] label[1] \in {"response", "credentials"} -> Result
    [] label[1] = "clientKey" ->
         {<<Cell("randLen", v), Cell("random", w)>> : v, w \in {"0", "1"}}
    [] label[1] = "clientHash" ->
         {<<Cell("hash", v), Cell("subtype", w)>> : v, w \in {"0", "1"}}
    [] label[1] = "clientinit" ->
         {<<Cell("init", "1"), Cell("name", "1")>>
          \o (IF tight THEN <<Cell("caps", "1"), Cell("lists", "1")>> ELSE <<>>)}
    [] OTHER -> {<<>>}

Serve ==
  /\ link.sock = "open" /\ run = "idle" /\ Live
  /\ out # <<>>
  /\ out' = Tail(out)
  /\ \E cells \in Answer(Head(out)) : net' = net \o cells
  /\ UNCHANGED <<viewOnly, link, init, authVars, rQ, run, misread>>

SessionNext ==
  \/ SocketOpen \/ SocketClose \/ Disconnect \/ DisconnectTimeout
  \/ InitMsg \/ ArdComputed \/ Ra2Next
  \/ SendCredentials \/ Resume \/ Message \/ Serve

(***************************************************************************)
(* A timer that is set does fire, and a handler that was called returns.   *)
(***************************************************************************)
SessionFairness == WF_sessionVars(DisconnectTimeout) /\ WF_sessionVars(InitMsg)

SessionSpec == SessionInit /\ [][SessionNext]_sessionVars /\ SessionFairness

-----------------------------------------------------------------------------
SessionTypeOK ==
  /\ viewOnly \in BOOLEAN /\ tight \in BOOLEAN /\ misread \in BOOLEAN
  /\ link.sock \in {"connecting", "open", "closing", "closed"}
  /\ stage \in 0 .. 6 /\ creds \in {"none", "asked", "given"}
  /\ pending \in {"nothing", "resume", "ard", "approve"}
  /\ run \in {"idle", "loop", "once"}

(***************************************************************************)
(* The session does with the connection only what Console says it may.     *)
(***************************************************************************)
C == INSTANCE Console WITH connState <- link.conn

ConnectionRefined == C!ConnectionSpec

(***************************************************************************)
(* In step: whatever the network cuts the stream into, wherever handlers   *)
(* wait, start again or go on later, no field is read as another one or    *)
(* before it has come.  (But for the random number of ra2.js.)             *)
(***************************************************************************)
HandshakeInStep == misread => scheme = "ra2"

(***************************************************************************)
(* The two sides never wait for each other: a handshake that is not over   *)
(* has something on its way, a timer or a promise to go on with, or waits  *)
(* for the page.                                                           *)
(***************************************************************************)
HandshakeNeverHangs ==
  link.conn = "connecting" /\ link.sock = "open" /\ run = "idle" =>
    \/ net # <<>> \/ out # <<>>
    \/ pending # "nothing" \/ creds = "asked"
    \/ scheme = "ra2" /\ stage > 0 /\ (rQ # <<>> \/ (stage = 6 /\ creds = "given"))

(***************************************************************************)
(* However disconnect(), _fail, the close of the socket and the timer race *)
(* each other: the page hears of the end once, when it has come, the timer *)
(* runs only until then, and the socket is on its way down.                *)
(***************************************************************************)
ToldOnce ==
  /\ Len(link.reports) = (IF link.conn = "disconnected" THEN 1 ELSE 0)
  /\ link.timer => link.conn = "disconnecting"
  /\ ~Live => link.sock \in {"closing", "closed"}

(***************************************************************************)
(* The page hears of the end once, and is told of a clean one only if      *)
(* nothing failed; nothing of the session is left behind.                  *)
(***************************************************************************)
EndsOnce ==
  /\ ToldOnce
  /\ link.grabbed => Live
  /\ link.conn = "disconnected" /\ link.reports[1] => link.clean

(***************************************************************************)
(* A disconnect comes to its end even if the socket never closes.          *)
(***************************************************************************)
DisconnectEnds == link.conn = "disconnecting" ~> link.conn = "disconnected"
=============================================================================
