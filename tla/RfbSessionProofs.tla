-------------------------- MODULE RfbSessionProofs --------------------------
(***************************************************************************)
(* A session implements the connection of Console, for every server: the   *)
(* state changes only in _updateConnectionState, whose callers go through  *)
(* "disconnecting" to the end, and what is not in its list it ignores.     *)
(* It ends once, and its handshake stays in step with the server and never *)
(* hangs: `Handshake`, which every step keeps, says what is due from the   *)
(* server wherever the two sides are.                                      *)
(***************************************************************************)
EXTENDS RfbSession, TLAPS

States == {"connecting", "connected", "disconnecting", "disconnected"}

Links == [conn : States, sock : {"connecting", "open", "closing", "closed"},
          closeOn : BOOLEAN, timer : BOOLEAN, grabbed : BOOLEAN, clean : BOOLEAN,
          reports : Seq(BOOLEAN)]

(* What a step may do to the state of the connection. *)
Legal(was, now) ==
  \/ now = was
  \/ was = "connecting" /\ now = "connected"
  \/ was \in {"connecting", "connected"} /\ now \in {"disconnecting", "disconnected"}
  \/ was = "disconnecting" /\ now = "disconnected"

(* Disconnecting changes the state to "disconnecting". *)
LEMMA TearDownConn ==
  \A l \in Links : TearDown(l) \in Links /\ TearDown(l).conn = l.conn
BY DEF TearDown, Links

(* The end is reported without any other change. *)
LEMMA ReportConn ==
  \A l \in Links, b \in BOOLEAN :
    /\ [l EXCEPT !.reports = Append(@, b)] \in Links
    /\ [l EXCEPT !.reports = Append(@, b)].conn = l.conn
<1> SUFFICES ASSUME NEW l \in Links, NEW b \in BOOLEAN
             PROVE  /\ [l EXCEPT !.reports = Append(@, b)] \in Links
                    /\ [l EXCEPT !.reports = Append(@, b)].conn = l.conn
  OBVIOUS
<1>1. l.reports \in Seq(BOOLEAN)
  BY DEF Links
<1>2. Append(l.reports, b) \in Seq(BOOLEAN)
  BY <1>1
<1> QED
  BY <1>2 DEF Links

(* _updateConnectionState changes the state as its list says, or not at all. *)
LEMMA UpdateConn ==
  \A l \in Links, s \in States :
    /\ Update(l, s) \in Links
    /\ Update(l, s).conn = IF <<l.conn, s>> \in Transitions THEN s ELSE l.conn
<1> SUFFICES ASSUME NEW l \in Links, NEW s \in States
             PROVE  /\ Update(l, s) \in Links
                    /\ Update(l, s).conn = IF <<l.conn, s>> \in Transitions THEN s ELSE l.conn
  OBVIOUS
<1> DEFINE calm == IF l.timer /\ s # "disconnecting"
                   THEN [l EXCEPT !.timer = FALSE, !.closeOn = FALSE] ELSE l
           next == [calm EXCEPT !.conn = s]
           told == [next EXCEPT !.reports = Append(@, l.clean)]
<1>1. calm \in Links
  BY DEF Links
<1>2. Update(l, s) = IF <<l.conn, s>> \in Transitions
                     THEN CASE s = "disconnecting" -> TearDown(next)
                            [] s = "disconnected" -> told
                            [] s = "connected" -> next
                     ELSE l
  BY DEF Update
<1> HIDE DEF calm
<1>3. next \in Links /\ next.conn = s
  BY <1>1 DEF Links
<1> HIDE DEF next
<1>4. TearDown(next) \in Links /\ TearDown(next).conn = s
  BY <1>3, TearDownConn
<1>5. l.clean \in BOOLEAN
  BY DEF Links
<1>6. told \in Links /\ told.conn = s
  BY <1>3, <1>5, ReportConn
<1> HIDE DEF told
<1>7. <<l.conn, s>> \in Transitions => s \in {"connected", "disconnecting", "disconnected"}
  BY DEF Transitions
<1> QED
  BY <1>2, <1>3, <1>4, <1>6, <1>7

(* _fail ends a connection that has not ended, whatever it was doing. *)
LEMMA FailedConn ==
  \A l \in Links : Failed(l) \in Links /\ Failed(l).conn = "disconnected"
<1> SUFFICES ASSUME NEW l \in Links
             PROVE  Failed(l) \in Links /\ Failed(l).conn = "disconnected"
  OBVIOUS
<1> DEFINE foul == [l EXCEPT !.clean = FALSE]
           going == Update(foul, "disconnecting")
<1>1. foul \in Links /\ foul.conn \in States
  BY DEF Links
<1>2. Failed(l) = Update(going, "disconnected")
  BY DEF Failed
<1> HIDE DEF foul
<1>3. /\ going \in Links
      /\ going.conn = IF <<foul.conn, "disconnecting">> \in Transitions
                      THEN "disconnecting" ELSE foul.conn
  BY <1>1, UpdateConn DEF States
<1>4. going.conn \in {"disconnecting", "disconnected"}
  BY <1>1, <1>3 DEF Transitions, States
<1> HIDE DEF going
<1>5. /\ Update(going, "disconnected") \in Links
      /\ Update(going, "disconnected").conn =
           IF <<going.conn, "disconnected">> \in Transitions THEN "disconnected"
           ELSE going.conn
  BY <1>3, UpdateConn DEF States
<1> QED
  BY <1>2, <1>4, <1>5 DEF Transitions

(* So does the close of the socket, in every state. *)
LEMMA OnCloseConn ==
  \A l \in Links : OnClose(l) \in Links /\ OnClose(l).conn = "disconnected"
<1> SUFFICES ASSUME NEW l \in Links
             PROVE  OnClose(l) \in Links /\ OnClose(l).conn = "disconnected"
  OBVIOUS
<1>1. l.conn \in States
  BY DEF Links
<1>2. CASE l.conn = "connecting" \/ l.conn = "disconnected"
  <2>1. OnClose(l) = Failed(l)
    BY <1>2 DEF OnClose
  <2> QED
    BY <2>1, FailedConn
<1>3. CASE l.conn = "connected"
  <2> DEFINE going == Update(l, "disconnecting")
  <2>1. OnClose(l) = Update(going, "disconnected")
    BY <1>3 DEF OnClose
  <2>2. going \in Links /\ going.conn = "disconnecting"
    BY <1>3, UpdateConn DEF Transitions, States
  <2> HIDE DEF going
  <2> QED
    BY <2>1, <2>2, UpdateConn DEF Transitions, States
<1>4. CASE l.conn = "disconnecting"
  <2>1. OnClose(l) = Update(l, "disconnected")
    BY <1>4 DEF OnClose
  <2> QED
    BY <1>4, <2>1, UpdateConn DEF Transitions, States
<1> QED
  BY <1>1, <1>2, <1>3, <1>4 DEF States

-----------------------------------------------------------------------------
LinkOK == link \in Links

(* _updateConnectionState takes a legal step, wherever it is called. *)
LEMMA UpdateLegal ==
  \A l \in Links, s \in States : Legal(l.conn, Update(l, s).conn)
<1> SUFFICES ASSUME NEW l \in Links, NEW s \in States
             PROVE  Legal(l.conn, Update(l, s).conn)
  OBVIOUS
<1>1. Update(l, s).conn = IF <<l.conn, s>> \in Transitions THEN s ELSE l.conn
  BY UpdateConn
<1> QED
  BY <1>1 DEF Transitions, Legal

(* An end is a legal step from every state. *)
LEMMA EndLegal ==
  \A l \in Links : Legal(l.conn, "disconnected")
BY DEF Links, States, Legal

(* A step of a handshake either leaves the connection alone, fails, or     *)
(* brings it up.                                                           *)
ConnStep == LinkOK' /\ Legal(link.conn, link'.conn)

(* What leaves the connection alone. *)
LEMMA KeptStep == LinkOK /\ UNCHANGED link => ConnStep
BY DEF LinkOK, ConnStep, Legal

(* What fails the session. *)
LEMMA FailedStep == LinkOK /\ link' = Failed(link) => ConnStep
BY FailedConn, EndLegal DEF LinkOK, ConnStep

(* disconnect() and the timer. *)
LEMMA UpdatedStep ==
  ASSUME NEW s \in States, LinkOK, link' = Update(link, s)
  PROVE  ConnStep
BY UpdateConn, UpdateLegal DEF LinkOK, ConnStep

(* The socket opens. *)
LEMMA OpenStep == LinkOK /\ SocketOpen => ConnStep
BY DEF LinkOK, SocketOpen, Links, ConnStep, Legal

(* The socket closes: the close handler is off from then on. *)
LEMMA CloseStep == LinkOK /\ SocketClose => ConnStep
<1> SUFFICES ASSUME LinkOK, SocketClose PROVE ConnStep
  OBVIOUS
<1> DEFINE l == [link EXCEPT !.sock = "closed"]
           m == IF l.closeOn THEN OnClose(l) ELSE l
<1>1. l \in Links /\ l.conn = link.conn
  BY DEF LinkOK, Links
<1>2. link' = [m EXCEPT !.closeOn = FALSE]
  BY DEF SocketClose
<1> HIDE DEF l
<1>3. m \in Links /\ Legal(link.conn, m.conn)
  BY <1>1, OnCloseConn, EndLegal DEF Legal
<1> HIDE DEF m
<1>4. link' \in Links /\ link'.conn = m.conn
  BY <1>2, <1>3 DEF Links
<1> QED
  BY <1>3, <1>4 DEF LinkOK, ConnStep

(* ServerInit has come: connected, unless the session is already over. *)
LEMMA ServerInitStep == LinkOK /\ viewOnly \in BOOLEAN /\ NegotiateServerInit => ConnStep
<1> SUFFICES ASSUME LinkOK, viewOnly \in BOOLEAN, NegotiateServerInit PROVE ConnStep
  OBVIOUS
<1> DEFINE l == [link EXCEPT !.grabbed = ~viewOnly]
<1>1. l \in Links /\ l.conn = link.conn
  BY DEF LinkOK, Links
<1>2. link' = Update(l, "connected")
  BY DEF NegotiateServerInit
<1> HIDE DEF l
<1> QED
  BY <1>1, <1>2, UpdateConn, UpdateLegal DEF LinkOK, ConnStep, States

(* The handlers of the handshake leave the link alone, or fail. *)
LEMMA InitMsgLink ==
  InitMsg => NegotiateServerInit \/ UNCHANGED link \/ link' = Failed(link)
<1>1. NegotiateProtocolVersion => UNCHANGED link \/ link' = Failed(link)
  BY DEF NegotiateProtocolVersion, VersionSent, Goto, Fail
<1>2. NegotiateSecurity => UNCHANGED link \/ link' = Failed(link)
  BY DEF NegotiateSecurity, Goto, Fail
<1>3. HandleSecurityReason => link' = Failed(link)
  BY DEF HandleSecurityReason, Fail
<1>4. HandleSecurityResult => UNCHANGED link \/ link' = Failed(link)
  BY DEF HandleSecurityResult, Goto, Fail
<1>5. ClientInitialisation => UNCHANGED link
  BY DEF ClientInitialisation, Goto
<1>6. AuthNone \/ AuthPlain \/ AuthXvp \/ AuthChallenge \/ AuthArd => UNCHANGED link
  BY DEF AuthNone, AuthPlain, AuthXvp, AuthChallenge, AuthArd, Ask, Goto
<1>7. AuthRa2 \/ NotYet => UNCHANGED link
  BY DEF AuthRa2, NotYet, Goto
<1>8. AuthUnsupported \/ AuthTightTunnels \/ AuthTight => UNCHANGED link \/ link' = Failed(link)
  BY DEF AuthUnsupported, AuthTightTunnels, AuthTight, Goto, Fail
<1>9. AuthVeNCrypt => UNCHANGED link \/ link' = Failed(link)
  BY DEF AuthVeNCrypt, Goto, Fail
<1> QED
  BY <1>1, <1>2, <1>3, <1>4, <1>5, <1>6, <1>7, <1>8, <1>9 DEF InitMsg

(* So does the negotiation of ra2.js. *)
LEMMA Ra2Link == Ra2Next => UNCHANGED link \/ link' = Failed(link)
BY DEF Ra2Next, Ra2ServerKey, ApproveServer, Ra2ServerRandom, Ra2ServerHash,
       Ra2Subtype, Ra2Credentials, Ra2Go, Ra2Throw

(* Every handler of the handshake takes a legal step. *)
LEMMA InitMsgStep == LinkOK /\ viewOnly \in BOOLEAN /\ InitMsg => ConnStep
BY InitMsgLink, ServerInitStep, KeptStep, FailedStep

(* The negotiation of ra2.js takes a legal step. *)
LEMMA Ra2Step == LinkOK /\ Ra2Next => ConnStep
BY Ra2Link, KeptStep, FailedStep

SessionOK == LinkOK /\ viewOnly \in BOOLEAN

(* Every step of a session. *)
LEMMA SessionStep ==
  SessionOK /\ [SessionNext]_sessionVars => SessionOK' /\ Legal(link.conn, link'.conn)
<1> SUFFICES ASSUME SessionOK, [SessionNext]_sessionVars PROVE SessionOK' /\ ConnStep
  BY DEF ConnStep
<1>1. UNCHANGED viewOnly /\ ConnStep
  <2>1. CASE SocketOpen
    BY <2>1, OpenStep DEF SessionOK, SocketOpen
  <2>2. CASE SocketClose
    BY <2>2, CloseStep DEF SessionOK, SocketClose
  <2>3. CASE Disconnect
    BY <2>3, UpdatedStep DEF SessionOK, Disconnect, States
  <2>4. CASE DisconnectTimeout
    BY <2>4, UpdatedStep DEF SessionOK, DisconnectTimeout, States
  <2>5. CASE InitMsg
    <3>1. ConnStep
      BY <2>5, InitMsgStep DEF SessionOK
    <3>2. UNCHANGED viewOnly
      BY <2>5 DEF InitMsg, NegotiateProtocolVersion, VersionSent, NegotiateSecurity,
           HandleSecurityReason, HandleSecurityResult, ClientInitialisation,
           NegotiateServerInit, AuthUnsupported, AuthNone, AuthPlain, AuthXvp, AuthChallenge, AuthArd,
           AuthTightTunnels, AuthTight, AuthVeNCrypt, AuthRa2, NotYet, Ask, Goto, Fail
    <3> QED
      BY <3>1, <3>2
  <2>6. CASE Ra2Next
    <3>1. ConnStep
      BY <2>6, Ra2Step DEF SessionOK
    <3>2. UNCHANGED viewOnly
      BY <2>6 DEF Ra2Next, Ra2ServerKey, ApproveServer, Ra2ServerRandom, Ra2ServerHash,
           Ra2Subtype, Ra2Credentials, Ra2Go, Ra2Throw
    <3> QED
      BY <3>1, <3>2
  <2>7. CASE ArdComputed \/ SendCredentials \/ Resume \/ Message \/ Serve
    BY <2>7, KeptStep DEF SessionOK, ArdComputed, SendCredentials, Resume, Message, Serve
  <2>8. CASE UNCHANGED sessionVars
    BY <2>8, KeptStep DEF SessionOK, sessionVars
  <2> QED
    BY <2>1, <2>2, <2>3, <2>4, <2>5, <2>6, <2>7, <2>8 DEF SessionNext
<1> QED
  BY <1>1 DEF SessionOK, ConnStep

(* A legal step is a step of Console, or none at all. *)
LEMMA LegalIsConsole ==
  SessionOK /\ Legal(link.conn, link'.conn)
    => [C!Connect \/ C!Drop \/ C!Closed]_(link.conn)
BY DEF Legal, C!Connect, C!Drop, C!Closed, C!Live

(***************************************************************************)
(* For every server, and however the close of the socket, disconnect(),    *)
(* the timer and failures race: a session connects at most once, and       *)
(* reaches "disconnected" at most once and for good.                       *)
(***************************************************************************)
THEOREM SessionImplementsConsole == SessionSpec => ConnectionRefined
<1>1. SessionInit => SessionOK /\ link.conn = "connecting"
  <2> SUFFICES ASSUME SessionInit PROVE SessionOK /\ link.conn = "connecting"
    OBVIOUS
  <2>1. <<>> \in Seq(BOOLEAN)
    OBVIOUS
  <2> QED
    BY <2>1 DEF SessionInit, SessionOK, LinkOK, Links, States
<1>2. SessionOK /\ [SessionNext]_sessionVars
        => SessionOK' /\ [C!Connect \/ C!Drop \/ C!Closed]_(link.conn)
  BY SessionStep, LegalIsConsole
<1> QED
  BY <1>1, <1>2, PTL DEF SessionSpec, ConnectionRefined, C!ConnectionSpec

-----------------------------------------------------------------------------
\* ToldOnce, of any state of the connection.
Told(l) ==
  /\ Len(l.reports) = (IF l.conn = "disconnected" THEN 1 ELSE 0)
  /\ l.timer => l.conn = "disconnecting"
  /\ l.conn \notin {"connecting", "connected"} => l.sock \in {"closing", "closed"}

(* Disconnecting starts the timer and closes the socket. *)
LEMMA TearDownTold ==
  \A l \in Links : l.conn = "disconnecting" /\ Len(l.reports) = 0 => Told(TearDown(l))
BY DEF TearDown, Links, Told

(* The end is told when it comes. *)
LEMMA ReportTold ==
  \A l \in Links, b \in BOOLEAN :
    /\ l.conn = "disconnected" /\ Len(l.reports) = 0 /\ ~l.timer
    /\ l.sock \in {"closing", "closed"}
    => Told([l EXCEPT !.reports = Append(@, b)])
<1> TAKE l \in Links, b \in BOOLEAN
<1> DEFINE r == [l EXCEPT !.reports = Append(@, b)]
<1>1. l.reports \in Seq(BOOLEAN)
  BY DEF Links
<1>2. Len(Append(l.reports, b)) = Len(l.reports) + 1
  BY <1>1
<1>3. /\ r.reports = Append(l.reports, b) /\ r.conn = l.conn /\ r.timer = l.timer
      /\ r.sock = l.sock
  BY DEF Links
<1> HIDE DEF r
<1>4. l.conn = "disconnected" /\ Len(l.reports) = 0 /\ ~l.timer
        /\ l.sock \in {"closing", "closed"} => Told(r)
  BY <1>2, <1>3 DEF Told
<1> QED
  BY <1>4 DEF r

(* _updateConnectionState tells of the end once. *)
LEMMA UpdateTold ==
  \A l \in Links, s \in States : Told(l) => Told(Update(l, s))
<1> SUFFICES ASSUME NEW l \in Links, NEW s \in States, Told(l)
             PROVE  Told(Update(l, s))
  OBVIOUS
<1> DEFINE calm == IF l.timer /\ s # "disconnecting"
                   THEN [l EXCEPT !.timer = FALSE, !.closeOn = FALSE] ELSE l
           next == [calm EXCEPT !.conn = s]
           told == [next EXCEPT !.reports = Append(@, l.clean)]
<1>1. Update(l, s) = IF <<l.conn, s>> \in Transitions
                     THEN CASE s = "disconnecting" -> TearDown(next)
                            [] s = "disconnected" -> told
                            [] s = "connected" -> next
                     ELSE l
  BY DEF Update
<1>2. /\ calm \in Links /\ calm.reports = l.reports /\ calm.sock = l.sock
      /\ s # "disconnecting" => ~calm.timer
  BY DEF Links
<1> HIDE DEF calm
<1>3. /\ next \in Links /\ next.conn = s /\ next.reports = l.reports
      /\ next.sock = l.sock /\ next.timer = calm.timer
  BY <1>2 DEF Links
<1> HIDE DEF next
<1>4. ASSUME <<l.conn, s>> \in Transitions
      PROVE  Len(l.reports) = 0 /\ s \in {"connected", "disconnecting", "disconnected"}
  BY <1>4 DEF Transitions, Told
<1>5. ASSUME <<l.conn, s>> \in Transitions, s = "disconnected"
      PROVE  l.sock \in {"closing", "closed"}
  BY <1>5 DEF Transitions, Told
<1>6. CASE <<l.conn, s>> \notin Transitions
  BY <1>1, <1>6
<1>7. CASE <<l.conn, s>> \in Transitions /\ s = "disconnecting"
  BY <1>1, <1>3, <1>4, <1>7, TearDownTold
<1>8. CASE <<l.conn, s>> \in Transitions /\ s = "disconnected"
  <2>1. l.clean \in BOOLEAN
    BY DEF Links
  <2>2. Told(told)
    BY <1>2, <1>3, <1>4, <1>5, <1>8, <2>1, ReportTold
  <2> HIDE DEF told
  <2> QED
    BY <1>1, <1>8, <2>2
<1>9. CASE <<l.conn, s>> \in Transitions /\ s = "connected"
  <2>1. Update(l, s) = next
    BY <1>1, <1>9
  <2> QED
    BY <1>2, <1>3, <1>4, <1>9, <2>1 DEF Told
<1> QED
  BY <1>4, <1>6, <1>7, <1>8, <1>9

(* So do its callers: _fail, and the close of the socket. *)
LEMMA FailedTold == \A l \in Links : Told(l) => Told(Failed(l))
<1> SUFFICES ASSUME NEW l \in Links, Told(l) PROVE Told(Failed(l))
  OBVIOUS
<1> DEFINE foul == [l EXCEPT !.clean = FALSE]
           going == Update(foul, "disconnecting")
<1>1. foul \in Links /\ Told(foul)
  BY DEF Links, Told
<1>2. Failed(l) = Update(going, "disconnected")
  BY DEF Failed
<1> HIDE DEF foul
<1>3. going \in Links /\ Told(going)
  BY <1>1, UpdateConn, UpdateTold DEF States
<1> HIDE DEF going
<1> QED
  BY <1>2, <1>3, UpdateTold DEF States

(* The close handler, in every state. *)
LEMMA OnCloseTold == \A l \in Links : Told(l) => Told(OnClose(l))
<1> SUFFICES ASSUME NEW l \in Links, Told(l) PROVE Told(OnClose(l))
  OBVIOUS
<1> DEFINE going == Update(l, "disconnecting")
<1>1. \/ OnClose(l) = Failed(l)
      \/ OnClose(l) = Update(going, "disconnected")
      \/ OnClose(l) = Update(l, "disconnected")
  <2>1. l.conn \in States
    BY DEF Links
  <2> QED
    BY <2>1 DEF OnClose, States
<1>2. going \in Links /\ Told(going)
  BY UpdateConn, UpdateTold DEF States
<1> HIDE DEF going
<1> QED
  BY <1>1, <1>2, FailedTold, UpdateTold DEF States

ToldOK == SessionOK /\ Told(link)

(* Every step tells of the end once. *)
LEMMA ToldStep == ToldOK /\ [SessionNext]_sessionVars => ToldOK'
<1> SUFFICES ASSUME ToldOK, [SessionNext]_sessionVars PROVE Told(link')
  BY SessionStep DEF ToldOK, Told
<1>1. link \in Links /\ Told(link) /\ viewOnly \in BOOLEAN
  BY DEF ToldOK, SessionOK, LinkOK
<1>2. CASE link' = link
  BY <1>1, <1>2
<1>3. CASE link' = Failed(link)
  BY <1>1, <1>3, FailedTold
<1>4. CASE SocketOpen
  <2>1. link' = [link EXCEPT !.sock = "open"] /\ link.sock = "connecting"
    BY <1>4 DEF SocketOpen
  <2>2. /\ link'.conn = link.conn /\ link'.timer = link.timer
        /\ link'.reports = link.reports
    BY <1>1, <2>1 DEF Links
  <2> QED
    BY <1>1, <2>1, <2>2 DEF Told
<1>5. CASE SocketClose
  <2> DEFINE l == [link EXCEPT !.sock = "closed"]
             m == IF l.closeOn THEN OnClose(l) ELSE l
  <2>1. l \in Links /\ Told(l)
    BY <1>1 DEF Links, Told
  <2>2. link' = [m EXCEPT !.closeOn = FALSE]
    BY <1>5 DEF SocketClose
  <2> HIDE DEF l
  <2>3. m \in Links /\ Told(m)
    BY <2>1, OnCloseConn, OnCloseTold
  <2> HIDE DEF m
  <2>4. /\ link'.conn = m.conn /\ link'.timer = m.timer /\ link'.sock = m.sock
        /\ link'.reports = m.reports
    BY <2>2, <2>3 DEF Links
  <2> QED
    BY <2>3, <2>4 DEF Told
<1>6. CASE Disconnect \/ DisconnectTimeout
  BY <1>1, <1>6, UpdateTold DEF Disconnect, DisconnectTimeout, States
<1>7. CASE NegotiateServerInit
  <2> DEFINE l == [link EXCEPT !.grabbed = ~viewOnly]
  <2>1. l \in Links /\ Told(l)
    BY <1>1 DEF Links, Told
  <2>2. link' = Update(l, "connected")
    BY <1>7 DEF NegotiateServerInit
  <2> HIDE DEF l
  <2> QED
    BY <2>1, <2>2, UpdateTold DEF States
<1>8. \/ link' = link \/ link' = Failed(link) \/ SocketOpen \/ SocketClose
      \/ Disconnect \/ DisconnectTimeout \/ NegotiateServerInit
  <2>1. InitMsg => NegotiateServerInit \/ UNCHANGED link \/ link' = Failed(link)
    BY InitMsgLink
  <2>2. Ra2Next => UNCHANGED link \/ link' = Failed(link)
    BY Ra2Link
  <2>3. ArdComputed \/ SendCredentials \/ Resume \/ Message \/ Serve => UNCHANGED link
    BY DEF ArdComputed, SendCredentials, Resume, Message, Serve
  <2>4. UNCHANGED sessionVars => UNCHANGED link
    BY DEF sessionVars
  <2> QED
    BY <2>1, <2>2, <2>3, <2>4 DEF SessionNext
<1> QED
  BY <1>2, <1>3, <1>4, <1>5, <1>6, <1>7, <1>8

(***************************************************************************)
(* For every server, and in every race of disconnect(), failures, the      *)
(* close of the socket and the timer: the page hears of the end once.      *)
(***************************************************************************)
THEOREM SessionEndsOnce == SessionSpec => []ToldOnce
<1>1. SessionInit => ToldOK
  <2> SUFFICES ASSUME SessionInit PROVE ToldOK
    OBVIOUS
  <2>1. <<>> \in Seq(BOOLEAN) /\ Len(<<>>) = 0
    OBVIOUS
  <2>2. SessionOK
    BY <2>1 DEF SessionInit, SessionOK, LinkOK, Links, States
  <2>3. link.conn = "connecting" /\ link.timer = FALSE /\ link.reports = <<>>
    BY DEF SessionInit
  <2>4. Told(link)
    BY <2>1, <2>3 DEF Told
  <2> QED
    BY <2>2, <2>4 DEF ToldOK
<1>2. ToldOK => ToldOnce
  BY DEF ToldOK, Told, ToldOnce, Live
<1> QED
  BY <1>1, <1>2, ToldStep, PTL DEF SessionSpec

-----------------------------------------------------------------------------
(***************************************************************************)
(* The handshake.  What has been written and not read, in order, whether   *)
(* it is on its way or in the queue; `Roles` are the fields the client     *)
(* will read before it answers, `Fits` says that they are what is coming,  *)
(* and `Whole` that nothing more of them is to be written.              *)
(***************************************************************************)
Names == {"version", "ntypes", "types", "scheme", "challenge", "reasonLen", "reason",
          "result", "ntunnels", "tunnels", "nauths", "auths", "vcVersion", "ack",
          "nsubs", "subs", "ardHead", "ardKeys", "keyLen", "key", "randLen", "random",
          "hash", "subtype", "init", "name", "caps", "lists"}

Vals == {"0", "1", "0.1", "0.2", "none", "vnc", "other", "repeater"} \union Versions
        \union Offers \union SubOffers["tight"] \union SubOffers["vencrypt"]

Cells == [role : Names, val : Vals]

Words == {"choice", "open", "repeater", "version", "tunnel", "xvp", "vcversion",
          "response", "credentials", "clientKey", "clientHash", "clientinit", "request",
          "unix"} \union Supported

Labels == Seq(Words)

Coming == rQ \o net

Val(s, i) == IF i \in DOMAIN s THEN s[i].val ELSE "still to come"

ReasonRoles(s) == IF Val(s, 1) = "0" THEN <<"reasonLen">> ELSE <<"reasonLen", "reason">>

ResultRoles(s) ==
  CASE Val(s, 1) = "0" \/ version # "3.8" -> <<"result">>
    [] Val(s, 1) # "0" /\ version = "3.8" /\ Val(s, 2) = "0" -> <<"result", "reasonLen">>
    [] OTHER -> <<"result", "reasonLen", "reason">>

SecurityRoles(s) ==
  LET first == IF version \in New THEN "ntypes" ELSE "scheme" IN
  CASE Val(s, 1) = "0" /\ Val(s, 2) = "0" -> <<first, "reasonLen">>
    [] Val(s, 1) = "0" /\ Val(s, 2) # "0" -> <<first, "reasonLen", "reason">>
    [] Val(s, 1) # "0" /\ version \in New -> <<"ntypes", "types">>
    [] Val(s, 1) \in {"none", "other"} /\ version \notin New -> <<"scheme">>
    [] OTHER -> <<"scheme", "challenge">>

TightRoles(s) ==
  CASE Val(s, 1) # "0" -> <<"nauths", "auths">>
    [] Val(s, 1) = "0" /\ (Val(s, 2) = "0" \/ version # "3.8") -> <<"nauths", "result">>
    [] Val(s, 1) = "0" /\ Val(s, 2) # "0" /\ version = "3.8" /\ Val(s, 3) = "0" ->
         <<"nauths", "result", "reasonLen">>
    [] OTHER -> <<"nauths", "result", "reasonLen", "reason">>

TunnelRoles(s) ==
  CASE Val(s, 1) # "0" -> <<"ntunnels", "tunnels">>
    [] Val(s, 1) = "0" /\ Val(s, 2) # "0" -> <<"ntunnels", "nauths", "auths">>
    [] Val(s, 1) = "0" /\ Val(s, 2) = "0" /\ (Val(s, 3) = "0" \/ version # "3.8") ->
         <<"ntunnels", "nauths", "result">>
    [] Val(s, 1) = "0" /\ Val(s, 2) = "0" /\ Val(s, 3) # "0" /\ version = "3.8"
         /\ Val(s, 4) = "0" -> <<"ntunnels", "nauths", "result", "reasonLen">>
    [] OTHER -> <<"ntunnels", "nauths", "result", "reasonLen", "reason">>

VeNCryptRoles(s) ==
  CASE stage = 0 -> <<"vcVersion">>
    [] stage = 1 /\ Val(s, 1) # "0" -> <<"ack">>
    [] stage = 1 /\ Val(s, 1) = "0" /\ Val(s, 2) = "0" -> <<"ack", "nsubs">>
    [] stage = 1 /\ Val(s, 1) = "0" /\ Val(s, 2) # "0" -> <<"ack", "nsubs", "subs">>
    [] stage = 2 /\ Val(s, 1) = "0" -> <<"nsubs">>
    [] stage = 2 /\ Val(s, 1) # "0" -> <<"nsubs", "subs">>
    [] OTHER -> <<"subs">>

Ra2Roles ==
  CASE stage \in {0, 1} -> <<"keyLen", "key">>
    [] stage = 3 -> <<"randLen", "random">>
    [] stage = 4 -> <<"hash", "subtype">>
    [] stage = 5 -> <<"subtype">>
    [] OTHER -> <<>>

AuthRoles(s) ==
  CASE scheme = "none" /\ version = "3.8" -> ResultRoles(s)
    [] scheme \in {"vnc", "mslogon"} -> <<"challenge">>
    [] scheme = "ard" /\ stage = 0 /\ pending # "ard" -> <<"ardHead", "ardKeys">>
    [] scheme = "tight" /\ ~tight -> TunnelRoles(s)
    [] scheme = "tight" /\ tight -> TightRoles(s)
    [] scheme = "vencrypt" -> VeNCryptRoles(s)
    [] scheme = "ra2" -> Ra2Roles
    [] OTHER -> <<>>

Roles(s) ==
  CASE init = "ProtocolVersion" -> <<"version">>
    [] init = "Security" -> SecurityRoles(s)
    [] init = "SecurityReason" -> ReasonRoles(s)
    [] init = "SecurityResult" -> ResultRoles(s)
    [] init = "ServerInitialisation" -> ServerInit
    [] init = "Authentication" -> AuthRoles(s)
    [] OTHER -> <<>>

Fits(s) ==
  /\ Len(s) <= Len(Roles(s))
  /\ \A i \in 1 .. Len(s) : s[i].role = Roles(s)[i]
  /\ init = "Security" /\ version \notin New /\ Len(s) > 0
       => s[1].val \in {"0", "none", "vnc", "other"}

Whole(s) == Len(s) = Len(Roles(s))

(***************************************************************************)
(* What is sent and not answered is what the client now waits for an       *)
(* answer to, after at most one choice that has no answer of its own.      *)
(***************************************************************************)
Mute(l) ==
  /\ l[1] = "choice"
  /\ \/ l[2] \in {"plain", "unix", "xvp"}
     \/ l[2] = "none" /\ version # "3.8" /\ ~tight

Awaited(l) ==
  \/ init = "ProtocolVersion" /\ l[1] \in {"open", "repeater"}
  \/ init = "Security" /\ l[1] = "version"
  \/ /\ init = "SecurityResult"
     /\ \/ l[1] \in {"response", "credentials"}
        \/ l[1] = "choice" /\ l[2] = "none" /\ (version = "3.8" \/ tight)
  \/ /\ init = "ClientInitialisation"
     /\ l[1] = "choice" /\ l[2] = "none" /\ version # "3.8" /\ ~tight
  \/ init = "ServerInitialisation" /\ l[1] = "clientinit"
  \/ /\ init = "Authentication" /\ stage = 0 /\ pending # "ard"
     /\ \/ l[1] = "choice" /\ l[2] = scheme /\ ~(scheme = "tight" /\ tight)
        \/ l[1] = "xvp" /\ scheme = "vnc"
        \/ l[1] = "tunnel" /\ scheme = "tight" /\ tight
  \/ init = "Authentication" /\ scheme = "vencrypt" /\ stage = 1 /\ l[1] = "vcversion"
  \/ /\ init = "Authentication" /\ scheme = "ra2"
     /\ \/ stage = 1 /\ l[1] = "choice" /\ l[2] = "ra2"
        \/ stage = 3 /\ l[1] = "clientKey"
        \/ stage = 4 /\ l[1] = "clientHash"

OutFits ==
  \/ Len(out) = 1 /\ Awaited(out[1])
  \/ /\ Len(out) = 2 /\ Mute(out[1]) /\ Awaited(out[2])
     /\ out[2][1] \in {"xvp", "credentials", "clientinit"}

-----------------------------------------------------------------------------
(* Where the client can be in the handshake.                               *)
Stages(s) ==
  CASE s = "ard" -> 0 .. 1
    [] s = "vencrypt" -> 0 .. 3
    [] s = "ra2" -> 0 .. 6
    [] OTHER -> {0}

InitStates == {"ProtocolVersion", "Security", "SecurityReason", "SecurityResult",
               "ClientInitialisation", "ServerInitialisation", "Authentication"}

Standing ==
  /\ init \in InitStates
  /\ init # "ProtocolVersion" => version \in {"3.3", "3.7", "3.8"}
  /\ tight => init \notin {"ProtocolVersion", "Security"}
  /\ IF init # "Authentication" THEN stage = 0
     ELSE /\ scheme \in Supported \union {"unix", "other"} /\ stage \in Stages(scheme)
          /\ tight => scheme \in {"tight", "vnc", "unix"}
          /\ scheme = "ard" /\ stage = 1 => creds = "given"
          /\ scheme = "ra2" => /\ pending = "approve" <=> stage = 2
                               /\ stage = 6 => creds # "none"
  /\ pending = "ard" => /\ init = "Authentication" /\ scheme = "ard" /\ stage = 0
                        /\ creds = "given"
  /\ pending = "approve" => init = "Authentication" /\ scheme = "ra2"

\* A call of a handler that no message makes is due, or made.
Called == creds = "asked" \/ pending \in {"resume", "ard"} \/ run = "once"

Asking == {"plain", "unix", "xvp", "vnc", "mslogon", "ard"}

Readers ==
  /\ Called => init = "Authentication" /\ (scheme \in Asking \/ (scheme = "ra2" /\ stage = 6))
  /\ run = "once" => pending = "nothing"
  /\ pending = "resume" \/ run = "once" => creds = "given"
  /\ run = "loop" /\ init = "Security" => rQ # <<>>
  /\ run = "loop" /\ Called => scheme = "ard" /\ stage = 0 /\ pending # "ard"
  /\ Called /\ scheme \in {"vnc", "mslogon"} => rQ # <<>>

\* A handler that has returned waits for more, for the page or for a promise.
Waits ==
  run = "idle" =>
    \/ ~Has(Needed) \/ creds = "asked" \/ pending # "nothing"
    \/ init = "Authentication" /\ scheme = "ra2" /\ stage > 0

\* While the socket is open, the two sides agree on what is to come.
Line ==
  link.sock = "open" =>
    /\ Waits
    /\ IF out = <<>> THEN Whole(Coming) ELSE Coming = <<>> /\ OutFits

Talking == Standing /\ Readers /\ Fits(Coming) /\ Line

\* Nothing calls a handler any more.
Over == run = "idle" /\ ~Called

Unopened ==
  /\ Over /\ pending = "nothing" /\ creds # "asked" /\ Coming = <<>> /\ out = <<>>
  /\ init = "start" /\ stage = 0 /\ ~tight

Settled ==
  /\ Over /\ pending = "nothing" /\ init = "ServerInitialisation" /\ stage = 0
  /\ Coming = <<>>
  /\ \/ out = <<>>
     \/ Len(out) = 1 /\ out[1][1] = "request"

\* After the end a handler may still be called, once, with what is in the queue.
Late ==
  \/ Over
  \/ Talking /\ init = "Authentication" /\ run # "loop"
  \/ init = "SecurityResult" /\ stage = 0 /\ rQ = <<>> /\ run # "loop" /\ pending # "ard"

Phase ==
  /\ link.sock = "connecting" => Unopened
  /\ link.conn = "connecting" /\ link.sock = "open" => Talking
  /\ link.conn = "connected" => Settled
  /\ ~Live => Late

MisreadOver == misread => scheme = "ra2" /\ ~Live /\ Over

(***************************************************************************)
(* The connection: the socket is up exactly while it lives, the close      *)
(* handler is off once the end is told, and the page is told the truth.    *)
(***************************************************************************)
LinkFits(l) ==
  LET alive == l.conn \in {"connecting", "connected"} IN
  /\ Told(l)
  /\ alive => l.closeOn /\ l.sock \in {"connecting", "open"}
  /\ l.conn = "disconnected" => ~l.closeOn /\ (l.reports[1] => l.clean)
  /\ l.sock = "connecting" => l.conn = "connecting"
  /\ l.grabbed => alive

Typed ==
  /\ SessionOK
  /\ rQ \in Seq(Cells) /\ net \in Seq(Cells) /\ out \in Seq(Labels)
  /\ misread \in BOOLEAN /\ tight \in BOOLEAN
  /\ run \in {"idle", "loop", "once"} /\ creds \in {"none", "asked", "given"}
  /\ pending \in {"nothing", "resume", "ard", "approve"}
  /\ stage \in 0 .. 6

Handshake ==
  /\ Typed /\ LinkFits(link)
  /\ run = "loop" => link.conn = "connecting"
  /\ MisreadOver /\ Phase

-----------------------------------------------------------------------------
(* The queue is the beginning of what is coming.                           *)
LEMMA ComingIs ==
  ASSUME rQ \in Seq(Cells), net \in Seq(Cells)
  PROVE  /\ Coming \in Seq(Cells) /\ Len(Coming) = Len(rQ) + Len(net)
         /\ \A i \in 1 .. Len(rQ) : Coming[i] = rQ[i]
         /\ \A i \in 1 .. Len(net) : Coming[i + Len(rQ)] = net[i]
         /\ net = <<>> => Coming = rQ
         /\ Coming = <<>> <=> rQ = <<>> /\ net = <<>>
<1>1. /\ Coming \in Seq(Cells) /\ Len(Coming) = Len(rQ) + Len(net)
      /\ \A i \in 1 .. Len(rQ) : Coming[i] = rQ[i]
  BY DEF Coming
<1>2. \A i \in 1 .. Len(net) : Coming[i + Len(rQ)] = net[i]
  BY DEF Coming
<1>3. net = <<>> => Coming = rQ
  BY DEF Coming
<1>4. Coming = <<>> <=> rQ = <<>> /\ net = <<>>
  BY <1>1
<1> QED
  BY <1>1, <1>2, <1>3, <1>4

(* So it is after a step.                                                  *)
LEMMA ComingNext ==
  ASSUME rQ' \in Seq(Cells), net' \in Seq(Cells)
  PROVE  /\ Coming' \in Seq(Cells) /\ Len(Coming') = Len(rQ') + Len(net')
         /\ \A i \in 1 .. Len(rQ') : Coming'[i] = rQ'[i]
         /\ \A i \in 1 .. Len(net') : Coming'[i + Len(rQ')] = net'[i]
         /\ net' = <<>> => Coming' = rQ'
         /\ Coming' = <<>> <=> rQ' = <<>> /\ net' = <<>>
<1>1. /\ Coming' \in Seq(Cells) /\ Len(Coming') = Len(rQ') + Len(net')
      /\ \A i \in 1 .. Len(rQ') : Coming'[i] = rQ'[i]
  BY DEF Coming
<1>2. \A i \in 1 .. Len(net') : Coming'[i + Len(rQ')] = net'[i]
  BY DEF Coming
<1>3. net' = <<>> => Coming' = rQ'
  BY DEF Coming
<1>4. Coming' = <<>> <=> rQ' = <<>> /\ net' = <<>>
  BY <1>1
<1> QED
  BY <1>1, <1>2, <1>3, <1>4

(* What a read leaves is the rest; it is in step if the fields agree.      *)
LEMMA ReadStep ==
  ASSUME rQ \in Seq(Cells), net \in Seq(Cells), misread \in BOOLEAN,
         NEW roles \in Seq(Names), Read(roles)
  PROVE  /\ rQ' \in Seq(Cells) /\ net' = net
         /\ Len(roles) <= Len(rQ) /\ Len(rQ') = Len(rQ) - Len(roles)
         /\ Len(Coming') = Len(Coming) - Len(roles)
         /\ \A i \in 1 .. Len(Coming') : Coming'[i] = Coming[i + Len(roles)]
         /\ (\A i \in DOMAIN roles : Coming[i].role = roles[i]) => misread' = misread
<1> DEFINE n == Len(roles)
<1>1. /\ n \in Nat /\ n <= Len(rQ) /\ net' = net
      /\ rQ' = SubSeq(rQ, n + 1, Len(rQ))
      /\ misread' = (misread \/ \E i \in DOMAIN roles : rQ[i].role # roles[i])
  BY DEF Read, Has
<1>2. DOMAIN roles = 1 .. n
  OBVIOUS
<1> HIDE DEF n
<1>3. /\ rQ' \in Seq(Cells) /\ Len(rQ') = Len(rQ) - n
      /\ \A i \in 1 .. Len(rQ') : rQ'[i] = rQ[i + n]
  BY <1>1
<1>4. net' \in Seq(Cells)
  BY <1>1
<1>5. Len(Coming') = Len(Coming) - n
  <2>1. Len(Coming) = Len(rQ) + Len(net)
    BY ComingIs
  <2>2. Len(Coming') = Len(rQ') + Len(net')
    BY <1>3, <1>4, ComingNext
  <2>3. Len(rQ) \in Nat /\ Len(net) \in Nat
    OBVIOUS
  <2> QED
    BY <1>1, <1>3, <2>1, <2>2, <2>3
<1>6. ASSUME NEW i \in 1 .. Len(Coming') PROVE Coming'[i] = Coming[i + n]
  <2>1. Len(Coming) = Len(rQ) + Len(net) /\ Len(Coming') = Len(rQ') + Len(net)
    BY <1>1, <1>3, <1>4, ComingIs, ComingNext
  <2>2. Len(net) \in Nat /\ Len(rQ) \in Nat
    OBVIOUS
  <2>3. CASE i <= Len(rQ')
    <3>1. Coming'[i] = rQ'[i] /\ i \in 1 .. Len(rQ')
      BY <1>3, <1>4, <2>1, <2>3, ComingNext
    <3>2. Coming[i + n] = rQ[i + n]
      BY <1>1, <1>3, <2>3, ComingIs
    <3> QED
      BY <1>3, <3>1, <3>2
  <2>4. CASE i > Len(rQ')
    <3>1. PICK k \in 1 .. Len(net) : i = k + Len(rQ')
      <4>1. i - Len(rQ') \in 1 .. Len(net)
        BY <1>1, <1>3, <2>1, <2>2, <2>4
      <4>2. i = (i - Len(rQ')) + Len(rQ')
        BY <1>1, <1>3, <2>2
      <4> QED
        BY <4>1, <4>2
    <3>2. Coming'[i] = net[k]
      BY <1>1, <1>3, <1>4, <3>1, ComingNext
    <3>3. i + n = k + Len(rQ)
      BY <1>1, <1>3, <2>2, <3>1
    <3>4. Coming[k + Len(rQ)] = net[k]
      BY ComingIs
    <3> QED
      BY <3>2, <3>3, <3>4
  <2> QED
    BY <1>1, <1>3, <2>1, <2>3, <2>4
<1>7. (\A i \in 1 .. n : Coming[i].role = roles[i]) => misread' = misread
  <2>1. Len(rQ) \in Nat /\ \A i \in 1 .. Len(rQ) : Coming[i] = rQ[i]
    BY ComingIs
  <2>2. \A i \in 1 .. n : Coming[i] = rQ[i]
    BY <1>1, <2>1
  <2> QED
    BY <1>1, <1>2, <2>2
<1> QED
  BY <1>1, <1>2, <1>3, <1>5, <1>6, <1>7 DEF n

(* However a message cuts what is on its way, what is coming is the same.  *)
LEMMA ReceiveStep ==
  ASSUME rQ \in Seq(Cells), net \in Seq(Cells), Receive
  PROVE  /\ rQ' \in Seq(Cells) /\ net' \in Seq(Cells) /\ rQ' # <<>>
         /\ Coming' = Coming /\ misread' = misread /\ run = "idle" /\ run' = "loop"
<1>1. PICK n \in 1 .. Len(net) : rQ' = rQ \o SubSeq(net, 1, n)
                              /\ net' = SubSeq(net, n + 1, Len(net))
  BY DEF Receive
<1>2. /\ SubSeq(net, 1, n) \in Seq(Cells) /\ Len(SubSeq(net, 1, n)) = n
      /\ \A i \in 1 .. n : SubSeq(net, 1, n)[i] = net[i]
  OBVIOUS
<1>3. /\ net' \in Seq(Cells) /\ Len(net') = Len(net) - n
      /\ \A i \in 1 .. Len(net') : net'[i] = net[i + n]
  BY <1>1
<1>4. /\ rQ' \in Seq(Cells) /\ Len(rQ') = Len(rQ) + n
      /\ \A i \in 1 .. Len(rQ) : rQ'[i] = rQ[i]
      /\ \A i \in 1 .. n : rQ'[i + Len(rQ)] = net[i]
  BY <1>1, <1>2
<1>5. Len(Coming') = Len(Coming) /\ Coming' \in Seq(Cells) /\ Coming \in Seq(Cells)
  BY <1>3, <1>4, ComingIs, ComingNext
<1>6. ASSUME NEW i \in 1 .. Len(Coming) PROVE Coming'[i] = Coming[i]
  <2>1. Len(Coming) = Len(rQ) + Len(net) /\ Len(rQ) \in Nat /\ Len(net) \in Nat
    BY ComingIs
  <2>2. CASE i <= Len(rQ)
    <3>1. Coming[i] = rQ[i]
      BY <2>1, <2>2, ComingIs
    <3>2. i \in 1 .. Len(rQ')
      BY <1>4, <2>1, <2>2
    <3>3. Coming'[i] = rQ'[i]
      BY <1>3, <1>4, <3>2, ComingNext
    <3> QED
      BY <1>4, <2>1, <2>2, <3>1, <3>3
  <2>3. CASE i > Len(rQ) /\ i <= Len(rQ) + n
    <3>1. PICK k \in 1 .. n : i = k + Len(rQ)
      <4>1. i - Len(rQ) \in 1 .. n
        BY <2>1, <2>3
      <4> QED
        BY <2>1, <4>1
    <3>2. Coming[k + Len(rQ)] = net[k]
      BY <3>1, ComingIs
    <3>3. i \in 1 .. Len(rQ')
      BY <1>4, <2>1, <2>3
    <3>4. Coming'[i] = rQ'[i]
      BY <1>3, <1>4, <3>3, ComingNext
    <3> QED
      BY <1>4, <3>1, <3>2, <3>4
  <2>4. CASE i > Len(rQ) + n
    <3>1. PICK k \in 1 .. Len(net') : i = k + Len(rQ')
      <4>1. i - Len(rQ') \in 1 .. Len(net')
        BY <1>3, <1>4, <2>1, <2>4
      <4> QED
        BY <1>4, <2>1, <4>1
    <3>2. Coming'[k + Len(rQ')] = net'[k]
      BY <1>3, <1>4, ComingNext
    <3>3. k + n \in 1 .. Len(net)
      BY <1>3, <2>1
    <3>4. Coming[(k + n) + Len(rQ)] = net[k + n]
      BY <3>3, ComingIs
    <3>5. (k + n) + Len(rQ) = i
      BY <1>4, <2>1, <3>1
    <3> QED
      BY <1>3, <3>1, <3>2, <3>4, <3>5
  <2> QED
    BY <2>1, <2>2, <2>3, <2>4
<1>7. Coming' = Coming
  BY <1>5, <1>6
<1>8. rQ' # <<>>
  BY <1>4
<1> QED
  BY <1>3, <1>4, <1>7, <1>8 DEF Receive

-----------------------------------------------------------------------------
(* The link.  disconnect() and _fail take it down, and tell when it is.    *)
LEMMA GoingDown ==
  ASSUME NEW l \in Links, l.conn \in {"connecting", "connected"}
  PROVE  LET m == Update(l, "disconnecting") IN
         /\ m \in Links /\ m.conn = "disconnecting" /\ ~m.grabbed /\ m.timer
         /\ m.sock \in {"closed", "closing"}
         /\ m.reports = l.reports /\ m.clean = l.clean
<1> DEFINE next == [l EXCEPT !.conn = "disconnecting"]
           m == Update(l, "disconnecting")
<1>1. m = TearDown(next)
  BY DEF Update, Transitions
<1>2. next \in Links
  BY DEF Links, States
<1>3. /\ next.conn = "disconnecting"
      /\ next.reports = l.reports /\ next.clean = l.clean
  BY DEF Links
<1> HIDE DEF next
<1>4. m \in Links
  BY <1>1, <1>2, TearDownConn
<1> QED
  BY <1>1, <1>2, <1>3, <1>4 DEF TearDown, Links

(* The end is told with what the session knows of how it came.             *)
LEMMA TheEnd ==
  ASSUME NEW l \in Links, l.conn = "disconnecting", Len(l.reports) = 0
  PROVE  LET m == Update(l, "disconnected") IN
         /\ m \in Links /\ m.conn = "disconnected" /\ ~m.timer
         /\ m.grabbed = l.grabbed /\ m.sock = l.sock /\ m.clean = l.clean
         /\ m.closeOn => ~l.timer
         /\ Len(m.reports) = 1 /\ m.reports[1] = l.clean
<1> DEFINE calm == IF l.timer THEN [l EXCEPT !.timer = FALSE, !.closeOn = FALSE] ELSE l
           next == [calm EXCEPT !.conn = "disconnected"]
           m == Update(l, "disconnected")
<1>1. m = [next EXCEPT !.reports = Append(@, l.clean)]
  BY DEF Update, Transitions
<1>2. calm \in Links
  BY DEF Links
<1>3. /\ calm.grabbed = l.grabbed /\ calm.sock = l.sock /\ calm.clean = l.clean
      /\ calm.reports = l.reports /\ ~calm.timer
      /\ calm.closeOn => ~l.timer
  BY DEF Links
<1> HIDE DEF calm
<1>4. next \in Links /\ next.conn = "disconnected"
  BY <1>2 DEF Links, States
<1>5. /\ next.grabbed = calm.grabbed /\ next.sock = calm.sock /\ next.clean = calm.clean
      /\ next.reports = calm.reports /\ next.timer = calm.timer
      /\ next.closeOn = calm.closeOn
  BY <1>2 DEF Links
<1> HIDE DEF next
<1>6. l.clean \in BOOLEAN /\ next.reports \in Seq(BOOLEAN) /\ Len(next.reports) = 0
  BY <1>3, <1>4, <1>5 DEF Links
<1>7. Len(Append(next.reports, l.clean)) = 1 /\ Append(next.reports, l.clean)[1] = l.clean
  BY <1>6
<1>8. m \in Links /\ m.conn = "disconnected"
  BY <1>1, <1>4, <1>6, ReportConn
<1>9. /\ m.reports = Append(next.reports, l.clean)
      /\ m.grabbed = next.grabbed /\ m.sock = next.sock /\ m.clean = next.clean
      /\ m.timer = next.timer /\ m.closeOn = next.closeOn
  BY <1>1, <1>4 DEF Links
<1> QED
  BY <1>3, <1>5, <1>7, <1>8, <1>9

(* _fail, of a session that has not ended.                                 *)
LEMMA FailedFits ==
  ASSUME NEW l \in Links, LinkFits(l), l.conn \in {"connecting", "connected"}
  PROVE  LinkFits(Failed(l))
<1> DEFINE foul == [l EXCEPT !.clean = FALSE]
           going == Update(foul, "disconnecting")
<1>1. foul \in Links /\ foul.conn = l.conn /\ foul.reports = l.reports
  BY DEF Links
<1>2. Len(l.reports) = 0
  BY DEF LinkFits, Told
<1> HIDE DEF foul
<1>3. /\ going \in Links /\ going.conn = "disconnecting" /\ ~going.grabbed /\ going.timer
      /\ going.sock \in {"closed", "closing"} /\ going.reports = foul.reports
  BY <1>1, GoingDown
<1> HIDE DEF going
<1>4. Failed(l) = Update(going, "disconnected")
  BY DEF Failed, going, foul
<1>5. Len(going.reports) = 0
  BY <1>1, <1>2, <1>3
<1>6. /\ Failed(l).conn = "disconnected" /\ ~Failed(l).timer /\ ~Failed(l).grabbed
      /\ Failed(l).sock = going.sock /\ ~Failed(l).closeOn
      /\ Len(Failed(l).reports) = 1 /\ Failed(l).reports[1] = going.clean
      /\ Failed(l).clean = going.clean
  BY <1>3, <1>4, <1>5, TheEnd
<1> QED
  BY <1>3, <1>6 DEF LinkFits, Told

(* disconnect(), in every state.                                           *)
LEMMA DownFits ==
  ASSUME NEW l \in Links, LinkFits(l)
  PROVE  LinkFits(Update(l, "disconnecting"))
<1> DEFINE m == Update(l, "disconnecting")
<1>1. CASE l.conn \in {"connecting", "connected"}
  <2>1. /\ m.conn = "disconnecting" /\ ~m.grabbed /\ m.sock \in {"closed", "closing"}
        /\ m.reports = l.reports
    BY <1>1, GoingDown
  <2> QED
    BY <1>1, <2>1 DEF LinkFits, Told
<1>2. CASE l.conn \notin {"connecting", "connected"}
  <2>1. m = l
    BY <1>2 DEF Update, Transitions
  <2> QED
    BY <2>1
<1> QED
  BY <1>1, <1>2

(* The timer, that runs only while the session goes down.                  *)
LEMMA TimeoutFits ==
  ASSUME NEW l \in Links, LinkFits(l), l.timer
  PROVE  LinkFits(Update(l, "disconnected"))
<1> DEFINE m == Update(l, "disconnected")
<1>1. l.conn = "disconnecting" /\ Len(l.reports) = 0 /\ ~l.grabbed
      /\ l.sock \in {"closing", "closed"}
  BY DEF LinkFits, Told
<1>2. /\ m.conn = "disconnected" /\ ~m.timer /\ m.grabbed = l.grabbed /\ m.sock = l.sock
      /\ m.clean = l.clean /\ ~m.closeOn /\ Len(m.reports) = 1 /\ m.reports[1] = l.clean
  BY <1>1, TheEnd
<1> QED
  BY <1>1, <1>2 DEF LinkFits, Told

(* The close handler, which is off once the end is told.                   *)
LEMMA OnCloseFits ==
  ASSUME NEW l \in Links, l.sock = "closed", l.closeOn, l.conn # "disconnected",
         Len(l.reports) = 0, l.conn = "disconnecting" => ~l.grabbed
  PROVE  LET m == OnClose(l) IN
         /\ m \in Links /\ m.conn = "disconnected" /\ ~m.timer /\ ~m.grabbed
         /\ m.sock \in {"closed", "closing"}
         /\ Len(m.reports) = 1 /\ m.reports[1] = m.clean
<1>1. l.conn \in {"connecting", "connected", "disconnecting"}
  BY DEF Links, States
<1>2. CASE l.conn = "disconnecting"
  <2>1. OnClose(l) = Update(l, "disconnected")
    BY <1>2 DEF OnClose
  <2> QED
    BY <1>2, <2>1, TheEnd
<1>3. CASE l.conn = "connected"
  <2> DEFINE going == Update(l, "disconnecting")
  <2>1. /\ going \in Links /\ going.conn = "disconnecting" /\ ~going.grabbed
        /\ going.sock \in {"closed", "closing"} /\ Len(going.reports) = 0
    BY <1>3, GoingDown
  <2>2. OnClose(l) = Update(going, "disconnected")
    BY <1>3 DEF OnClose
  <2> HIDE DEF going
  <2> QED
    BY <2>1, <2>2, TheEnd
<1>4. CASE l.conn = "connecting"
  <2> DEFINE foul == [l EXCEPT !.clean = FALSE]
             going == Update(foul, "disconnecting")
  <2>1. foul \in Links /\ foul.conn = l.conn /\ foul.reports = l.reports
    BY DEF Links
  <2>2. OnClose(l) = Update(going, "disconnected")
    BY <1>4 DEF OnClose, Failed
  <2> HIDE DEF foul
  <2>3. /\ going \in Links /\ going.conn = "disconnecting" /\ ~going.grabbed
        /\ going.sock \in {"closed", "closing"} /\ Len(going.reports) = 0
    BY <1>4, <2>1, GoingDown
  <2> HIDE DEF going
  <2> QED
    BY <2>2, <2>3, TheEnd
<1> QED
  BY <1>1, <1>2, <1>3, <1>4

-----------------------------------------------------------------------------
(* What the server writes, from the k-th cell on.                          *)
IsReason(c, k) ==
  /\ c[k].role = "reasonLen"
  /\ IF c[k].val = "0" THEN Len(c) = k
     ELSE Len(c) = k + 1 /\ c[k + 1].role = "reason"

IsResult(c, k) ==
  /\ c[k].role = "result"
  /\ IF c[k].val = "0" \/ version # "3.8" THEN Len(c) = k ELSE IsReason(c, k + 1)

IsAuths(c, k) ==
  /\ c[k].role = "nauths"
  /\ IF c[k].val = "0" THEN IsResult(c, k + 1)
     ELSE Len(c) = k + 1 /\ c[k + 1].role = "auths"

(* Cells are made of names and values.                                     *)
LEMMA CellTyped == \A r \in Names, v \in Vals : Cell(r, v) \in Cells
BY DEF Cell, Cells

(* The plain values.                                                       *)
LEMMA PlainVals ==
  /\ "0" \in Vals /\ "1" \in Vals /\ "0.1" \in Vals /\ "0.2" \in Vals
  /\ "none" \in Vals /\ "vnc" \in Vals /\ "other" \in Vals /\ "repeater" \in Vals
BY DEF Vals

(* A cell put before others moves them up.                                 *)
LEMMA CellFirst ==
  ASSUME NEW a \in Cells, NEW d \in Seq(Cells), NEW c, c = <<a>> \o d
  PROVE  /\ c \in Seq(Cells) /\ Len(c) = Len(d) + 1 /\ c[1] = a
         /\ \A i \in 1 .. Len(d) : c[i + 1] = d[i]
<1>1. <<a>> \in Seq(Cells) /\ Len(<<a>>) = 1 /\ <<a>>[1] = a
  OBVIOUS
<1>2. c \in Seq(Cells) /\ Len(c) = Len(d) + 1 /\ c[1] = a
  BY <1>1
<1>3. ASSUME NEW i \in 1 .. Len(d) PROVE c[i + 1] = d[i]
  BY <1>1
<1> QED
  BY <1>2, <1>3

(* What comes after it is still what it was.                               *)
LEMMA MovedUp ==
  ASSUME NEW a \in Cells, NEW d \in Seq(Cells), NEW c, c = <<a>> \o d
  PROVE  /\ IsReason(d, 1) => IsReason(c, 2)
         /\ IsResult(d, 1) => IsResult(c, 2)
         /\ IsAuths(d, 1) => IsAuths(c, 2)
<1>1. /\ Len(c) = Len(d) + 1 /\ Len(d) \in Nat
      /\ \A i \in 1 .. Len(d) : c[i + 1] = d[i]
  BY CellFirst
<1>2. /\ Len(d) >= 1 => c[2] = d[1]
      /\ Len(d) >= 2 => c[3] = d[2]
      /\ Len(d) >= 3 => c[4] = d[3]
      /\ Len(d) >= 4 => c[5] = d[4]
  <2>1. /\ Len(d) >= 1 => 1 \in 1 .. Len(d)
        /\ Len(d) >= 2 => 2 \in 1 .. Len(d)
        /\ Len(d) >= 3 => 3 \in 1 .. Len(d)
        /\ Len(d) >= 4 => 4 \in 1 .. Len(d)
    BY <1>1
  <2> QED
    BY <1>1, <2>1
<1>a. ASSUME NEW k \in Nat \ {0}, IsReason(d, k) PROVE IsReason(c, k + 1)
  <2>1. k \in 1 .. Len(d) /\ c[k + 1] = d[k]
    BY <1>1, <1>a DEF IsReason
  <2>2. CASE d[k].val = "0"
    BY <1>1, <1>a, <2>1, <2>2 DEF IsReason
  <2>3. CASE d[k].val # "0"
    <3>1. Len(d) = k + 1 /\ d[k + 1].role = "reason"
      BY <1>a, <2>3 DEF IsReason
    <3>2. c[(k + 1) + 1] = d[k + 1] /\ Len(c) = (k + 1) + 1
      BY <1>1, <3>1
    <3> QED
      BY <1>a, <2>1, <2>3, <3>1, <3>2 DEF IsReason
  <2> QED
    BY <2>2, <2>3
<1>3. IsReason(d, 1) => IsReason(c, 2)
  BY <1>a
<1>4. IsReason(d, 2) => IsReason(c, 3)
  BY <1>a
<1>5. IsReason(d, 3) => IsReason(c, 4)
  BY <1>a
<1>6. /\ IsResult(d, 1) => Len(d) >= 1
      /\ IsResult(d, 2) => Len(d) >= 2
      /\ IsAuths(d, 1) => Len(d) >= 1
  BY <1>1 DEF IsResult, IsReason, IsAuths
<1>7. IsResult(d, 1) => IsResult(c, 2)
  BY <1>1, <1>2, <1>4, <1>6 DEF IsResult
<1>8. IsResult(d, 2) => IsResult(c, 3)
  BY <1>1, <1>2, <1>5, <1>6 DEF IsResult
<1>9. IsAuths(d, 1) => IsAuths(c, 2)
  BY <1>1, <1>2, <1>6, <1>8 DEF IsAuths
<1> QED
  BY <1>3, <1>7, <1>9

(* The reason for a refusal, with or without a text.                       *)
LEMMA RefusalIs == \A c \in Refusal : c \in Seq(Cells) /\ IsReason(c, 1)
<1> SUFFICES ASSUME NEW c \in Refusal PROVE c \in Seq(Cells) /\ IsReason(c, 1)
  OBVIOUS
<1>1. /\ Cell("reasonLen", "0") \in Cells /\ Cell("reasonLen", "1") \in Cells
      /\ Cell("reason", "1") \in Cells
  BY CellTyped, PlainVals DEF Names
<1>2. c \in Seq(Cells)
  <2>1. \/ c = <<Cell("reasonLen", "0")>>
        \/ c = <<Cell("reasonLen", "1"), Cell("reason", "1")>>
    BY DEF Refusal
  <2>2. CASE c = <<Cell("reasonLen", "0")>>
    BY <1>1, <2>2
  <2>3. CASE c = <<Cell("reasonLen", "1"), Cell("reason", "1")>>
    BY <1>1, <2>3
  <2> QED
    BY <2>1, <2>2, <2>3
<1>3. IsReason(c, 1)
  BY DEF Refusal, IsReason, Cell
<1> QED
  BY <1>2, <1>3

(* The result of a security type.                                          *)
LEMMA ResultIs == \A c \in Result : c \in Seq(Cells) /\ IsResult(c, 1)
<1> SUFFICES ASSUME NEW c \in Result PROVE c \in Seq(Cells) /\ IsResult(c, 1)
  OBVIOUS
<1>1. Cell("result", "0") \in Cells /\ Cell("result", "1") \in Cells
  BY CellTyped, PlainVals DEF Names
<1>2. CASE c = <<Cell("result", "0")>>
  BY <1>1, <1>2 DEF IsResult, Cell
<1>3. CASE c # <<Cell("result", "0")>> /\ version = "3.8"
  <2>1. PICK d \in Refusal : c = <<Cell("result", "1")>> \o d
    BY <1>3 DEF Result, After
  <2>2. d \in Seq(Cells) /\ IsReason(d, 1)
    BY RefusalIs
  <2>3. c \in Seq(Cells) /\ c[1] = Cell("result", "1") /\ IsReason(c, 2)
    BY <1>1, <2>1, <2>2, CellFirst, MovedUp, Zenon
  <2> QED
    BY <1>3, <2>3 DEF IsResult, Cell
<1>4. CASE c # <<Cell("result", "0")>> /\ version # "3.8"
  <2>1. c = <<Cell("result", "1")>> \o <<>>
    BY <1>4 DEF Result, After
  <2>2. c \in Seq(Cells) /\ c[1] = Cell("result", "1") /\ Len(c) = 1
    <3>1. <<>> \in Seq(Cells) /\ Len(<<>>) = 0
      OBVIOUS
    <3> QED
      BY <1>1, <2>1, <3>1, CellFirst
  <2> QED
    BY <1>4, <2>2 DEF IsResult, Cell
<1> QED
  BY <1>2, <1>3, <1>4

(* The types of a Tight server.                                            *)
LEMMA AuthsIs == \A c \in TightAuths : c \in Seq(Cells) /\ IsAuths(c, 1)
<1> SUFFICES ASSUME NEW c \in TightAuths PROVE c \in Seq(Cells) /\ IsAuths(c, 1)
  OBVIOUS
<1>1. CASE c \in After(<<Cell("nauths", "0")>>, Result)
  <2>1. PICK d \in Result : c = <<Cell("nauths", "0")>> \o d
    BY <1>1 DEF After
  <2>2. d \in Seq(Cells) /\ IsResult(d, 1) /\ Cell("nauths", "0") \in Cells
    BY ResultIs, CellTyped, PlainVals DEF Names
  <2>3. c \in Seq(Cells) /\ c[1] = Cell("nauths", "0") /\ IsResult(c, 2)
    BY <2>1, <2>2, CellFirst, MovedUp, Zenon
  <2> QED
    BY <2>3 DEF IsAuths, Cell
<1>2. CASE c \notin After(<<Cell("nauths", "0")>>, Result)
  <2>1. PICK types \in SubOffers["tight"] : c = <<Cell("nauths", "1"), Cell("auths", types)>>
    BY <1>2 DEF TightAuths
  <2>2. Cell("nauths", "1") \in Cells /\ Cell("auths", types) \in Cells
    <3>1. types \in Vals
      BY DEF Vals
    <3> QED
      BY <3>1, CellTyped, PlainVals DEF Names
  <2>3. c \in Seq(Cells)
    BY <2>1, <2>2
  <2>4. IsAuths(c, 1)
    BY <2>1 DEF IsAuths, Cell
  <2> QED
    BY <2>3, <2>4
<1> QED
  BY <1>1, <1>2

\* The cells are these fields, no more and no fewer.
Spelt(c, roles) == Len(c) = Len(roles) /\ \A i \in 1 .. Len(c) : c[i].role = roles[i]

(* Cells that are what is due, whole, for each way to go on.               *)
LEMMA SpeltParts ==
  ASSUME NEW c \in Seq(Cells)
  PROVE  /\ IsReason(c, 1) => Spelt(c, ReasonRoles(c))
         /\ IsResult(c, 1) => Spelt(c, ResultRoles(c))
         /\ IsAuths(c, 1) => Spelt(c, TightRoles(c))
         /\ c[1].role = "ntunnels" /\ c[1].val = "0" /\ IsAuths(c, 2) => Spelt(c, TunnelRoles(c))
<1>1. Len(c) \in Nat /\ DOMAIN c = 1 .. Len(c)
  OBVIOUS
<1>2. ASSUME IsReason(c, 1) PROVE Spelt(c, ReasonRoles(c))
  BY <1>1, <1>2 DEF IsReason, Spelt, ReasonRoles, Val
<1>v. \A i \in 1 .. Len(c) : Val(c, i) = c[i].val
  BY <1>1 DEF Val
<1>3. ASSUME IsResult(c, 1) PROVE Spelt(c, ResultRoles(c))
  <2>1. c[1].role = "result" /\ Len(c) >= 1 /\ Val(c, 1) = c[1].val
    BY <1>1, <1>v, <1>3 DEF IsResult, IsReason
  <2>2. CASE c[1].val = "0" \/ version # "3.8"
    <3>1. ResultRoles(c) = <<"result">> /\ Len(c) = 1
      BY <1>3, <2>1, <2>2 DEF ResultRoles, IsResult
    <3> QED
      BY <2>1, <3>1 DEF Spelt
  <2>3. CASE c[1].val # "0" /\ version = "3.8"
    <3>1. c[2].role = "reasonLen" /\ Len(c) >= 2 /\ IsReason(c, 2)
      BY <1>3, <2>3 DEF IsResult, IsReason
    <3>2. Val(c, 2) = c[2].val
      BY <1>1, <3>1 DEF Val
    <3>3. CASE c[2].val = "0"
      <4>1. ResultRoles(c) = <<"result", "reasonLen">> /\ Len(c) = 2
        BY <2>1, <2>3, <3>1, <3>2, <3>3 DEF ResultRoles, IsReason
      <4> QED
        BY <2>1, <3>1, <4>1 DEF Spelt
    <3>4. CASE c[2].val # "0"
      <4>1. /\ ResultRoles(c) = <<"result", "reasonLen", "reason">>
            /\ Len(c) = 3 /\ c[3].role = "reason"
        BY <2>1, <2>3, <3>1, <3>2, <3>4 DEF ResultRoles, IsReason
      <4> QED
        BY <2>1, <3>1, <4>1 DEF Spelt
    <3> QED
      BY <3>3, <3>4
  <2> QED
    BY <2>2, <2>3
<1>4. ASSUME IsAuths(c, 1) PROVE Spelt(c, TightRoles(c))
  <2>1. c[1].role = "nauths" /\ Len(c) >= 2
    BY <1>1, <1>4 DEF IsAuths, IsResult, IsReason
  <2>2. Val(c, 1) = c[1].val /\ Val(c, 2) = c[2].val
    <3>1. 1 \in 1 .. Len(c) /\ 2 \in 1 .. Len(c)
      BY <1>1, <2>1
    <3> QED
      BY <1>v, <3>1
  <2>3. CASE c[1].val # "0"
    <3>1. TightRoles(c) = <<"nauths", "auths">>
      BY <2>2, <2>3 DEF TightRoles
    <3>2. Len(c) = 2 /\ c[2].role = "auths"
      BY <1>4, <2>3 DEF IsAuths
    <3> QED
      BY <2>1, <3>1, <3>2 DEF Spelt
  <2>4. CASE c[1].val = "0" /\ (c[2].val = "0" \/ version # "3.8")
    <3>1. TightRoles(c) = <<"nauths", "result">>
      BY <2>2, <2>4 DEF TightRoles
    <3>2. Len(c) = 2 /\ c[2].role = "result"
      BY <1>4, <2>4 DEF IsAuths, IsResult
    <3> QED
      BY <2>1, <3>1, <3>2 DEF Spelt
  <2>5. CASE c[1].val = "0" /\ c[2].val # "0" /\ version = "3.8"
    <3>1. c[2].role = "result" /\ IsReason(c, 3)
      BY <1>4, <2>5 DEF IsAuths, IsResult
    <3>2. c[3].role = "reasonLen" /\ Len(c) >= 3
      BY <3>1 DEF IsReason
    <3>3. Val(c, 3) = c[3].val
      BY <1>1, <3>2 DEF Val
    <3>4. CASE c[3].val = "0"
      <4>1. TightRoles(c) = <<"nauths", "result", "reasonLen">> /\ Len(c) = 3
        BY <2>2, <2>5, <3>1, <3>3, <3>4 DEF TightRoles, IsReason
      <4> QED
        BY <2>1, <3>1, <3>2, <4>1 DEF Spelt
    <3>5. CASE c[3].val # "0"
      <4>1. /\ TightRoles(c) = <<"nauths", "result", "reasonLen", "reason">>
            /\ Len(c) = 4 /\ c[4].role = "reason"
        BY <2>2, <2>5, <3>1, <3>3, <3>5 DEF TightRoles, IsReason
      <4> QED
        BY <2>1, <3>1, <3>2, <4>1 DEF Spelt
    <3> QED
      BY <3>4, <3>5
  <2> QED
    BY <2>3, <2>4, <2>5
<1>5. ASSUME c[1].role = "ntunnels", c[1].val = "0", IsAuths(c, 2)
      PROVE  Spelt(c, TunnelRoles(c))
  <2>1. c[2].role = "nauths" /\ Len(c) >= 3
    BY <1>1, <1>5 DEF IsAuths, IsResult, IsReason
  <2>2. Val(c, 1) = "0" /\ Val(c, 2) = c[2].val /\ Val(c, 3) = c[3].val
    <3>1. 1 \in 1 .. Len(c) /\ 2 \in 1 .. Len(c) /\ 3 \in 1 .. Len(c)
      BY <1>1, <2>1
    <3> QED
      BY <1>v, <1>5, <3>1
  <2>3. CASE c[2].val # "0"
    <3>1. TunnelRoles(c) = <<"ntunnels", "nauths", "auths">>
      BY <2>2, <2>3 DEF TunnelRoles
    <3>2. Len(c) = 3 /\ c[3].role = "auths"
      BY <1>5, <2>3 DEF IsAuths
    <3> QED
      BY <1>5, <2>1, <3>1, <3>2 DEF Spelt
  <2>4. CASE c[2].val = "0" /\ (c[3].val = "0" \/ version # "3.8")
    <3>1. TunnelRoles(c) = <<"ntunnels", "nauths", "result">>
      BY <2>2, <2>4 DEF TunnelRoles
    <3>2. Len(c) = 3 /\ c[3].role = "result"
      BY <1>5, <2>4 DEF IsAuths, IsResult
    <3> QED
      BY <1>5, <2>1, <3>1, <3>2 DEF Spelt
  <2>5. CASE c[2].val = "0" /\ c[3].val # "0" /\ version = "3.8"
    <3>1. c[3].role = "result" /\ IsReason(c, 4)
      BY <1>5, <2>5 DEF IsAuths, IsResult
    <3>2. c[4].role = "reasonLen" /\ Len(c) >= 4
      BY <3>1 DEF IsReason
    <3>3. Val(c, 4) = c[4].val
      BY <1>1, <3>2 DEF Val
    <3>4. CASE c[4].val = "0"
      <4>1. TunnelRoles(c) = <<"ntunnels", "nauths", "result", "reasonLen">> /\ Len(c) = 4
        BY <2>2, <2>5, <3>1, <3>3, <3>4 DEF TunnelRoles, IsReason
      <4> QED
        BY <1>5, <2>1, <3>1, <3>2, <4>1 DEF Spelt
    <3>5. CASE c[4].val # "0"
      <4>1. /\ TunnelRoles(c) = <<"ntunnels", "nauths", "result", "reasonLen", "reason">>
            /\ Len(c) = 5 /\ c[5].role = "reason"
        BY <2>2, <2>5, <3>1, <3>3, <3>5 DEF TunnelRoles, IsReason
      <4> QED
        BY <1>5, <2>1, <3>1, <3>2, <4>1 DEF Spelt
    <3> QED
      BY <3>4, <3>5
  <2> QED
    BY <2>3, <2>4, <2>5
<1> QED
  BY <1>2, <1>3, <1>4, <1>5

\* What the server owes the client, and no more.
Due(c) == c \in Seq(Cells) /\ Fits(c) /\ Whole(c)

(* What is spelt as the client reads it is due.                            *)
LEMMA SpeltDue ==
  ASSUME NEW c \in Seq(Cells), Spelt(c, Roles(c)),
         init = "Security" /\ version \notin New /\ Len(c) > 0
           => c[1].val \in {"0", "none", "vnc", "other"}
  PROVE  Due(c)
BY DEF Due, Fits, Whole, Spelt

(* The opening of the security type that is in charge.                     *)
LEMMA OpeningDue ==
  ASSUME Standing, init = "Authentication", stage = 0, pending # "ard",
         ~(scheme = "tight" /\ tight), NEW c \in Opening(scheme)
  PROVE  Due(c)
<1> SUFFICES c \in Seq(Cells) /\ Spelt(c, AuthRoles(c))
  <2>1. Roles(c) = AuthRoles(c)
    BY DEF Roles
  <2> QED
    BY <2>1, SpeltDue
<1>1. scheme \in Supported \union {"unix", "other"}
  BY DEF Standing
<1>2. CASE scheme = "none"
  <2>1. ~tight
    BY <1>2 DEF Standing
  <2>2. CASE version = "3.8"
    <3>1. c \in Result /\ AuthRoles(c) = ResultRoles(c)
      BY <1>2, <2>2 DEF Opening, AuthRoles
    <3> QED
      BY <3>1, ResultIs, SpeltParts
  <2>3. CASE version # "3.8"
    <3>1. c = <<>> /\ AuthRoles(c) = <<>>
      BY <1>2, <2>1, <2>3 DEF Opening, AuthRoles
    <3> QED
      BY <3>1 DEF Spelt
  <2> QED
    BY <2>2, <2>3
<1>3. CASE scheme \in {"vnc", "mslogon"}
  <2>1. c = <<Cell("challenge", "1")>> /\ AuthRoles(c) = <<"challenge">>
    BY <1>3 DEF Opening, AuthRoles, Challenge
  <2>2. Cell("challenge", "1") \in Cells
    BY CellTyped, PlainVals DEF Names
  <2> QED
    BY <2>1, <2>2 DEF Spelt, Cell
<1>4. CASE scheme = "ard"
  <2>1. c = <<Cell("ardHead", "1"), Cell("ardKeys", "1")>> /\ AuthRoles(c) = <<"ardHead", "ardKeys">>
    BY <1>4 DEF Opening, AuthRoles
  <2>2. Cell("ardHead", "1") \in Cells /\ Cell("ardKeys", "1") \in Cells
    BY CellTyped, PlainVals DEF Names
  <2> QED
    BY <2>1, <2>2 DEF Spelt, Cell
<1>5. CASE scheme = "ra2"
  <2>1. PICK v \in {"0", "1"} : c = <<Cell("keyLen", v), Cell("key", "1")>>
    BY <1>5 DEF Opening
  <2>2. Cell("keyLen", v) \in Cells /\ Cell("key", "1") \in Cells
    BY CellTyped, PlainVals DEF Names
  <2>3. AuthRoles(c) = <<"keyLen", "key">>
    BY <1>5 DEF AuthRoles, Ra2Roles
  <2> QED
    BY <2>1, <2>2, <2>3 DEF Spelt, Cell
<1>6. CASE scheme = "vencrypt"
  <2>1. \/ c = <<Cell("vcVersion", "0.1")>>
        \/ c = <<Cell("vcVersion", "0.2")>>
    BY <1>6 DEF Opening
  <2>2. AuthRoles(c) = <<"vcVersion">>
    BY <1>6 DEF AuthRoles, VeNCryptRoles
  <2>3. Cell("vcVersion", "0.1") \in Cells /\ Cell("vcVersion", "0.2") \in Cells
    BY CellTyped, PlainVals DEF Names
  <2>4. c \in Seq(Cells)
    <3>1. <<Cell("vcVersion", "0.1")>> \in Seq(Cells) /\ <<Cell("vcVersion", "0.2")>> \in Seq(Cells)
      BY <2>3
    <3> QED
      BY <2>1, <3>1
  <2>5. Spelt(c, <<"vcVersion">>)
    BY <2>1 DEF Spelt, Cell
  <2> QED
    BY <2>2, <2>4, <2>5
<1>7. CASE scheme = "tight"
  <2>1. ~tight /\ AuthRoles(c) = TunnelRoles(c)
    BY <1>7 DEF AuthRoles
  <2>2. CASE c \in After(<<Cell("ntunnels", "0")>>, TightAuths)
    <3>1. PICK d \in TightAuths : c = <<Cell("ntunnels", "0")>> \o d
      BY <2>2 DEF After
    <3>2. d \in Seq(Cells) /\ IsAuths(d, 1) /\ Cell("ntunnels", "0") \in Cells
      BY AuthsIs, CellTyped, PlainVals DEF Names
    <3>3. c \in Seq(Cells) /\ c[1] = Cell("ntunnels", "0") /\ IsAuths(c, 2)
      BY <3>1, <3>2, CellFirst, MovedUp, Zenon
    <3>4. c[1].role = "ntunnels" /\ c[1].val = "0"
      BY <3>3 DEF Cell
    <3> QED
      BY <2>1, <3>3, <3>4, SpeltParts
  <2>3. CASE c \notin After(<<Cell("ntunnels", "0")>>, TightAuths)
    <3>1. PICK v \in {"0", "1"} : c = <<Cell("ntunnels", "1"), Cell("tunnels", v)>>
      BY <1>7, <2>3 DEF Opening
    <3>2. Cell("ntunnels", "1") \in Cells /\ Cell("tunnels", v) \in Cells
      BY CellTyped, PlainVals DEF Names
    <3>3. c \in Seq(Cells)
      BY <3>1, <3>2
    <3>4. Val(c, 1) = "1"
      BY <3>1 DEF Val, Cell
    <3>5. TunnelRoles(c) = <<"ntunnels", "tunnels">>
      BY <3>4 DEF TunnelRoles
    <3> QED
      BY <2>1, <3>1, <3>3, <3>5 DEF Spelt, Cell
  <2> QED
    BY <2>2, <2>3
<1>8. CASE scheme \in {"xvp", "plain", "unix", "other"}
  <2>1. c = <<>> /\ AuthRoles(c) = <<>>
    BY <1>8 DEF Opening, AuthRoles
  <2> QED
    BY <2>1 DEF Spelt
<1> QED
  BY <1>1, <1>2, <1>3, <1>4, <1>5, <1>6, <1>7, <1>8 DEF Supported

(* A list that nothing is due after is due where nothing is.               *)
LEMMA NothingDue == Roles(<<>>) = <<>> => Due(<<>>)
<1>1. Len(<<>>) = 0 /\ <<>> \in Seq(Cells)
  OBVIOUS
<1> QED
  BY <1>1 DEF Due, Fits, Whole

(* What the server answers to the version it was sent.                     *)
LEMMA SecurityDue ==
  ASSUME Standing, init = "Security", NEW l, l[1] = "version", NEW c \in Answer(l)
  PROVE  Due(c)
<1>1. CASE version \in New
  <2>1. Answer(l) = {<<Cell("ntypes", "1"), Cell("types", types)>> : types \in Offers}
                    \union After(<<Cell("ntypes", "0")>>, Refusal)
    BY <1>1 DEF Answer
  <2> SUFFICES c \in Seq(Cells) /\ Spelt(c, SecurityRoles(c))
    <3>1. Roles(c) = SecurityRoles(c)
      BY DEF Roles
    <3> QED
      BY <1>1, <3>1, SpeltDue
  <2>2. CASE c \in After(<<Cell("ntypes", "0")>>, Refusal)
    <3>1. PICK d \in Refusal : c = <<Cell("ntypes", "0")>> \o d
      BY <2>2 DEF After
    <3>2. d \in Seq(Cells) /\ IsReason(d, 1) /\ Cell("ntypes", "0") \in Cells
      BY RefusalIs, CellTyped, PlainVals DEF Names
    <3>3. c \in Seq(Cells) /\ c[1] = Cell("ntypes", "0") /\ IsReason(c, 2)
      BY <3>1, <3>2, CellFirst, MovedUp, Zenon
    <3>4. c[1].role = "ntypes" /\ c[1].val = "0"
      BY <3>3 DEF Cell
    <3>5. c[2].role = "reasonLen" /\ Len(c) >= 2
      BY <3>3 DEF IsReason
    <3>6. Val(c, 1) = "0" /\ Val(c, 2) = c[2].val
      <4>1. 1 \in DOMAIN c /\ 2 \in DOMAIN c
        BY <3>3, <3>5
      <4> QED
        BY <3>4, <4>1 DEF Val
    <3>7. CASE c[2].val = "0"
      <4>1. SecurityRoles(c) = <<"ntypes", "reasonLen">> /\ Len(c) = 2
        BY <1>1, <3>3, <3>6, <3>7 DEF SecurityRoles, IsReason
      <4> QED
        BY <3>3, <3>4, <3>5, <4>1 DEF Spelt
    <3>8. CASE c[2].val # "0"
      <4>1. /\ SecurityRoles(c) = <<"ntypes", "reasonLen", "reason">>
            /\ Len(c) = 3 /\ c[3].role = "reason"
        BY <1>1, <3>3, <3>6, <3>8 DEF SecurityRoles, IsReason
      <4> QED
        BY <3>3, <3>4, <3>5, <4>1 DEF Spelt
    <3> QED
      BY <3>7, <3>8
  <2>3. CASE c \notin After(<<Cell("ntypes", "0")>>, Refusal)
    <3>1. PICK types \in Offers : c = <<Cell("ntypes", "1"), Cell("types", types)>>
      BY <2>1, <2>3
    <3>2. types \in Vals
      BY DEF Vals
    <3>3. Cell("ntypes", "1") \in Cells /\ Cell("types", types) \in Cells
      BY <3>2, CellTyped, PlainVals DEF Names
    <3>4. c \in Seq(Cells)
      BY <3>1, <3>3
    <3>5. Val(c, 1) = "1"
      BY <3>1 DEF Val, Cell
    <3>6. SecurityRoles(c) = <<"ntypes", "types">>
      BY <1>1, <3>5 DEF SecurityRoles
    <3> QED
      BY <3>1, <3>4, <3>6 DEF Spelt, Cell
  <2> QED
    BY <2>2, <2>3
<1>2. CASE version \notin New
  <2>1. Answer(l) = After(<<Cell("scheme", "0")>>, Refusal)
                    \union {<<Cell("scheme", "none")>>, <<Cell("scheme", "other")>>}
                    \union After(<<Cell("scheme", "vnc")>>, Challenge)
    BY <1>2 DEF Answer
  <2> SUFFICES /\ c \in Seq(Cells) /\ Spelt(c, SecurityRoles(c))
               /\ c[1].val \in {"0", "none", "vnc", "other"}
    <3>1. Roles(c) = SecurityRoles(c)
      BY DEF Roles
    <3> QED
      BY <1>2, <3>1, SpeltDue
  <2>2. CASE c \in After(<<Cell("scheme", "0")>>, Refusal)
    <3>1. PICK d \in Refusal : c = <<Cell("scheme", "0")>> \o d
      BY <2>2 DEF After
    <3>2. d \in Seq(Cells) /\ IsReason(d, 1) /\ Cell("scheme", "0") \in Cells
      BY RefusalIs, CellTyped, PlainVals DEF Names
    <3>3. c \in Seq(Cells) /\ c[1] = Cell("scheme", "0") /\ IsReason(c, 2)
      BY <3>1, <3>2, CellFirst, MovedUp, Zenon
    <3>4. c[1].role = "scheme" /\ c[1].val = "0"
      BY <3>3 DEF Cell
    <3>5. c[2].role = "reasonLen" /\ Len(c) >= 2
      BY <3>3 DEF IsReason
    <3>6. Val(c, 1) = "0" /\ Val(c, 2) = c[2].val
      <4>1. 1 \in DOMAIN c /\ 2 \in DOMAIN c
        BY <3>3, <3>5
      <4> QED
        BY <3>4, <4>1 DEF Val
    <3>7. CASE c[2].val = "0"
      <4>1. SecurityRoles(c) = <<"scheme", "reasonLen">> /\ Len(c) = 2
        BY <1>2, <3>3, <3>6, <3>7 DEF SecurityRoles, IsReason
      <4> QED
        BY <3>3, <3>4, <3>5, <4>1 DEF Spelt
    <3>8. CASE c[2].val # "0"
      <4>1. /\ SecurityRoles(c) = <<"scheme", "reasonLen", "reason">>
            /\ Len(c) = 3 /\ c[3].role = "reason"
        BY <1>2, <3>3, <3>6, <3>8 DEF SecurityRoles, IsReason
      <4> QED
        BY <3>3, <3>4, <3>5, <4>1 DEF Spelt
    <3> QED
      BY <3>7, <3>8
  <2>3. CASE c \in {<<Cell("scheme", "none")>>, <<Cell("scheme", "other")>>}
    <3>1. PICK v \in {"none", "other"} : c = <<Cell("scheme", v)>>
      BY <2>3
    <3>2. Cell("scheme", v) \in Cells
      BY CellTyped, PlainVals DEF Names
    <3>3. Val(c, 1) = v
      BY <3>1 DEF Val, Cell
    <3>4. SecurityRoles(c) = <<"scheme">>
      BY <1>2, <3>3 DEF SecurityRoles
    <3> QED
      BY <3>1, <3>2, <3>4 DEF Spelt, Cell
  <2>4. CASE c \in After(<<Cell("scheme", "vnc")>>, Challenge)
    <3>1. c = <<Cell("scheme", "vnc")>> \o <<Cell("challenge", "1")>>
      BY <2>4 DEF After, Challenge
    <3>2. Cell("scheme", "vnc") \in Cells /\ Cell("challenge", "1") \in Cells
      BY CellTyped, PlainVals DEF Names
    <3>3. <<Cell("challenge", "1")>> \in Seq(Cells) /\ Len(<<Cell("challenge", "1")>>) = 1
      BY <3>2
    <3>4. /\ c \in Seq(Cells) /\ Len(c) = 2
          /\ c[1].role = "scheme" /\ c[1].val = "vnc" /\ c[2].role = "challenge"
      <4>1. c \in Seq(Cells)
        BY <3>1, <3>2, <3>3, CellFirst
      <4> QED
        BY <3>1, <4>1 DEF Cell
    <3>5. Val(c, 1) = "vnc"
      <4>1. 1 \in DOMAIN c
        BY <3>4
      <4> QED
        BY <3>4, <4>1 DEF Val
    <3>6. SecurityRoles(c) = <<"scheme", "challenge">>
      BY <1>2, <3>5 DEF SecurityRoles
    <3> QED
      BY <3>4, <3>6 DEF Spelt
  <2> QED
    BY <2>1, <2>2, <2>3, <2>4
<1> QED
  BY <1>1, <1>2

(* What the server answers, wherever the handshake is.                     *)
LEMMA AnswerDue ==
  ASSUME Standing, NEW l, Awaited(l), NEW c \in Answer(l)
  PROVE  Due(c)
<1>1. CASE init = "ProtocolVersion"
  <2>1. l[1] \in {"open", "repeater"}
    BY <1>1 DEF Awaited
  <2>2. PICK v \in Versions \union {"repeater"} : c = <<Cell("version", v)>>
    BY <2>1 DEF Answer
  <2>3. v \in Vals
    BY DEF Vals
  <2>4. Cell("version", v) \in Cells
    BY <2>3, CellTyped DEF Names
  <2>5. Roles(c) = <<"version">>
    BY <1>1 DEF Roles
  <2>6. c \in Seq(Cells) /\ Spelt(c, Roles(c))
    BY <2>2, <2>4, <2>5 DEF Spelt, Cell
  <2> QED
    BY <1>1, <2>6, SpeltDue
<1>2. CASE init = "Security"
  <2>1. l[1] = "version"
    BY <1>2 DEF Awaited
  <2> QED
    BY <1>2, <2>1, SecurityDue
<1>3. CASE init = "SecurityResult"
  <2>1. \/ l[1] \in {"response", "credentials"}
        \/ l[1] = "choice" /\ l[2] = "none" /\ (version = "3.8" \/ tight)
    BY <1>3 DEF Awaited
  <2>2. c \in Result
    BY <2>1 DEF Answer, Opening
  <2>3. Roles(c) = ResultRoles(c)
    BY <1>3 DEF Roles
  <2> QED
    BY <1>3, <2>2, <2>3, ResultIs, SpeltParts, SpeltDue
<1>4. CASE init = "ClientInitialisation"
  <2>1. l[1] = "choice" /\ l[2] = "none" /\ version # "3.8" /\ ~tight
    BY <1>4 DEF Awaited
  <2>2. c = <<>> /\ Roles(<<>>) = <<>>
    BY <1>4, <2>1 DEF Answer, Opening, Roles
  <2> QED
    BY <2>2, NothingDue
<1>5. CASE init = "ServerInitialisation"
  <2>1. l[1] = "clientinit"
    BY <1>5 DEF Awaited
  <2>2. c = <<Cell("init", "1"), Cell("name", "1")>>
            \o (IF tight THEN <<Cell("caps", "1"), Cell("lists", "1")>> ELSE <<>>)
    BY <2>1 DEF Answer
  <2>3. /\ Cell("init", "1") \in Cells /\ Cell("name", "1") \in Cells
        /\ Cell("caps", "1") \in Cells /\ Cell("lists", "1") \in Cells
    BY CellTyped, PlainVals DEF Names
  <2>4. Roles(c) = ServerInit
    BY <1>5 DEF Roles
  <2>5. CASE tight
    <3>1. c = <<Cell("init", "1"), Cell("name", "1")>> \o <<Cell("caps", "1"), Cell("lists", "1")>>
      BY <2>2, <2>5
    <3>2. <<Cell("init", "1"), Cell("name", "1")>> \in Seq(Cells)
      BY <2>3
    <3>3. <<Cell("caps", "1"), Cell("lists", "1")>> \in Seq(Cells)
      BY <2>3
    <3>4. c \in Seq(Cells)
      BY <3>1, <3>2, <3>3
    <3>5. ServerInit = <<"init", "name", "caps", "lists">>
      BY <2>5 DEF ServerInit
    <3>6. Spelt(c, ServerInit)
      BY <3>1, <3>5 DEF Spelt, Cell
    <3> QED
      BY <1>5, <2>4, <3>4, <3>6, SpeltDue
  <2>6. CASE ~tight
    <3>1. c = <<Cell("init", "1"), Cell("name", "1")>> \o <<>>
      BY <2>2, <2>6
    <3>2. <<Cell("init", "1"), Cell("name", "1")>> \in Seq(Cells)
      BY <2>3
    <3>3. c = <<Cell("init", "1"), Cell("name", "1")>>
      BY <3>1, <3>2
    <3>4. ServerInit = <<"init", "name">>
      BY <2>6 DEF ServerInit
    <3>5. Spelt(c, ServerInit)
      BY <3>3, <3>4 DEF Spelt, Cell
    <3> QED
      BY <1>5, <2>4, <3>2, <3>3, <3>5, SpeltDue
  <2> QED
    BY <2>5, <2>6
<1>6. CASE init = "Authentication" /\ stage = 0 /\ pending # "ard"
  <2>1. \/ l[1] = "choice" /\ l[2] = scheme /\ ~(scheme = "tight" /\ tight)
        \/ l[1] = "xvp" /\ scheme = "vnc"
        \/ l[1] = "tunnel" /\ scheme = "tight" /\ tight
    BY <1>6 DEF Awaited
  <2>2. CASE l[1] = "choice" /\ l[2] = scheme /\ ~(scheme = "tight" /\ tight)
    <3>1. c \in Opening(scheme)
      BY <2>2 DEF Answer
    <3> QED
      BY <1>6, <2>2, <3>1, OpeningDue
  <2>3. CASE l[1] = "xvp" /\ scheme = "vnc"
    <3>1. c = <<Cell("challenge", "1")>>
      BY <2>3 DEF Answer, Challenge
    <3>2. Cell("challenge", "1") \in Cells
      BY CellTyped, PlainVals DEF Names
    <3>3. Roles(c) = <<"challenge">>
      BY <1>6, <2>3 DEF Roles, AuthRoles
    <3>4. c \in Seq(Cells) /\ Spelt(c, Roles(c))
      BY <3>1, <3>2, <3>3 DEF Spelt, Cell
    <3> QED
      BY <1>6, <3>4, SpeltDue
  <2>4. CASE l[1] = "tunnel" /\ scheme = "tight" /\ tight
    <3>1. c \in TightAuths
      BY <2>4 DEF Answer
    <3>2. Roles(c) = TightRoles(c)
      BY <1>6, <2>4 DEF Roles, AuthRoles
    <3> QED
      BY <1>6, <3>1, <3>2, AuthsIs, SpeltParts, SpeltDue
  <2> QED
    BY <2>1, <2>2, <2>3, <2>4
<1>7. CASE init = "Authentication" /\ ~(stage = 0 /\ pending # "ard") /\ scheme = "vencrypt"
  <2>1. stage = 1 /\ l[1] = "vcversion"
    BY <1>7 DEF Awaited
  <2>2. \/ c = <<Cell("ack", "1")>>
        \/ c = <<Cell("ack", "0"), Cell("nsubs", "0")>>
        \/ \E types \in SubOffers["vencrypt"] :
             c = <<Cell("ack", "0"), Cell("nsubs", "1"), Cell("subs", types)>>
    BY <2>1 DEF Answer
  <2>3. /\ Cell("ack", "0") \in Cells /\ Cell("ack", "1") \in Cells
        /\ Cell("nsubs", "0") \in Cells /\ Cell("nsubs", "1") \in Cells
    BY CellTyped, PlainVals DEF Names
  <2>4. Roles(c) = VeNCryptRoles(c)
    BY <1>7 DEF Roles, AuthRoles
  <2>5. CASE c = <<Cell("ack", "1")>>
    <3>1. Val(c, 1) = "1"
      BY <2>5 DEF Val, Cell
    <3>2. VeNCryptRoles(c) = <<"ack">>
      BY <2>1, <3>1 DEF VeNCryptRoles
    <3>3. c \in Seq(Cells) /\ Spelt(c, Roles(c))
      BY <2>3, <2>4, <2>5, <3>2 DEF Spelt, Cell
    <3> QED
      BY <1>7, <3>3, SpeltDue
  <2>6. CASE c = <<Cell("ack", "0"), Cell("nsubs", "0")>>
    <3>1. Val(c, 1) = "0" /\ Val(c, 2) = "0"
      BY <2>6 DEF Val, Cell
    <3>2. VeNCryptRoles(c) = <<"ack", "nsubs">>
      BY <2>1, <3>1 DEF VeNCryptRoles
    <3>3. c \in Seq(Cells) /\ Spelt(c, Roles(c))
      BY <2>3, <2>4, <2>6, <3>2 DEF Spelt, Cell
    <3> QED
      BY <1>7, <3>3, SpeltDue
  <2>7. CASE \E types \in SubOffers["vencrypt"] :
               c = <<Cell("ack", "0"), Cell("nsubs", "1"), Cell("subs", types)>>
    <3>1. PICK types \in SubOffers["vencrypt"] :
            c = <<Cell("ack", "0"), Cell("nsubs", "1"), Cell("subs", types)>>
      BY <2>7
    <3>2. types \in Vals
      BY DEF Vals
    <3>3. Cell("subs", types) \in Cells
      BY <3>2, CellTyped DEF Names
    <3>4. Val(c, 1) = "0" /\ Val(c, 2) = "1"
      BY <3>1 DEF Val, Cell
    <3>5. VeNCryptRoles(c) = <<"ack", "nsubs", "subs">>
      BY <2>1, <3>4 DEF VeNCryptRoles
    <3>6. c \in Seq(Cells)
      BY <2>3, <3>1, <3>3
    <3>7. Spelt(c, Roles(c))
      BY <2>4, <3>1, <3>5 DEF Spelt, Cell
    <3> QED
      BY <1>7, <3>6, <3>7, SpeltDue
  <2> QED
    BY <2>2, <2>5, <2>6, <2>7
<1>8. CASE init = "Authentication" /\ ~(stage = 0 /\ pending # "ard") /\ scheme = "ra2"
  <2>1. \/ stage = 1 /\ l[1] = "choice" /\ l[2] = "ra2"
        \/ stage = 3 /\ l[1] = "clientKey"
        \/ stage = 4 /\ l[1] = "clientHash"
    BY <1>8 DEF Awaited
  <2>2. Roles(c) = Ra2Roles
    BY <1>8 DEF Roles, AuthRoles
  <2>3. \A r \in {"keyLen", "key", "randLen", "random", "hash", "subtype"}, v \in {"0", "1"} :
          Cell(r, v) \in Cells
    BY CellTyped, PlainVals DEF Names
  <2>4. CASE stage = 1
    <3>1. \E v \in {"0", "1"} : c = <<Cell("keyLen", v), Cell("key", "1")>>
      BY <2>1, <2>4 DEF Answer, Opening
    <3>2. Ra2Roles = <<"keyLen", "key">>
      BY <2>4 DEF Ra2Roles
    <3>3. c \in Seq(Cells) /\ Spelt(c, Roles(c))
      BY <2>2, <2>3, <3>1, <3>2 DEF Spelt, Cell
    <3> QED
      BY <1>8, <3>3, SpeltDue
  <2>5. CASE stage = 3
    <3>1. \E v, w \in {"0", "1"} : c = <<Cell("randLen", v), Cell("random", w)>>
      BY <2>1, <2>5 DEF Answer
    <3>2. Ra2Roles = <<"randLen", "random">>
      BY <2>5 DEF Ra2Roles
    <3>3. c \in Seq(Cells) /\ Spelt(c, Roles(c))
      BY <2>2, <2>3, <3>1, <3>2 DEF Spelt, Cell
    <3> QED
      BY <1>8, <3>3, SpeltDue
  <2>6. CASE stage = 4
    <3>1. \E v, w \in {"0", "1"} : c = <<Cell("hash", v), Cell("subtype", w)>>
      BY <2>1, <2>6 DEF Answer
    <3>2. Ra2Roles = <<"hash", "subtype">>
      BY <2>6 DEF Ra2Roles
    <3>3. c \in Seq(Cells) /\ Spelt(c, Roles(c))
      BY <2>2, <2>3, <3>1, <3>2 DEF Spelt, Cell
    <3> QED
      BY <1>8, <3>3, SpeltDue
  <2> QED
    BY <2>1, <2>4, <2>5, <2>6
<1>9. \/ init \in {"ProtocolVersion", "Security", "SecurityResult", "ClientInitialisation",
                   "ServerInitialisation"}
      \/ init = "Authentication" /\ stage = 0 /\ pending # "ard"
      \/ init = "Authentication" /\ ~(stage = 0 /\ pending # "ard")
         /\ scheme \in {"vencrypt", "ra2"}
  BY DEF Awaited
<1> QED
  BY <1>1, <1>2, <1>3, <1>4, <1>5, <1>6, <1>7, <1>8, <1>9

-----------------------------------------------------------------------------
(***************************************************************************)
(* The steps of the handshake.  A handler reads a beginning of what is     *)
(* due, and the rest of it is due then; or it reads all of it and answers. *)
(***************************************************************************)
Begins(roles, due) ==
  Len(roles) <= Len(due) /\ \A i \in DOMAIN roles : due[i] = roles[i]

Cut(due, roles, now) ==
  /\ Len(due) = Len(roles) + Len(now)
  /\ \A i \in DOMAIN roles : due[i] = roles[i]
  /\ \A i \in 1 .. Len(now) : now[i] = due[i + Len(roles)]

(* A list of one field.                                                    *)
LEMMA OneField ==
  ASSUME NEW a \in Names
  PROVE  /\ <<a>> \in Seq(Names) /\ Len(<<a>>) >= 1 /\ Len(<<a>>) = 1
         /\ Begins(<<a>>, <<a>>) /\ Cut(<<a>>, <<a>>, <<>>)
<1>1. <<a>> \in Seq(Names) /\ Len(<<a>>) >= 1 /\ Len(<<a>>) = 1
  OBVIOUS
<1>2. Begins(<<a>>, <<a>>)
  BY DEF Begins
<1>3. Cut(<<a>>, <<a>>, <<>>)
  BY DEF Cut
<1> QED
  BY <1>1, <1>2, <1>3

(* Two fields.                                                             *)
LEMMA TwoFields ==
  ASSUME NEW a \in Names, NEW b \in Names
  PROVE  /\ <<a, b>> \in Seq(Names) /\ Len(<<a, b>>) >= 1
         /\ Begins(<<a, b>>, <<a, b>>) /\ Cut(<<a, b>>, <<a, b>>, <<>>)
<1>1. <<a, b>> \in Seq(Names) /\ Len(<<a, b>>) >= 1
  OBVIOUS
<1>2. Begins(<<a, b>>, <<a, b>>)
  BY DEF Begins
<1>3. Cut(<<a, b>>, <<a, b>>, <<>>)
  BY DEF Cut
<1> QED
  BY <1>1, <1>2, <1>3

(* The first field is cut off a list.                                      *)
LEMMA FirstOfTwo ==
  ASSUME NEW a, NEW b PROVE Cut(<<a, b>>, <<a>>, <<b>>) /\ Begins(<<a>>, <<a, b>>)
<1> DEFINE due == <<a, b>>
           roles == <<a>>
           now == <<b>>
<1>1. /\ Len(due) = 2 /\ Len(roles) = 1 /\ Len(now) = 1 /\ DOMAIN roles = {1}
      /\ due[1] = a /\ due[2] = b /\ roles[1] = a /\ now[1] = b
  OBVIOUS
<1> HIDE DEF due, roles, now
<1>2. Cut(due, roles, now)
  BY <1>1 DEF Cut
<1>3. Begins(roles, due)
  BY <1>1 DEF Begins
<1> QED
  BY <1>2, <1>3 DEF due, roles, now

(* Off a list of three.                                                     *)
LEMMA FirstOfThree ==
  ASSUME NEW a, NEW b, NEW c PROVE Cut(<<a, b, c>>, <<a>>, <<b, c>>)
BY DEF Cut

(* Off a list of four.                                                      *)
LEMMA FirstOfFour ==
  ASSUME NEW a, NEW b, NEW c, NEW d PROVE Cut(<<a, b, c, d>>, <<a>>, <<b, c, d>>)
BY DEF Cut

(* Off a list of five.                                                      *)
LEMMA FirstOfFive ==
  ASSUME NEW a, NEW b, NEW c, NEW d, NEW e
  PROVE  Cut(<<a, b, c, d, e>>, <<a>>, <<b, c, d, e>>)
BY DEF Cut

(* What is due is always a number of fields.                               *)
LEMMA RolesLen == \A s : Len(Roles(s)) \in Nat
BY DEF Roles, SecurityRoles, ReasonRoles, ResultRoles, ServerInit, AuthRoles,
       TunnelRoles, TightRoles, VeNCryptRoles, Ra2Roles

(* And it is after a step.                                                 *)
LEMMA RolesLenNext == \A s : Len(Roles(s)') \in Nat
BY DEF Roles, SecurityRoles, ReasonRoles, ResultRoles, ServerInit, AuthRoles,
       TunnelRoles, TightRoles, VeNCryptRoles, Ra2Roles

(* After a step in which the client waits for the answer to what it has    *)
(* just sent, with nothing on its way, the line is in order.               *)
LEMMA AwaitedNext ==
  ASSUME NEW l, Awaited(l)', Len(out') = 1, out'[1] = l
  PROVE  OutFits'
<1>1. Awaited(out[1])'
  BY DEF Awaited
<1> QED
  BY <1>1 DEF OutFits

(* So it is if the choice that came before needs no answer of its own.     *)
LEMMA AwaitedAfterMute ==
  ASSUME NEW l, Awaited(l)', l[1] \in {"xvp", "credentials", "clientinit"},
         NEW k, Mute(k)', Len(out') = 2, out'[1] = k, out'[2] = l
  PROVE  OutFits'
<1>1. Awaited(out[2])'
  BY DEF Awaited
<1>2. Mute(out[1])'
  BY DEF Mute
<1> QED
  BY <1>1, <1>2 DEF OutFits

(* What was read is not there any more, and the rest has moved up.         *)
LEMMA ValMoved ==
  ASSUME NEW s \in Seq(Cells), NEW t \in Seq(Cells), NEW n \in Nat,
         Len(t) = Len(s) - n, \A i \in 1 .. Len(t) : t[i] = s[i + n]
  PROVE  \A i \in Nat : i >= 1 => Val(t, i) = Val(s, i + n)
<1> SUFFICES ASSUME NEW i \in Nat, i >= 1 PROVE Val(t, i) = Val(s, i + n)
  OBVIOUS
<1>1. DOMAIN s = 1 .. Len(s) /\ DOMAIN t = 1 .. Len(t) /\ Len(s) \in Nat /\ Len(t) \in Nat
  OBVIOUS
<1>2. CASE i <= Len(t)
  <2>1. i \in 1 .. Len(t) /\ i + n \in 1 .. Len(s)
    BY <1>1, <1>2
  <2> QED
    BY <1>1, <2>1 DEF Val
<1>3. CASE i > Len(t)
  <2>1. i \notin 1 .. Len(t) /\ i + n \notin 1 .. Len(s)
    BY <1>1, <1>3
  <2> QED
    BY <1>1, <2>1 DEF Val
<1> QED
  BY <1>1, <1>2, <1>3

(* What the handler sees is the beginning of what is coming.               *)
LEMMA Seen ==
  ASSUME rQ \in Seq(Cells), net \in Seq(Cells), NEW n \in Nat, Has(n)
  PROVE  \A i \in 1 .. n : Val(Coming, i) = rQ[i].val /\ i \in DOMAIN Coming
<1>1. Len(Coming) = Len(rQ) + Len(net) /\ Coming \in Seq(Cells)
      /\ \A i \in 1 .. Len(rQ) : Coming[i] = rQ[i]
  BY ComingIs
<1>2. n <= Len(rQ) /\ Len(rQ) \in Nat /\ Len(net) \in Nat
  BY DEF Has
<1>3. DOMAIN Coming = 1 .. Len(Coming)
  BY <1>1
<1> SUFFICES ASSUME NEW i \in 1 .. n PROVE Val(Coming, i) = rQ[i].val /\ i \in DOMAIN Coming
  OBVIOUS
<1>4. i \in 1 .. Len(rQ) /\ i \in 1 .. Len(Coming)
  BY <1>1, <1>2
<1>5. i \in DOMAIN Coming
  BY <1>3, <1>4
<1>6. Coming[i] = rQ[i]
  BY <1>1, <1>4
<1> QED
  BY <1>5, <1>6 DEF Val

(* A handler that reads the beginning of what is due leaves the rest due.  *)
LEMMA ReadRest ==
  ASSUME rQ \in Seq(Cells), net \in Seq(Cells), misread \in BOOLEAN, Fits(Coming),
         NEW roles \in Seq(Names), Len(roles) >= 1, Read(roles),
         NEW due, NEW now, Roles(Coming) = due, Roles(Coming)' = now,
         Cut(due, roles, now),
         init' # "Security"
  PROVE  /\ rQ' \in Seq(Cells) /\ net' \in Seq(Cells) /\ misread' = misread
         /\ Coming # <<>> /\ Fits(Coming)' /\ (Whole(Coming) => Whole(Coming)')
         /\ Len(now) = 0 => Coming' = <<>>
<1> DEFINE n == Len(roles)
<1>1. /\ rQ' \in Seq(Cells) /\ net' \in Seq(Cells) /\ n \in Nat /\ n <= Len(rQ)
      /\ Len(Coming') = Len(Coming) - n
      /\ \A i \in 1 .. Len(Coming') : Coming'[i] = Coming[i + n]
      /\ (\A i \in DOMAIN roles : Coming[i].role = roles[i]) => misread' = misread
  BY ReadStep
<1>2. Len(Coming) \in Nat /\ Len(rQ) \in Nat /\ Len(rQ) <= Len(Coming)
  BY ComingIs
<1>3. Len(Coming') \in Nat /\ (Len(Coming') = 0 => Coming' = <<>>)
  BY <1>1, ComingNext
<1>4. Len(due) \in Nat /\ Len(now) \in Nat
  BY RolesLen, RolesLenNext
<1>5. Len(Coming) <= Len(due) /\ \A i \in 1 .. Len(Coming) : Coming[i].role = due[i]
  BY DEF Fits
<1>6. /\ Len(due) = n + Len(now) /\ \A i \in 1 .. Len(now) : now[i] = due[i + n]
      /\ \A i \in DOMAIN roles : due[i] = roles[i]
  BY DEF Cut
<1>7. DOMAIN roles = 1 .. n
  OBVIOUS
<1> HIDE DEF n
<1>8. misread' = misread
  <2>1. ASSUME NEW i \in DOMAIN roles PROVE Coming[i].role = roles[i]
    <3>1. due[i] = roles[i] /\ i \in 1 .. Len(Coming)
      BY <1>1, <1>2, <1>6, <1>7
    <3> QED
      BY <1>5, <3>1
  <2> QED
    BY <1>1, <2>1
<1>9. Len(Coming') <= Len(now) /\ (Len(Coming) = Len(due) => Len(Coming') = Len(now))
  BY <1>1, <1>2, <1>4, <1>5, <1>6
<1>10. ASSUME NEW i \in 1 .. Len(Coming') PROVE Coming'[i].role = now[i]
  <2>1. i + n \in 1 .. Len(Coming) /\ i \in 1 .. Len(now)
    BY <1>1, <1>2, <1>3, <1>4, <1>9
  <2>2. Coming'[i] = Coming[i + n] /\ Coming[i + n].role = due[i + n] /\ now[i] = due[i + n]
    BY <1>1, <1>5, <1>6, <2>1
  <2> QED
    BY <2>2
<1>11. Fits(Coming)'
  BY <1>9, <1>10 DEF Fits
<1>12. Coming # <<>>
  BY <1>1, <1>2, ComingIs DEF n
<1> QED
  BY <1>1, <1>3, <1>4, <1>8, <1>9, <1>11, <1>12 DEF Whole


(* What the handler that comes next will see first.                        *)
LEMMA AfterRead ==
  ASSUME rQ \in Seq(Cells), net \in Seq(Cells), misread \in BOOLEAN,
         NEW roles \in Seq(Names), Read(roles)
  PROVE  \A i \in Nat : i >= 1 => Val(Coming', i) = Val(Coming, i + Len(roles))
<1>1. /\ rQ' \in Seq(Cells) /\ net' = net /\ Len(Coming') = Len(Coming) - Len(roles)
      /\ \A i \in 1 .. Len(Coming') : Coming'[i] = Coming[i + Len(roles)]
  BY ReadStep
<1>2. Coming \in Seq(Cells)
  BY ComingIs
<1>3. Coming' \in Seq(Cells)
  BY <1>1, ComingNext
<1>4. Len(roles) \in Nat
  OBVIOUS
<1> QED
  BY <1>1, <1>2, <1>3, <1>4, ValMoved

(* What it will see after a read of one field.                             *)
LEMMA AfterOne ==
  ASSUME Typed, NEW a \in Names, Read(<<a>>)
  PROVE  /\ Val(Coming', 1) = Val(Coming, 2) /\ Val(Coming', 2) = Val(Coming, 3)
         /\ Val(Coming', 3) = Val(Coming, 4)
<1> DEFINE roles == <<a>>
<1>1. roles \in Seq(Names) /\ Len(roles) = 1 /\ Read(roles)
  BY OneField
<1> HIDE DEF roles
<1>2. \A i \in Nat : i >= 1 => Val(Coming', i) = Val(Coming, i + Len(roles))
  BY <1>1, AfterRead DEF Typed
<1>3. \A i \in Nat : i >= 1 => Val(Coming', i) = Val(Coming, i + 1)
  BY <1>1, <1>2
<1>4. 1 + 1 = 2 /\ 2 + 1 = 3 /\ 3 + 1 = 4
  OBVIOUS
<1> QED
  BY <1>3, <1>4

(* What a handler sees that reads one field is what is coming first.       *)
LEMMA SeenOne ==
  ASSUME Typed, NEW a \in Names, Read(<<a>>)
  PROVE  Val(Coming, 1) = rQ[1].val
<1>1. Has(1)
  BY OneField DEF Read
<1> QED
  BY <1>1, Seen DEF Typed

(* A handler that reads all that is due leaves nothing on its way.         *)
LEMMA ReadAll ==
  ASSUME rQ \in Seq(Cells), net \in Seq(Cells), misread \in BOOLEAN, Fits(Coming),
         NEW roles \in Seq(Names), Len(roles) >= 1, Read(roles), Roles(Coming) = roles
  PROVE  /\ rQ' = <<>> /\ net' = <<>> /\ Coming' = <<>> /\ misread' = misread
         /\ Coming # <<>> /\ Fits(Coming)'
<1> DEFINE n == Len(roles)
<1>1. /\ rQ' \in Seq(Cells) /\ net' \in Seq(Cells) /\ n \in Nat /\ n <= Len(rQ)
      /\ Len(Coming') = Len(Coming) - n
      /\ (\A i \in DOMAIN roles : Coming[i].role = roles[i]) => misread' = misread
  BY ReadStep
<1>2. Len(Coming) \in Nat /\ Len(rQ) \in Nat /\ Len(rQ) <= Len(Coming)
  BY ComingIs
<1>3. Len(Coming) <= n /\ \A i \in 1 .. Len(Coming) : Coming[i].role = roles[i]
  BY DEF Fits
<1>4. DOMAIN roles = 1 .. n
  OBVIOUS
<1> HIDE DEF n
<1>5. Len(Coming) = n /\ misread' = misread
  BY <1>1, <1>2, <1>3, <1>4
<1>6. Coming' = <<>> /\ rQ' = <<>> /\ net' = <<>>
  BY <1>1, <1>2, <1>5, ComingNext
<1>7. Coming # <<>>
  BY <1>1, <1>2, ComingIs DEF n
<1>8. Fits(Coming)'
  BY <1>6, RolesLenNext DEF Fits
<1> QED
  BY <1>5, <1>6, <1>7, <1>8

\* Handlers that wait for at least one field.
Needs ==
  \/ init \in {"ProtocolVersion", "Security", "SecurityReason", "SecurityResult",
               "ServerInitialisation"}
  \/ init = "Authentication" /\ scheme \in {"vnc", "mslogon", "vencrypt", "tight"}
  \/ init = "Authentication" /\ scheme = "ard" /\ creds = "given" /\ stage = 0

(* With an empty queue they wait.                                          *)
LEMMA EmptyWaits == ASSUME rQ' = <<>>, Needs' PROVE Waits'
<1>1. Len(rQ') = 0
  OBVIOUS
<1>2. ~Has(1)'
  BY <1>1 DEF Has
<1>3. Needed' >= 1
  BY <1>2 DEF Needs, Needed, ServerInit
<1>4. Needed' \in Nat
  BY <1>2 DEF Needed, ServerInit
<1>5. ~Has(Needed)'
  BY <1>1, <1>3, <1>4 DEF Has
<1> QED
  BY <1>5 DEF Waits

-----------------------------------------------------------------------------
\* The handshake goes on.
Goes ==
  /\ UNCHANGED link /\ Talking' /\ misread' = misread
  /\ rQ' \in Seq(Cells) /\ net' \in Seq(Cells) /\ out' \in Seq(Labels)

(* It does after a handler that has read a part of what is due.            *)
LEMMA ReadOn ==
  ASSUME Typed, Talking,
         NEW roles \in Seq(Names), Len(roles) >= 1, Read(roles),
         NEW due, NEW now, Roles(Coming) = due, Roles(Coming)' = now,
         Cut(due, roles, now),
         init' # "Security", UNCHANGED <<link, out>>,
         Standing', Readers', run' # "idle" \/ Waits'
  PROVE  Goes /\ (Len(now) = 0 => Coming' = <<>>)
<1>1. rQ \in Seq(Cells) /\ net \in Seq(Cells) /\ misread \in BOOLEAN /\ out \in Seq(Labels)
  BY DEF Typed
<1>2. Fits(Coming) /\ Line
  BY DEF Talking
<1>3. /\ rQ' \in Seq(Cells) /\ net' \in Seq(Cells) /\ misread' = misread
      /\ Coming # <<>> /\ Fits(Coming)' /\ (Whole(Coming) => Whole(Coming)')
      /\ Len(now) = 0 => Coming' = <<>>
  BY <1>1, <1>2, ReadRest
<1>4. Line'
  <2> SUFFICES ASSUME link.sock = "open" PROVE Waits' /\ out' = <<>> /\ Whole(Coming)'
    BY DEF Line
  <2>1. Waits'
    BY DEF Waits
  <2>2. out = <<>> /\ Whole(Coming)
    BY <1>2, <1>3 DEF Line
  <2> QED
    BY <1>3, <2>1, <2>2
<1> QED
  BY <1>1, <1>2, <1>3, <1>4 DEF Goes, Talking

(* What has a length is not empty.                                         *)
LEMMA NotEmpty == \A s : Len(s) \in {1, 2} => s # <<>>
<1>1. Len(<<>>) = 0
  OBVIOUS
<1> QED
  BY <1>1

(* And after one that has read all of it and answered.                     *)
LEMMA ReadReply ==
  ASSUME Typed, Talking,
         NEW roles \in Seq(Names), Len(roles) >= 1, Read(roles), Roles(Coming) = roles,
         NEW l \in Labels, Reply(l), Awaited(l)', UNCHANGED link,
         Standing', Readers', run' # "idle" \/ Needs' \/ Waits'
  PROVE  Goes
<1>1. rQ \in Seq(Cells) /\ net \in Seq(Cells) /\ misread \in BOOLEAN /\ out \in Seq(Labels)
  BY DEF Typed
<1>2. Fits(Coming) /\ Line
  BY DEF Talking
<1>3. /\ rQ' = <<>> /\ net' = <<>> /\ Coming' = <<>> /\ misread' = misread
      /\ Coming # <<>> /\ Fits(Coming)'
  BY <1>1, <1>2, ReadAll
<1>4. out' \in Seq(Labels)
  BY <1>1 DEF Reply
<1>5. Line'
  <2> SUFFICES ASSUME link.sock = "open" PROVE Waits' /\ out' # <<>> /\ OutFits'
    BY <1>3 DEF Line
  <2>1. Waits'
    <3>1. CASE run' # "idle"
      BY <3>1 DEF Waits
    <3>2. CASE Needs'
      BY <1>3, <3>2, EmptyWaits
    <3> QED
      BY <3>1, <3>2
  <2>2. out = <<>>
    BY <1>2, <1>3 DEF Line
  <2>3. Len(out') = 1 /\ out'[1] = l
    BY <1>1, <2>2 DEF Reply
  <2>4. out' # <<>>
    BY <2>3, NotEmpty
  <2> QED
    BY <2>1, <2>3, <2>4, AwaitedNext
<1> QED
  BY <1>2, <1>3, <1>4, <1>5 DEF Goes, Talking

(* A second label comes after the first.                                   *)
LEMMA SecondOf ==
  ASSUME NEW S, NEW s \in Seq(S), NEW k \in S
  PROVE  Len(s) = 1 => /\ Len(Append(s, k)) = 2
                       /\ Append(s, k)[1] = s[1] /\ Append(s, k)[2] = k
<1>1. Append(s, k)[Len(s) + 1] = k /\ Len(Append(s, k)) = Len(s) + 1
  OBVIOUS
<1>2. \A i \in 1 .. Len(s) : Append(s, k)[i] = s[i]
  OBVIOUS
<1> QED
  BY <1>1, <1>2

(* And after one that speaks without having read anything.                 *)
LEMMA SpeakOut ==
  ASSUME Typed, Talking, Roles(Coming) = <<>>, UNCHANGED <<link, rQ, net, misread>>,
         NEW l \in Labels, Reply(l), Awaited(l)',
         out = <<>> \/ link.sock # "open"
           \/ /\ Len(out) = 1 /\ l[1] \in {"xvp", "credentials", "clientinit"}
              /\ \E k : k = out[1] /\ Mute(k)',
         Standing', Readers', run' # "idle" \/ Needs' \/ Waits'
  PROVE  Goes
<1>1. rQ \in Seq(Cells) /\ net \in Seq(Cells) /\ misread \in BOOLEAN /\ out \in Seq(Labels)
  BY DEF Typed
<1>2. Fits(Coming) /\ Line
  BY DEF Talking
<1>3. rQ' = <<>> /\ net' = <<>> /\ Coming' = <<>>
  <2>1. Len(Coming) = 0
    BY <1>1, <1>2, ComingIs DEF Fits
  <2>2. Coming = <<>>
    BY <1>1, <2>1, ComingIs
  <2>3. rQ = <<>> /\ net = <<>>
    BY <1>1, <2>2, ComingIs
  <2> QED
    BY <2>2, <2>3 DEF Coming
<1>4. out' \in Seq(Labels)
  BY <1>1 DEF Reply
<1>5. Line'
  <2> SUFFICES ASSUME link.sock = "open" PROVE Waits' /\ out' # <<>> /\ OutFits'
    BY <1>3 DEF Line
  <2>1. Waits'
    <3>1. CASE run' # "idle"
      BY <3>1 DEF Waits
    <3>2. CASE Needs'
      BY <1>3, <3>2, EmptyWaits
    <3> QED
      BY <3>1, <3>2
  <2>2. CASE out = <<>>
    <3>1. Len(out') = 1 /\ out'[1] = l
      BY <1>1, <2>2 DEF Reply
    <3>2. out' # <<>>
      BY <3>1, NotEmpty
    <3> QED
      BY <2>1, <3>1, <3>2, AwaitedNext
  <2>3. CASE out # <<>>
    <3>1. PICK k : /\ Len(out) = 1 /\ l[1] \in {"xvp", "credentials", "clientinit"}
                   /\ k = out[1] /\ Mute(k)'
      BY <2>3
    <3>2. Len(out') = 2 /\ out'[1] = k /\ out'[2] = l
      <4>1. out' = Append(out, l)
        BY DEF Reply
      <4>2. /\ Len(Append(out, l)) = 2 /\ Append(out, l)[1] = out[1]
            /\ Append(out, l)[2] = l
        BY <1>1, <3>1, SecondOf
      <4> QED
        BY <3>1, <4>1, <4>2
    <3>3. out' # <<>>
      BY <3>2, NotEmpty
    <3>4. OutFits'
      BY <3>1, <3>2, AwaitedAfterMute
    <3> QED
      BY <2>1, <3>3, <3>4
  <2> QED
    BY <2>2, <2>3
<1>6. Fits(Coming)'
  BY <1>3, RolesLenNext DEF Fits
<1>7. rQ' \in Seq(Cells) /\ net' \in Seq(Cells)
  BY <1>1
<1> QED
  BY <1>4, <1>5, <1>6, <1>7 DEF Goes, Talking

(* And after one that has neither read nor spoken.                         *)
LEMMA Passes ==
  ASSUME Typed, Talking, UNCHANGED <<link, out, misread, version, tight, rQ, net>>,
         Roles(Coming)' = Roles(Coming), \A l : Awaited(l) => Awaited(l)',
         init' = "Security" => init = "Security",
         Standing', Readers', run' # "idle" \/ Waits'
  PROVE  Goes
<1>1. rQ' \in Seq(Cells) /\ net' \in Seq(Cells) /\ out' \in Seq(Labels)
  BY DEF Typed
<1>2. Fits(Coming) /\ Line
  BY DEF Talking
<1>3. Coming' = Coming
  BY DEF Coming
<1>4. Fits(Coming)'
  BY <1>2, <1>3 DEF Fits
<1>5. Line'
  <2> SUFFICES ASSUME link.sock = "open"
               PROVE  Waits' /\ IF out' = <<>> THEN Whole(Coming)' ELSE Coming' = <<>> /\ OutFits'
    BY DEF Line
  <2>1. Waits'
    BY DEF Waits
  <2>2. IF out = <<>> THEN Whole(Coming) ELSE Coming = <<>> /\ OutFits
    BY <1>2 DEF Line
  <2>3. Whole(Coming) => Whole(Coming)'
    BY <1>3 DEF Whole
  <2>4. \A l : Mute(l) => Mute(l)'
    BY DEF Mute
  <2>5. OutFits => OutFits'
    <3>1. ASSUME Len(out) = 1, Awaited(out[1]) PROVE OutFits'
      <4>1. PICK l : l = out[1]
        OBVIOUS
      <4> QED
        BY <3>1, <4>1, AwaitedNext
    <3>2. ASSUME Len(out) = 2, Mute(out[1]), Awaited(out[2]),
                 out[2][1] \in {"xvp", "credentials", "clientinit"}
          PROVE  OutFits'
      <4>1. PICK k : k = out[1]
        OBVIOUS
      <4>2. PICK l : l = out[2]
        OBVIOUS
      <4> QED
        BY <2>4, <3>2, <4>1, <4>2, AwaitedAfterMute
    <3> QED
      BY <3>1, <3>2 DEF OutFits
  <2> QED
    BY <1>3, <2>1, <2>2, <2>3, <2>5
<1> QED
  BY <1>1, <1>4, <1>5 DEF Goes, Talking

(* And after one that has done nothing but wait.                           *)
LEMMA Stay ==
  ASSUME Typed, Talking,
         UNCHANGED <<link, out, misread, init, version, scheme, stage, tight, pending, rQ, net>>,
         Standing', Readers', run' # "idle" \/ Waits'
  PROVE  Goes
<1>1. Coming' = Coming
  BY DEF Coming
<1>2. Roles(Coming)' = Roles(Coming)
  BY <1>1 DEF Roles, SecurityRoles, ReasonRoles, ResultRoles, ServerInit, AuthRoles,
         TunnelRoles, TightRoles, VeNCryptRoles, Ra2Roles
<1>3. \A l : Awaited(l) => Awaited(l)'
  BY DEF Awaited
<1> QED
  BY <1>2, <1>3, Passes

\* It ends in a failure.
Fails ==
  /\ ~Called /\ link' = Failed(link) /\ run' = "idle" /\ ~Called' /\ misread' = misread
  /\ rQ' \in Seq(Cells) /\ net' \in Seq(Cells) /\ out' \in Seq(Labels)

(* It does after a handler that has read in step and calls _fail.          *)
LEMMA FailsReading ==
  ASSUME Typed, Talking, ~Called, link' = Failed(link), run' = "idle",
         UNCHANGED <<creds, pending, out>>,
         NEW roles \in Seq(Names), Len(roles) >= 1, Read(roles),
         NEW due, Roles(Coming) = due, Begins(roles, due)
  PROVE  Fails
<1>1. rQ \in Seq(Cells) /\ net \in Seq(Cells) /\ misread \in BOOLEAN /\ out \in Seq(Labels)
  BY DEF Typed
<1>2. Fits(Coming)
  BY DEF Talking
<1>3. /\ rQ' \in Seq(Cells) /\ net' = net /\ Len(roles) <= Len(rQ)
      /\ (\A i \in DOMAIN roles : Coming[i].role = roles[i]) => misread' = misread
  BY <1>1, ReadStep
<1>4. ASSUME NEW i \in DOMAIN roles PROVE Coming[i].role = roles[i]
  <2>1. i \in 1 .. Len(roles) /\ Len(roles) \in Nat
    OBVIOUS
  <2>2. Len(Coming) \in Nat /\ Len(rQ) \in Nat /\ Len(rQ) <= Len(Coming)
    BY <1>1, ComingIs
  <2>3. i \in 1 .. Len(Coming)
    BY <1>3, <2>1, <2>2
  <2>4. Coming[i].role = due[i]
    BY <1>2, <2>3 DEF Fits
  <2>5. due[i] = roles[i]
    BY DEF Begins
  <2> QED
    BY <2>4, <2>5
<1>5. ~Called'
  BY DEF Called
<1> QED
  BY <1>1, <1>3, <1>4, <1>5 DEF Fails

(* So it does if the handler changes nothing else.                         *)
LEMMA FailsHere ==
  ASSUME Typed, Talking, ~Called, Fail,
         NEW roles \in Seq(Names), Len(roles) >= 1, Read(roles),
         NEW due, Roles(Coming) = due, Begins(roles, due)
  PROVE  Fails
<1>1. link' = Failed(link) /\ run' = "idle" /\ UNCHANGED <<creds, pending, out>>
  BY DEF Fail, authVars
<1> QED
  BY <1>1, FailsReading, Zenon

(* Where no call is due, none is due after a handler.                      *)
LEMMA Uncalled ==
  ASSUME ~Called, UNCHANGED <<creds, pending>>, run' # "once"
  PROVE  ~Called'
BY DEF Called

(* Nothing is asked of the readers then.                                   *)
LEMMA QuietReaders ==
  ASSUME ~Called', run' = "loop" /\ init' = "Security" => rQ' # <<>>
  PROVE  Readers'
BY DEF Readers, Called

(* Only some handlers are called without a message.                        *)
LEMMA OnlyAsking ==
  ASSUME Readers,
         init # "Authentication" \/ scheme \notin Asking \union {"ra2"}
  PROVE  ~Called
BY DEF Readers

(* What is said is made of words.                                          *)
LEMMA LabelsAre ==
  /\ \A w \in Words : <<w>> \in Labels
  /\ \A v, w \in Words : <<v, w>> \in Labels
BY DEF Labels

-----------------------------------------------------------------------------
(* The version.                                                            *)
LEMMA VersionGoes ==
  ASSUME Typed, Talking, NegotiateProtocolVersion PROVE Goes \/ Fails
<1>1. init = "ProtocolVersion" /\ Read(<<"version">>) /\ run # "idle"
  BY DEF NegotiateProtocolVersion, In
<1>2. Standing /\ Readers
  BY DEF Talking
<1>3. ~Called
  BY <1>1, <1>2, OnlyAsking
<1>4. /\ <<"version">> \in Seq(Names) /\ Len(<<"version">>) >= 1
      /\ Begins(<<"version">>, <<"version">>) /\ Roles(Coming) = <<"version">>
  BY <1>1, OneField DEF Roles, Names
<1>5. tight = FALSE /\ stage = 0 /\ pending \notin {"ard", "approve"}
  BY <1>1, <1>2 DEF Standing, Typed
<1>6. CASE rQ[1].val = "repeater"
  <2>1. /\ Reply(<<"repeater">>) /\ Goto(init, TRUE) /\ UNCHANGED authVars
    BY <1>6 DEF NegotiateProtocolVersion
  <2>2. /\ init' = "ProtocolVersion" /\ UNCHANGED <<link, version, scheme, stage, tight, creds, pending>>
        /\ run' # "once"
    BY <1>1, <2>1 DEF Goto, Return, authVars
  <2>3. Standing'
    BY <1>2, <1>1, <2>2 DEF Standing
  <2>4. Readers'
    BY <1>3, <2>2, Uncalled, QuietReaders
  <2>5. Awaited(<<"repeater">>)'
    BY <2>2 DEF Awaited
  <2>6. <<"repeater">> \in Labels
    BY LabelsAre DEF Words
  <2>7. Needs'
    BY <2>2 DEF Needs
  <2> QED
    BY <1>1, <1>4, <2>1, <2>2, <2>3, <2>4, <2>5, <2>6, <2>7, ReadReply, Zenon
<1>7. CASE rQ[1].val = "bad"
  <2>1. Fail
    BY <1>7 DEF NegotiateProtocolVersion
  <2> QED
    BY <1>1, <1>3, <1>4, <2>1, FailsHere, Zenon
<1>8. CASE rQ[1].val \notin {"repeater", "bad"}
  <2>1. /\ rQ[1].val \in {"3.3", "3.7", "3.8"} /\ version' = rQ[1].val
        /\ Reply(<<"version">>) /\ VersionSent
        /\ UNCHANGED <<scheme, stage, tight, creds, pending>>
    BY <1>8 DEF NegotiateProtocolVersion
  <2>2. init' = "Security" /\ UNCHANGED link /\ run' = "idle"
    BY <2>1 DEF VersionSent, Goto, Return
  <2>3. Standing'
    BY <1>5, <2>1, <2>2 DEF Standing, InitStates
  <2>4. Readers'
    BY <1>3, <2>1, <2>2, Uncalled, QuietReaders
  <2>5. Awaited(<<"version">>)'
    BY <2>2 DEF Awaited
  <2>6. <<"version">> \in Labels
    BY LabelsAre DEF Words
  <2>7. Needs'
    BY <2>2 DEF Needs
  <2> QED
    BY <1>1, <1>4, <2>1, <2>2, <2>3, <2>4, <2>5, <2>6, <2>7, ReadReply, Zenon
<1> QED
  BY <1>6, <1>7, <1>8

(* The reason of a refusal.                                                *)
LEMMA ReasonFails ==
  ASSUME Typed, Talking, HandleSecurityReason PROVE Fails
<1>1. init = "SecurityReason" /\ Read(Reason) /\ Fail /\ Has(1)
  BY DEF HandleSecurityReason, In
<1>2. Standing /\ Readers
  BY DEF Talking
<1>3. ~Called
  BY <1>1, <1>2, OnlyAsking
<1>4. Val(Coming, 1) = rQ[1].val
  BY <1>1, Seen DEF Typed
<1>5. Roles(Coming) = Reason
  BY <1>1, <1>4 DEF Roles, ReasonRoles, Reason, Zero
<1>6. Reason \in Seq(Names) /\ Len(Reason) >= 1 /\ Begins(Reason, Reason)
  <2>1. "reasonLen" \in Names /\ "reason" \in Names
    BY DEF Names
  <2>2. CASE Zero
    BY <2>1, <2>2, OneField DEF Reason
  <2>3. CASE ~Zero
    BY <2>1, <2>3, TwoFields DEF Reason
  <2> QED
    BY <2>2, <2>3
<1> QED
  BY <1>1, <1>3, <1>5, <1>6, FailsHere, Zenon

(* The outcome of the authentication.                                      *)
LEMMA ResultGoes ==
  ASSUME Typed, Talking, HandleSecurityResult PROVE Goes \/ Fails
<1>1. init = "SecurityResult" /\ Read(<<"result">>) /\ run # "idle"
  BY DEF HandleSecurityResult, In
<1>2. Standing /\ Readers
  BY DEF Talking
<1>3. ~Called /\ run # "once"
  BY <1>1, <1>2, OnlyAsking DEF Called
<1>4. <<"result">> \in Seq(Names) /\ Len(<<"result">>) >= 1 /\ "result" \in Names
  BY OneField DEF Names
<1>5. Val(Coming, 1) = rQ[1].val /\ Val(Coming', 1) = Val(Coming, 2)
  BY <1>1, <1>4, SeenOne, AfterOne
<1>6. "reasonLen" \in Names /\ "reason" \in Names
  BY DEF Names
<1>7. Roles(Coming) = ResultRoles(Coming) /\ run = "loop"
  BY <1>1, <1>3 DEF Roles, Typed
<1>8. CASE Zero
  <2>1. Goto("ClientInitialisation", TRUE) /\ UNCHANGED <<authVars, out>>
    BY <1>8 DEF HandleSecurityResult, Some, Zero
  <2>2. /\ init' = "ClientInitialisation" /\ run' = "loop"
        /\ UNCHANGED <<link, version, scheme, stage, tight, creds, pending, out>>
    BY <1>7, <2>1 DEF Goto, Return, authVars
  <2>3. Standing'
    BY <1>1, <1>2, <2>2 DEF Standing, InitStates
  <2>4. Readers'
    BY <1>3, <2>2, Uncalled, QuietReaders
  <2>5. Roles(Coming) = <<"result">> /\ Roles(Coming)' = <<>>
    BY <1>5, <1>7, <1>8, <2>2 DEF Roles, ResultRoles, Zero
  <2>6. Cut(<<"result">>, <<"result">>, <<>>)
    BY <1>4, OneField
  <2> QED
    BY <1>1, <1>4, <2>2, <2>3, <2>4, <2>5, <2>6, ReadOn, Zenon
<1>9. CASE Some /\ version = "3.8"
  <2>1. Goto("SecurityReason", TRUE) /\ UNCHANGED <<authVars, out>>
    BY <1>9 DEF HandleSecurityResult, Some, Zero
  <2>2. /\ init' = "SecurityReason" /\ run' = "loop"
        /\ UNCHANGED <<link, version, scheme, stage, tight, creds, pending, out>>
    BY <1>7, <2>1 DEF Goto, Return, authVars
  <2>3. Standing'
    BY <1>1, <1>2, <2>2 DEF Standing, InitStates
  <2>4. Readers'
    BY <1>3, <2>2, Uncalled, QuietReaders
  <2>6. CASE Val(Coming, 2) = "0"
    <3>1. Roles(Coming) = <<"result", "reasonLen">> /\ Roles(Coming)' = <<"reasonLen">>
      BY <1>5, <1>7, <1>9, <2>2, <2>6 DEF Roles, ResultRoles, ReasonRoles, Some
    <3>2. Cut(<<"result", "reasonLen">>, <<"result">>, <<"reasonLen">>)
      BY FirstOfTwo
    <3> QED
      BY <1>1, <1>4, <2>2, <2>3, <2>4, <3>1, <3>2, ReadOn, Zenon
  <2>7. CASE Val(Coming, 2) # "0"
    <3>1. /\ Roles(Coming) = <<"result", "reasonLen", "reason">>
          /\ Roles(Coming)' = <<"reasonLen", "reason">>
      BY <1>5, <1>7, <1>9, <2>2, <2>7 DEF Roles, ResultRoles, ReasonRoles, Some
    <3>2. Cut(<<"result", "reasonLen", "reason">>, <<"result">>, <<"reasonLen", "reason">>)
      BY FirstOfThree
    <3> QED
      BY <1>1, <1>4, <2>2, <2>3, <2>4, <3>1, <3>2, ReadOn, Zenon
  <2> QED
    BY <2>6, <2>7
<1>10. CASE Some /\ version # "3.8"
  <2>1. Fail
    BY <1>10 DEF HandleSecurityResult, Some, Zero
  <2>2. Roles(Coming) = <<"result">> /\ Begins(<<"result">>, <<"result">>)
    BY <1>4, <1>7, <1>10, OneField DEF ResultRoles
  <2> QED
    BY <1>1, <1>3, <1>4, <2>1, <2>2, FailsHere, Zenon
<1> QED
  BY <1>8, <1>9, <1>10 DEF Some, Zero

(* The client waits for the opening of the type it has chosen.             *)
LEMMA AwaitedChoice ==
  ASSUME init' = "Authentication", stage' = 0, pending' # "ard", ~tight',
         NEW t, scheme' = t
  PROVE  Awaited(<<"choice", t>>)'
<1>1. <<"choice", t>>[1] = "choice" /\ <<"choice", t>>[2] = t
  OBVIOUS
<1> QED
  BY <1>1 DEF Awaited

(* A security type is entered at its beginning.                            *)
LEMMA EnterType ==
  ASSUME Standing, Typed, init # "Authentication", ~tight,
         NEW t \in Supported, init' = "Authentication", scheme' = t,
         UNCHANGED <<version, stage, tight, creds, pending>>,
         version \in {"3.3", "3.7", "3.8"}
  PROVE  Standing' /\ Awaited(<<"choice", t>>)' /\ <<"choice", t>> \in Labels
<1>1. stage' = 0 /\ tight' = FALSE /\ pending' \notin {"ard", "approve"}
  BY DEF Standing, Typed
<1>2. stage' \in Stages(scheme)'
  BY <1>1 DEF Stages
<1>3. Standing'
  BY <1>1, <1>2 DEF Standing, InitStates
<1>4. Awaited(<<"choice", t>>)'
  <2>1. stage' = 0 /\ ~tight' /\ pending' # "ard"
    BY <1>1
  <2> QED
    BY <2>1, AwaitedChoice
<1>5. <<"choice", t>> \in Labels
  BY LabelsAre DEF Words
<1> QED
  BY <1>3, <1>4, <1>5

(* The choice of a security type.                                          *)
LEMMA SecurityGoes ==
  ASSUME Typed, Talking, NegotiateSecurity PROVE Goes \/ Fails
<1>1. init = "Security" /\ run # "idle"
  BY DEF NegotiateSecurity, In
<1>2. Standing /\ Readers /\ Fits(Coming)
  BY DEF Talking
<1>3. ~Called /\ run # "once"
  BY <1>1, <1>2, OnlyAsking DEF Called
<1>4. run = "loop" /\ rQ # <<>> /\ Has(1)
  <2>1. run = "loop" /\ rQ # <<>>
    BY <1>1, <1>2, <1>3 DEF Readers, Typed
  <2> QED
    BY <2>1 DEF Has, Typed
<1>5. /\ version \in {"3.3", "3.7", "3.8"} /\ tight = FALSE /\ stage = 0
      /\ pending \notin {"ard", "approve"}
  BY <1>1, <1>2 DEF Standing, Typed
<1>6. Roles(Coming) = SecurityRoles(Coming)
  BY <1>1 DEF Roles
<1>7. {"ntypes", "types", "scheme", "challenge", "reasonLen", "reason"} \subseteq Names
  BY DEF Names
<1>8. CASE /\ Read(IF version \in New THEN <<"ntypes">> ELSE <<"scheme">>)
           /\ Zero /\ Goto("SecurityReason", TRUE) /\ UNCHANGED <<authVars, out>>
  <2> DEFINE first == IF version \in New THEN "ntypes" ELSE "scheme"
  <2>1. Read(<<first>>) /\ first \in Names
    BY <1>7, <1>8
  <2>2. /\ init' = "SecurityReason" /\ run' = "loop"
        /\ UNCHANGED <<link, version, scheme, stage, tight, creds, pending, out>>
    BY <1>4, <1>8 DEF Goto, Return, authVars
  <2>3. Standing'
    BY <1>5, <2>2 DEF Standing, InitStates
  <2>4. Readers'
    BY <1>3, <2>2, Uncalled, QuietReaders
  <2>5. Val(Coming, 1) = "0" /\ Val(Coming', 1) = Val(Coming, 2)
    <3>1. Val(Coming, 1) = rQ[1].val /\ Val(Coming', 1) = Val(Coming, 2)
      BY <2>1, SeenOne, AfterOne
    <3> QED
      BY <1>8, <3>1 DEF Zero
  <2>6. <<first>> \in Seq(Names) /\ Len(<<first>>) >= 1
    BY <2>1, OneField
  <2>7. CASE Val(Coming, 2) = "0"
    <3>1. Roles(Coming) = <<first, "reasonLen">> /\ Roles(Coming)' = <<"reasonLen">>
      BY <1>6, <2>2, <2>5, <2>7 DEF Roles, SecurityRoles, ReasonRoles
    <3> HIDE DEF first
    <3>2. Cut(<<first, "reasonLen">>, <<first>>, <<"reasonLen">>)
      BY FirstOfTwo
    <3> QED
      BY <2>1, <2>2, <2>3, <2>4, <2>6, <3>1, <3>2, ReadOn, Zenon
  <2>8. CASE Val(Coming, 2) # "0"
    <3>1. /\ Roles(Coming) = <<first, "reasonLen", "reason">>
          /\ Roles(Coming)' = <<"reasonLen", "reason">>
      BY <1>6, <2>2, <2>5, <2>8 DEF Roles, SecurityRoles, ReasonRoles
    <3> HIDE DEF first
    <3>2. Cut(<<first, "reasonLen", "reason">>, <<first>>, <<"reasonLen", "reason">>)
      BY FirstOfThree
    <3> QED
      BY <2>1, <2>2, <2>3, <2>4, <2>6, <3>1, <3>2, ReadOn, Zenon
  <2> QED
    BY <2>7, <2>8
<1>9. CASE /\ version \notin New /\ Read(<<"scheme">>) /\ Some
           /\ scheme' = rQ[1].val /\ Goto("Authentication", TRUE)
           /\ UNCHANGED <<out, version, stage, tight, creds, pending>>
  <2>1. "scheme" \in Names /\ <<"scheme">> \in Seq(Names) /\ Len(<<"scheme">>) >= 1
    BY <1>7, OneField
  <2>2. Val(Coming, 1) = rQ[1].val
    BY <1>9, <2>1, SeenOne
  <2>3. rQ[1].val \in {"none", "vnc", "other"}
    <3>1. rQ[1] = Coming[1] /\ Len(Coming) > 0
      <4>1. Len(Coming) = Len(rQ) + Len(net) /\ \A i \in 1 .. Len(rQ) : Coming[i] = rQ[i]
        BY ComingIs DEF Typed
      <4>2. Len(rQ) \in Nat /\ Len(net) \in Nat /\ Len(rQ) >= 1
        BY <1>4 DEF Typed, Has
      <4> QED
        BY <4>1, <4>2
    <3>2. rQ[1].val \in {"0", "none", "vnc", "other"}
      BY <1>1, <1>2, <1>9, <3>1 DEF Fits
    <3> QED
      BY <1>9, <3>2 DEF Some
  <2>4. /\ init' = "Authentication" /\ run' = "loop"
        /\ UNCHANGED <<link, version, stage, tight, creds, pending, out>>
    BY <1>4, <1>9 DEF Goto, Return
  <2>5. Standing'
    <3>1. CASE rQ[1].val \in Supported
      BY <1>1, <1>2, <1>5, <1>9, <2>4, <3>1, EnterType
    <3>2. CASE rQ[1].val = "other"
      <4>1. scheme' = "other" /\ stage' \in Stages(scheme)' /\ tight' = FALSE
        BY <1>5, <1>9, <2>4, <3>2 DEF Stages
      <4> QED
        BY <1>5, <2>4, <4>1 DEF Standing, InitStates
    <3> QED
      BY <2>3, <3>1, <3>2 DEF Supported
  <2>6. Readers'
    BY <1>3, <2>4, Uncalled, QuietReaders
  <2>7. CASE rQ[1].val \in {"none", "other"}
    <3>1. Roles(Coming) = <<"scheme">> /\ Roles(Coming)' = <<>>
      BY <1>5, <1>6, <1>9, <2>2, <2>4, <2>7 DEF Roles, AuthRoles, SecurityRoles, New
    <3>2. Cut(<<"scheme">>, <<"scheme">>, <<>>)
      BY <2>1, OneField
    <3> QED
      BY <1>9, <2>1, <2>4, <2>5, <2>6, <3>1, <3>2, ReadOn, Zenon
  <2>8. CASE rQ[1].val = "vnc"
    <3>1. Roles(Coming) = <<"scheme", "challenge">> /\ Roles(Coming)' = <<"challenge">>
      BY <1>5, <1>6, <1>9, <2>2, <2>4, <2>8 DEF Roles, AuthRoles, SecurityRoles, New
    <3>2. Cut(<<"scheme", "challenge">>, <<"scheme">>, <<"challenge">>)
      BY FirstOfTwo
    <3> QED
      BY <1>9, <2>1, <2>4, <2>5, <2>6, <3>1, <3>2, ReadOn, Zenon
  <2> QED
    BY <2>3, <2>7, <2>8
<1>10. CASE /\ version \in New /\ Read(<<"ntypes", "types">>) /\ Some
            /\ \/ NoneOf(rQ[2].val, Supported) /\ Fail
               \/ \E t \in Supported :
                  /\ FirstOf(t, rQ[2].val, Supported)
                  /\ scheme' = t /\ Reply(<<"choice", t>>)
                  /\ Goto("Authentication", TRUE)
                  /\ UNCHANGED <<version, stage, tight, creds, pending>>
  <2>1. /\ <<"ntypes", "types">> \in Seq(Names) /\ Len(<<"ntypes", "types">>) >= 1
        /\ Begins(<<"ntypes", "types">>, <<"ntypes", "types">>)
    BY <1>7, TwoFields
  <2>2. Roles(Coming) = <<"ntypes", "types">>
    <3>1. Val(Coming, 1) = rQ[1].val
      BY <1>4, Seen DEF Typed
    <3> QED
      BY <1>6, <1>10, <3>1 DEF SecurityRoles, Some
  <2>3. CASE Fail
    BY <1>3, <1>10, <2>1, <2>2, <2>3, FailsHere, Zenon
  <2>4. CASE \E t \in Supported :
               /\ scheme' = t /\ Reply(<<"choice", t>>)
               /\ Goto("Authentication", TRUE)
               /\ UNCHANGED <<version, stage, tight, creds, pending>>
    <3>1. PICK t \in Supported : /\ scheme' = t /\ Reply(<<"choice", t>>)
                                 /\ Goto("Authentication", TRUE)
                                 /\ UNCHANGED <<version, stage, tight, creds, pending>>
      BY <2>4
    <3>2. init' = "Authentication" /\ UNCHANGED link /\ run' = "loop"
      BY <1>4, <3>1 DEF Goto, Return
    <3>3. Standing' /\ Awaited(<<"choice", t>>)' /\ <<"choice", t>> \in Labels
      BY <1>1, <1>2, <1>5, <3>1, <3>2, EnterType
    <3>4. Readers'
      BY <1>3, <3>1, <3>2, Uncalled, QuietReaders
    <3>5. run' # "idle"
      BY <3>2
    <3> QED
      BY <1>10, <2>1, <2>2, <3>1, <3>2, <3>3, <3>4, <3>5, ReadReply, Zenon
  <2> QED
    BY <1>10, <2>3, <2>4
<1>11. ~ReadPast
  BY <1>4 DEF ReadPast
<1> QED
  BY <1>8, <1>9, <1>10, <1>11 DEF NegotiateSecurity

(* The client's own initialisation.                                        *)
LEMMA ClientInitGoes ==
  ASSUME Typed, Talking, ClientInitialisation PROVE Goes
<1>1. /\ init = "ClientInitialisation" /\ run # "idle"
      /\ Reply(<<"clientinit">>) /\ Goto("ServerInitialisation", TRUE)
      /\ UNCHANGED <<version, scheme, stage, tight, creds, pending, net, rQ, misread>>
  BY DEF ClientInitialisation, In, authVars
<1>2. Standing /\ Readers /\ Line
  BY DEF Talking
<1>3. ~Called /\ run = "loop"
  BY <1>1, <1>2, OnlyAsking DEF Called, Typed
<1>4. init' = "ServerInitialisation" /\ UNCHANGED link /\ run' = "loop"
  BY <1>1, <1>3 DEF Goto, Return
<1>5. Standing'
  BY <1>1, <1>2, <1>4 DEF Standing, InitStates
<1>6. Readers'
  BY <1>1, <1>3, <1>4, Uncalled, QuietReaders
<1>7. Awaited(<<"clientinit">>)' /\ <<"clientinit">>[1] \in {"xvp", "credentials", "clientinit"}
  BY <1>4 DEF Awaited
<1>8. <<"clientinit">> \in Labels
  BY LabelsAre DEF Words
<1>9. Roles(Coming) = <<>>
  BY <1>1 DEF Roles
<1>10. out = <<>> \/ link.sock # "open" \/ (Len(out) = 1 /\ \E k : k = out[1] /\ Mute(k)')
  <2> SUFFICES ASSUME link.sock = "open", out # <<>>
               PROVE  Len(out) = 1 /\ \E k : k = out[1] /\ Mute(k)'
    OBVIOUS
  <2>1. OutFits
    BY <1>2 DEF Line
  <2>2. \A l : Awaited(l) => l[1] = "choice" /\ l[2] = "none" /\ version # "3.8" /\ ~tight
    BY <1>1 DEF Awaited
  <2>3. Len(out) = 1 /\ Awaited(out[1])
    BY <2>1, <2>2 DEF OutFits
  <2>4. out[1][1] = "choice" /\ out[1][2] = "none" /\ version # "3.8" /\ ~tight
    BY <2>2, <2>3
  <2>5. \A k : k[1] = "choice" /\ k[2] = "none" => Mute(k)'
    BY <1>1, <2>4 DEF Mute
  <2> QED
    BY <2>3, <2>4, <2>5
<1>11. run' # "idle"
  BY <1>4
<1> QED
  BY <1>1, <1>4, <1>5, <1>6, <1>7, <1>8, <1>9, <1>10, <1>11, SpeakOut, Zenon

-----------------------------------------------------------------------------
(* A handler that answers without a message is called for once.            *)
LEMMA Answering ==
  ASSUME Typed, Standing, Readers, run # "idle", init = "Authentication", creds = "given",
         scheme # "ra2", scheme # "ard" \/ stage = 1
  PROVE  pending = "nothing"
<1>1. pending # "approve"
  BY DEF Standing
<1>2. CASE run = "once"
  BY <1>2 DEF Readers
<1>3. CASE run = "loop"
  BY <1>1, <1>3 DEF Readers, Called, Typed
<1> QED
  BY <1>2, <1>3 DEF Typed

(* A choice of these types has no answer of its own.                       *)
LEMMA MuteBefore ==
  ASSUME Line, init = "Authentication", scheme \in {"plain", "unix", "xvp"}
  PROVE  out = <<>> \/ link.sock # "open" \/ (Len(out) = 1 /\ \E k : k = out[1] /\ Mute(k)')
<1> SUFFICES ASSUME link.sock = "open", out # <<>>
             PROVE  Len(out) = 1 /\ \E k : k = out[1] /\ Mute(k)'
  OBVIOUS
<1>1. OutFits
  BY DEF Line
<1>2. \A l : Awaited(l) => l[1] = "choice" /\ l[2] \in {"plain", "unix", "xvp"}
  BY DEF Awaited
<1>3. Len(out) = 1 /\ Awaited(out[1])
  BY <1>1, <1>2 DEF OutFits
<1>4. \A k : k[1] = "choice" /\ k[2] \in {"plain", "unix", "xvp"} => Mute(k)'
  BY DEF Mute
<1> QED
  BY <1>2, <1>3, <1>4

(* The page is asked for credentials.                                      *)
LEMMA AskGoes ==
  ASSUME Typed, Talking, init = "Authentication", scheme \in Asking, Ask,
         scheme \in {"vnc", "mslogon"} => rQ # <<>>
  PROVE  Goes
<1>1. Standing /\ Readers
  BY DEF Talking
<1>2. /\ creds # "given" /\ creds' = "asked" /\ run' = "idle"
      /\ UNCHANGED <<link, out, misread, init, version, scheme, stage, tight, pending, rQ, net>>
  BY DEF Ask, Goto, Return
<1>3. pending # "resume" /\ pending # "ard"
  BY <1>1, <1>2 DEF Readers, Standing
<1>4. Standing'
  BY <1>1, <1>2, <1>3 DEF Standing, Asking
<1>5. Readers'
  BY <1>2, <1>3 DEF Readers, Called
<1>6. Waits'
  BY <1>2 DEF Waits
<1> QED
  BY <1>2, <1>4, <1>5, <1>6, Stay

(* After no authentication at all.                                         *)
LEMMA NoneGoes ==
  ASSUME Typed, Talking, AuthNone PROVE Goes
<1>1. /\ init = "Authentication" /\ scheme = "none" /\ run # "idle"
      /\ Goto(IF version = "3.8" THEN "SecurityResult" ELSE "ClientInitialisation", TRUE)
      /\ UNCHANGED <<version, scheme, stage, tight, creds, pending, out, net, rQ, misread>>
  BY DEF AuthNone, Auth, In, authVars
<1>2. Standing /\ Readers
  BY DEF Talking
<1>3. ~Called /\ run = "loop"
  BY <1>1, <1>2, OnlyAsking DEF Called, Typed, Asking
<1>4. /\ init' = IF version = "3.8" THEN "SecurityResult" ELSE "ClientInitialisation"
      /\ UNCHANGED link /\ run' = "loop"
  BY <1>1, <1>3 DEF Goto, Return
<1>5. stage = 0 /\ ~tight /\ pending \notin {"ard", "approve"}
  BY <1>1, <1>2 DEF Standing, Stages
<1>6. Standing'
  BY <1>1, <1>2, <1>4, <1>5 DEF Standing, InitStates
<1>7. Readers'
  BY <1>1, <1>3, <1>4, Uncalled, QuietReaders
<1>8. Coming' = Coming
  BY <1>1 DEF Coming
<1>9. Roles(Coming)' = Roles(Coming)
  BY <1>1, <1>4, <1>8 DEF Roles, AuthRoles, ResultRoles
<1>10. \A l : Awaited(l) => Awaited(l)'
  BY <1>1, <1>4, <1>5 DEF Awaited
<1>11. run' # "idle" /\ (init' = "Security" => init = "Security")
  BY <1>4
<1> QED
  BY <1>1, <1>4, <1>6, <1>7, <1>9, <1>10, <1>11, Passes

(* A type the code does not know.                                          *)
LEMMA UnsupportedFails ==
  ASSUME Typed, Talking, AuthUnsupported PROVE Fails
<1>1. /\ init = "Authentication" /\ scheme = "other"
      /\ link' = Failed(link) /\ run' = "idle"
      /\ UNCHANGED <<creds, pending, out, net, rQ, misread>>
  BY DEF AuthUnsupported, Auth, In, Fail, authVars
<1>2. ~Called
  BY <1>1, OnlyAsking DEF Talking, Asking
<1>3. ~Called'
  BY <1>1, <1>2 DEF Called
<1> QED
  BY <1>1, <1>2, <1>3 DEF Fails, Typed

(* A name and a password.                                                  *)
LEMMA PlainGoes ==
  ASSUME Typed, Talking, AuthPlain PROVE Goes
<1>1. init = "Authentication" /\ scheme \in {"plain", "unix"} /\ run # "idle"
  BY DEF AuthPlain, Auth, In
<1>2. Standing /\ Readers /\ Line
  BY DEF Talking
<1>3. CASE Ask
  BY <1>1, <1>3, AskGoes DEF Asking
<1>4. CASE /\ creds = "given" /\ Reply(<<"credentials">>) /\ Goto("SecurityResult", TRUE)
           /\ UNCHANGED <<authVars, net, rQ, misread>>
  <2>1. pending = "nothing"
    BY <1>1, <1>2, <1>4, Answering
  <2>2. /\ init' = "SecurityResult" /\ run' # "once"
        /\ UNCHANGED <<link, version, scheme, stage, tight, creds, pending, rQ, net, misread>>
    BY <1>4 DEF Goto, Return, authVars
  <2>3. stage = 0
    BY <1>1, <1>2 DEF Standing, Stages
  <2>4. Standing'
    BY <1>1, <1>2, <2>1, <2>2, <2>3 DEF Standing, InitStates
  <2>5. ~Called'
    BY <1>4, <2>1, <2>2 DEF Called
  <2>6. Readers'
    BY <2>2, <2>5, QuietReaders
  <2>7. Roles(Coming) = <<>>
    BY <1>1 DEF Roles, AuthRoles
  <2>8. Awaited(<<"credentials">>)' /\ Needs'
        /\ <<"credentials">>[1] \in {"xvp", "credentials", "clientinit"}
    BY <2>2 DEF Awaited, Needs
  <2>9. <<"credentials">> \in Labels
    BY LabelsAre DEF Words
  <2>10. out = <<>> \/ link.sock # "open" \/ (Len(out) = 1 /\ \E k : k = out[1] /\ Mute(k)')
    BY <1>1, <1>2, MuteBefore
  <2> QED
    BY <1>4, <2>2, <2>4, <2>6, <2>7, <2>8, <2>9, <2>10, SpeakOut, Zenon
<1> QED
  BY <1>3, <1>4 DEF AuthPlain

(* XVP, which goes on as the VNC authentication.                           *)
LEMMA XvpGoes ==
  ASSUME Typed, Talking, AuthXvp PROVE Goes
<1>1. init = "Authentication" /\ scheme = "xvp" /\ run # "idle"
  BY DEF AuthXvp, Auth, In
<1>2. Standing /\ Readers /\ Line
  BY DEF Talking
<1>3. CASE Ask
  BY <1>1, <1>3, AskGoes DEF Asking
<1>4. CASE /\ creds = "given" /\ Reply(<<"xvp">>)
           /\ scheme' = "vnc" /\ Goto(init, TRUE)
           /\ UNCHANGED <<version, stage, tight, creds, pending, net, rQ, misread>>
  <2>1. pending = "nothing"
    BY <1>1, <1>2, <1>4, Answering
  <2>2. init' = "Authentication" /\ run' # "once" /\ UNCHANGED link
    BY <1>1, <1>4 DEF Goto, Return
  <2>3. stage = 0
    BY <1>1, <1>2 DEF Standing, Stages
  <2>4. Standing'
    <3>1. stage' \in Stages(scheme)'
      BY <1>4, <2>3 DEF Stages
    <3>2. /\ version' \in {"3.3", "3.7", "3.8"} /\ scheme' = "vnc" /\ pending' = "nothing"
          /\ scheme' \in Supported \union {"unix"}
      BY <1>1, <1>2, <1>4, <2>1 DEF Standing, Supported
    <3> QED
      BY <2>2, <3>1, <3>2 DEF Standing, InitStates
  <2>5. ~Called'
    BY <1>4, <2>1, <2>2 DEF Called
  <2>6. Readers'
    BY <2>2, <2>5, QuietReaders
  <2>7. Roles(Coming) = <<>>
    BY <1>1 DEF Roles, AuthRoles
  <2>8. Awaited(<<"xvp">>)' /\ Needs'
        /\ <<"xvp">>[1] \in {"xvp", "credentials", "clientinit"}
    BY <1>4, <2>1, <2>2, <2>3 DEF Awaited, Needs
  <2>9. <<"xvp">> \in Labels
    BY LabelsAre DEF Words
  <2>10. out = <<>> \/ link.sock # "open" \/ (Len(out) = 1 /\ \E k : k = out[1] /\ Mute(k)')
    BY <1>1, <1>2, MuteBefore
  <2>11. UNCHANGED <<link, rQ, net, misread>>
    BY <1>4, <2>2
  <2> QED
    BY <1>4, <2>4, <2>6, <2>7, <2>8, <2>9, <2>10, <2>11, SpeakOut, Zenon
<1> QED
  BY <1>3, <1>4 DEF AuthXvp

(* A challenge.                                                            *)
LEMMA ChallengeGoes ==
  ASSUME Typed, Talking, AuthChallenge PROVE Goes
<1>1. init = "Authentication" /\ scheme \in {"vnc", "mslogon"} /\ run # "idle" /\ Has(1)
  BY DEF AuthChallenge, Auth, In
<1>2. Standing /\ Readers
  BY DEF Talking
<1>3. CASE Ask
  <2>1. rQ # <<>>
    BY <1>1 DEF Has
  <2> QED
    BY <1>1, <1>3, <2>1, AskGoes DEF Asking
<1>4. CASE /\ creds = "given" /\ Read(<<"challenge">>)
           /\ Reply(<<"response">>) /\ Goto("SecurityResult", TRUE)
           /\ UNCHANGED authVars
  <2>1. pending = "nothing"
    BY <1>1, <1>2, <1>4, Answering
  <2>2. /\ init' = "SecurityResult" /\ run' # "once"
        /\ UNCHANGED <<link, version, scheme, stage, tight, creds, pending>>
    BY <1>4 DEF Goto, Return, authVars
  <2>3. stage = 0
    BY <1>1, <1>2 DEF Standing, Stages
  <2>4. Standing'
    BY <1>1, <1>2, <2>1, <2>2, <2>3 DEF Standing, InitStates
  <2>5. ~Called'
    BY <1>4, <2>1, <2>2 DEF Called
  <2>6. Readers'
    BY <2>2, <2>5, QuietReaders
  <2>7. Roles(Coming) = <<"challenge">>
    BY <1>1 DEF Roles, AuthRoles
  <2>8. <<"challenge">> \in Seq(Names) /\ Len(<<"challenge">>) >= 1
    BY OneField DEF Names
  <2>9. Awaited(<<"response">>)' /\ Needs'
    BY <2>2 DEF Awaited, Needs
  <2>10. <<"response">> \in Labels
    BY LabelsAre DEF Words
  <2> QED
    BY <1>4, <2>2, <2>4, <2>6, <2>7, <2>8, <2>9, <2>10, ReadReply, Zenon
<1> QED
  BY <1>3, <1>4 DEF AuthChallenge

(* Apple's, whose answer is computed meanwhile.                            *)
LEMMA ArdGoes ==
  ASSUME Typed, Talking, AuthArd PROVE Goes
<1>1. init = "Authentication" /\ scheme = "ard" /\ run # "idle"
  BY DEF AuthArd, Auth, In
<1>2. Standing /\ Readers /\ Line
  BY DEF Talking
<1>3. CASE Ask
  BY <1>1, <1>3, AskGoes DEF Asking
<1>4. CASE /\ creds = "given" /\ stage = 1
           /\ Reply(<<"response">>) /\ Goto("SecurityResult", TRUE) /\ stage' = 0
           /\ UNCHANGED <<version, scheme, tight, creds, pending, net, rQ, misread>>
  <2>1. pending = "nothing"
    BY <1>1, <1>2, <1>4, Answering
  <2>2. init' = "SecurityResult" /\ run' # "once" /\ UNCHANGED <<link, rQ, net, misread>>
    BY <1>4 DEF Goto, Return
  <2>3. Standing'
    BY <1>1, <1>2, <1>4, <2>1, <2>2 DEF Standing, InitStates
  <2>4. ~Called'
    BY <1>4, <2>1, <2>2 DEF Called
  <2>5. Readers'
    BY <2>2, <2>4, QuietReaders
  <2>6. Roles(Coming) = <<>>
    BY <1>1, <1>4 DEF Roles, AuthRoles
  <2>7. Awaited(<<"response">>)' /\ Needs'
    BY <2>2 DEF Awaited, Needs
  <2>8. <<"response">> \in Labels
    BY LabelsAre DEF Words
  <2>9. out = <<>> \/ link.sock # "open"
    <3>1. \A l : ~Awaited(l)
      BY <1>1, <1>4 DEF Awaited
    <3> QED
      BY <1>2, <3>1 DEF Line, OutFits
  <2> QED
    BY <1>4, <2>2, <2>3, <2>5, <2>6, <2>7, <2>8, <2>9, SpeakOut, Zenon
<1>5. CASE /\ creds = "given" /\ stage = 0 /\ Read(<<"ardHead", "ardKeys">>)
           /\ pending' = "ard" /\ Goto(init, FALSE)
           /\ UNCHANGED <<out, version, scheme, stage, tight, creds>>
  <2>1. pending # "ard"
    BY <1>1, <1>2 DEF Readers, Called, Typed
  <2>2. init' = "Authentication" /\ run' = "idle" /\ UNCHANGED <<link, out>>
    BY <1>1, <1>5 DEF Goto, Return
  <2>3. Standing'
    BY <1>1, <1>2, <1>5, <2>2 DEF Standing
  <2>4. Readers'
    BY <1>1, <1>5, <2>2 DEF Readers, Called, Asking
  <2>5. Roles(Coming) = <<"ardHead", "ardKeys">> /\ Roles(Coming)' = <<>>
    BY <1>1, <1>5, <2>1, <2>2 DEF Roles, AuthRoles
  <2>6. "ardHead" \in Names /\ "ardKeys" \in Names
    BY DEF Names
  <2>7. /\ <<"ardHead", "ardKeys">> \in Seq(Names) /\ Len(<<"ardHead", "ardKeys">>) >= 1
        /\ Cut(<<"ardHead", "ardKeys">>, <<"ardHead", "ardKeys">>, <<>>)
    BY <2>6, TwoFields
  <2>8. Waits' /\ init' # "Security"
    BY <1>5, <2>2 DEF Waits
  <2> QED
    BY <1>5, <2>2, <2>3, <2>4, <2>5, <2>7, <2>8, ReadOn, Zenon
<1> QED
  BY <1>3, <1>4, <1>5 DEF AuthArd

(* RSA-AES, which a call starts.                                           *)
LEMMA Ra2Goes ==
  ASSUME Typed, Talking, AuthRa2 PROVE Goes
<1>1. /\ init = "Authentication" /\ scheme = "ra2" /\ run # "idle"
      /\ stage' = (IF stage = 0 THEN 1 ELSE stage) /\ Goto(init, FALSE)
      /\ UNCHANGED <<out, version, scheme, tight, creds, pending, net, rQ, misread>>
  BY DEF AuthRa2, Auth, In
<1>2. Standing /\ Readers
  BY DEF Talking
<1>3. init' = "Authentication" /\ UNCHANGED link /\ run' = "idle"
  BY <1>1 DEF Goto, Return
<1>4. stage \in 0 .. 6 /\ stage' \in 1 .. 6
  BY <1>1 DEF Typed
<1>5. Standing'
  <2>1. stage' \in Stages(scheme)'
    BY <1>1, <1>4 DEF Stages
  <2>2. pending' # "ard" /\ ~tight'
    BY <1>1, <1>2 DEF Standing
  <2>3. /\ pending' = "approve" <=> stage' = 2
        /\ stage' = 6 => creds' # "none"
    BY <1>1, <1>2, <1>4 DEF Standing
  <2> QED
    BY <1>1, <1>2, <1>3, <2>1, <2>2, <2>3 DEF Standing, Supported
<1>6. Readers'
  BY <1>1, <1>2, <1>3 DEF Readers, Called, Asking
<1>7. Roles(Coming)' = Roles(Coming)
  BY <1>1, <1>3, <1>4 DEF Roles, AuthRoles, Ra2Roles
<1>8. \A l : Awaited(l) => Awaited(l)'
  BY <1>1, <1>3, <1>4 DEF Awaited
<1>9. Waits'
  BY <1>1, <1>3, <1>4 DEF Waits
<1>10. UNCHANGED <<link, out, misread, version, tight, rQ, net>>
       /\ (init' = "Security" => init = "Security")
  BY <1>1, <1>3
<1> QED
  BY <1>5, <1>6, <1>7, <1>8, <1>9, <1>10, Passes

-----------------------------------------------------------------------------
(* Tight's tunnels.                                                        *)
LEMMA TunnelsGo ==
  ASSUME Typed, Talking, AuthTightTunnels PROVE Goes \/ Fails
<1>1. /\ init = "Authentication" /\ scheme = "tight" /\ ~tight /\ run # "idle" /\ tight' = TRUE
      /\ UNCHANGED <<version, scheme, stage, creds, pending>>
  BY DEF AuthTightTunnels, Auth, In
<1>2. Standing /\ Readers
  BY DEF Talking
<1>3. ~Called /\ run = "loop"
  BY <1>1, <1>2, OnlyAsking DEF Called, Typed, Asking
<1>4. stage = 0 /\ pending \notin {"ard", "approve"}
  BY <1>1, <1>2 DEF Standing, Stages
<1>5. {"ntunnels", "tunnels", "nauths", "auths", "result", "reasonLen", "reason"} \subseteq Names
  BY DEF Names
<1>6. ASSUME init' = "Authentication" PROVE Standing'
  <2>1. stage' \in Stages(scheme)'
    BY <1>1, <1>4 DEF Stages
  <2> QED
    BY <1>1, <1>2, <1>4, <1>6, <2>1 DEF Standing, InitStates
<1>7. Roles(Coming) = TunnelRoles(Coming)
  BY <1>1 DEF Roles, AuthRoles
<1>8. CASE /\ Zero /\ Read(<<"ntunnels">>) /\ Goto(init, TRUE) /\ UNCHANGED out
  <2>1. init' = "Authentication" /\ run' = "loop" /\ UNCHANGED <<link, out>>
    BY <1>1, <1>3, <1>8 DEF Goto, Return
  <2>2. Standing' /\ Readers'
    BY <1>1, <1>3, <1>6, <2>1, Uncalled, QuietReaders
  <2>3. /\ "ntunnels" \in Names /\ <<"ntunnels">> \in Seq(Names) /\ Len(<<"ntunnels">>) >= 1
    BY <1>5, OneField
  <2>4. /\ Val(Coming', 1) = Val(Coming, 2) /\ Val(Coming', 2) = Val(Coming, 3)
        /\ Val(Coming', 3) = Val(Coming, 4)
    BY <1>8, <2>3, AfterOne
  <2>5. Val(Coming, 1) = "0"
    BY <1>8, <2>3, SeenOne DEF Zero
  <2>6. Roles(Coming)' = TightRoles(Coming)'
    BY <1>1, <2>1 DEF Roles, AuthRoles
  <2>7. CASE Val(Coming, 2) # "0"
    <3>1. /\ Roles(Coming) = <<"ntunnels", "nauths", "auths">>
          /\ Roles(Coming)' = <<"nauths", "auths">>
      BY <1>7, <2>4, <2>5, <2>6, <2>7 DEF TunnelRoles, TightRoles
    <3>2. Cut(<<"ntunnels", "nauths", "auths">>, <<"ntunnels">>, <<"nauths", "auths">>)
      BY FirstOfThree
    <3> QED
      BY <1>8, <2>1, <2>2, <2>3, <3>1, <3>2, ReadOn, Zenon
  <2>8. CASE Val(Coming, 2) = "0" /\ (Val(Coming, 3) = "0" \/ version # "3.8")
    <3>1. /\ Roles(Coming) = <<"ntunnels", "nauths", "result">>
          /\ Roles(Coming)' = <<"nauths", "result">>
      BY <1>1, <1>7, <2>4, <2>5, <2>6, <2>8 DEF TunnelRoles, TightRoles
    <3>2. Cut(<<"ntunnels", "nauths", "result">>, <<"ntunnels">>, <<"nauths", "result">>)
      BY FirstOfThree
    <3> QED
      BY <1>8, <2>1, <2>2, <2>3, <3>1, <3>2, ReadOn, Zenon
  <2>9. CASE Val(Coming, 2) = "0" /\ Val(Coming, 3) # "0" /\ version = "3.8"
             /\ Val(Coming, 4) = "0"
    <3>1. /\ Roles(Coming) = <<"ntunnels", "nauths", "result", "reasonLen">>
          /\ Roles(Coming)' = <<"nauths", "result", "reasonLen">>
      BY <1>1, <1>7, <2>4, <2>5, <2>6, <2>9 DEF TunnelRoles, TightRoles
    <3>2. Cut(<<"ntunnels", "nauths", "result", "reasonLen">>, <<"ntunnels">>,
              <<"nauths", "result", "reasonLen">>)
      BY FirstOfFour
    <3> QED
      BY <1>8, <2>1, <2>2, <2>3, <3>1, <3>2, ReadOn, Zenon
  <2>10. CASE Val(Coming, 2) = "0" /\ Val(Coming, 3) # "0" /\ version = "3.8"
              /\ Val(Coming, 4) # "0"
    <3>1. /\ Roles(Coming) = <<"ntunnels", "nauths", "result", "reasonLen", "reason">>
          /\ Roles(Coming)' = <<"nauths", "result", "reasonLen", "reason">>
      BY <1>1, <1>7, <2>4, <2>5, <2>6, <2>10 DEF TunnelRoles, TightRoles
    <3>2. Cut(<<"ntunnels", "nauths", "result", "reasonLen", "reason">>, <<"ntunnels">>,
              <<"nauths", "result", "reasonLen", "reason">>)
      BY FirstOfFive
    <3> QED
      BY <1>8, <2>1, <2>2, <2>3, <3>1, <3>2, ReadOn, Zenon
  <2> QED
    BY <2>7, <2>8, <2>9, <2>10
<1>9. CASE /\ Has(1) /\ Some /\ Read(<<"ntunnels", "tunnels">>)
           /\ \/ Reply(<<"tunnel">>) /\ Goto(init, FALSE)
              \/ link' = Failed(link) /\ run' = "idle" /\ UNCHANGED out
  <2>1. /\ <<"ntunnels", "tunnels">> \in Seq(Names) /\ Len(<<"ntunnels", "tunnels">>) >= 1
        /\ Begins(<<"ntunnels", "tunnels">>, <<"ntunnels", "tunnels">>)
    BY <1>5, TwoFields
  <2>2. Roles(Coming) = <<"ntunnels", "tunnels">>
    <3>1. Val(Coming, 1) = rQ[1].val
      BY <1>9, Seen DEF Typed
    <3> QED
      BY <1>7, <1>9, <3>1 DEF TunnelRoles, Some
  <2>3. CASE Reply(<<"tunnel">>) /\ Goto(init, FALSE)
    <3>1. init' = "Authentication" /\ run' = "idle" /\ UNCHANGED link
      BY <1>1, <2>3 DEF Goto, Return
    <3>2. Standing' /\ Readers'
      BY <1>1, <1>3, <1>6, <3>1, Uncalled, QuietReaders
    <3>3. Awaited(<<"tunnel">>)' /\ Needs'
      BY <1>1, <1>4, <3>1 DEF Awaited, Needs
    <3>4. <<"tunnel">> \in Labels
      BY LabelsAre DEF Words
    <3> QED
      BY <1>9, <2>1, <2>2, <2>3, <3>1, <3>2, <3>3, <3>4, ReadReply, Zenon
  <2>4. CASE link' = Failed(link) /\ run' = "idle" /\ UNCHANGED out
    <3>1. UNCHANGED <<creds, pending, out>>
      BY <1>1, <2>4
    <3> QED
      BY <1>3, <1>9, <2>1, <2>2, <2>4, <3>1, FailsReading, Zenon
  <2> QED
    BY <1>9, <2>3, <2>4
<1>10. \/ Zero /\ Read(<<"ntunnels">>) /\ Goto(init, TRUE) /\ UNCHANGED out
       \/ /\ Has(1) /\ Some /\ Read(<<"ntunnels", "tunnels">>)
          /\ \/ Reply(<<"tunnel">>) /\ Goto(init, FALSE)
             \/ link' = Failed(link) /\ run' = "idle" /\ UNCHANGED out
  BY Zenon DEF AuthTightTunnels
<1> QED
  BY <1>8, <1>9, <1>10

(* Tight's types.                                                          *)
LEMMA TightGoes ==
  ASSUME Typed, Talking, AuthTight PROVE Goes \/ Fails
<1>1. init = "Authentication" /\ scheme = "tight" /\ tight /\ run # "idle" /\ Has(1)
  BY DEF AuthTight, Auth, In
<1>2. Standing /\ Readers
  BY DEF Talking
<1>3. ~Called /\ run = "loop"
  BY <1>1, <1>2, OnlyAsking DEF Called, Typed, Asking
<1>4. stage = 0 /\ pending \notin {"ard", "approve"}
  BY <1>1, <1>2 DEF Standing, Stages
<1>5. {"nauths", "auths", "result", "reasonLen", "reason"} \subseteq Names
  BY DEF Names
<1>6. Roles(Coming) = TightRoles(Coming)
  BY <1>1 DEF Roles, AuthRoles
<1>7. CASE Zero /\ Read(<<"nauths">>) /\ Goto("SecurityResult", TRUE) /\ UNCHANGED <<authVars, out>>
  <2>1. /\ init' = "SecurityResult" /\ run' = "loop"
        /\ UNCHANGED <<link, out, version, scheme, stage, tight, creds, pending>>
    BY <1>1, <1>3, <1>7 DEF Goto, Return, authVars
  <2>2. Standing'
    BY <1>1, <1>2, <1>4, <2>1 DEF Standing, InitStates
  <2>3. Readers'
    BY <1>3, <2>1, Uncalled, QuietReaders
  <2>4. /\ "nauths" \in Names /\ <<"nauths">> \in Seq(Names) /\ Len(<<"nauths">>) >= 1
    BY <1>5, OneField
  <2>5. Val(Coming', 1) = Val(Coming, 2) /\ Val(Coming', 2) = Val(Coming, 3)
    BY <1>7, <2>4, AfterOne
  <2>6. Val(Coming, 1) = "0"
    BY <1>7, <2>4, SeenOne DEF Zero
  <2>7. Roles(Coming)' = ResultRoles(Coming)'
    BY <2>1 DEF Roles
  <2>8. CASE Val(Coming, 2) = "0" \/ version # "3.8"
    <3>1. Roles(Coming) = <<"nauths", "result">> /\ Roles(Coming)' = <<"result">>
      BY <1>6, <2>1, <2>5, <2>6, <2>7, <2>8 DEF TightRoles, ResultRoles
    <3>2. Cut(<<"nauths", "result">>, <<"nauths">>, <<"result">>)
      BY FirstOfTwo
    <3>3. init' # "Security" /\ run' # "idle"
      BY <2>1
    <3> QED
      BY <1>7, <2>1, <2>2, <2>3, <2>4, <3>1, <3>2, <3>3, ReadOn, Zenon
  <2>9. CASE Val(Coming, 2) # "0" /\ version = "3.8" /\ Val(Coming, 3) = "0"
    <3>1. /\ Roles(Coming) = <<"nauths", "result", "reasonLen">>
          /\ Roles(Coming)' = <<"result", "reasonLen">>
      BY <1>6, <2>1, <2>5, <2>6, <2>7, <2>9 DEF TightRoles, ResultRoles
    <3>2. Cut(<<"nauths", "result", "reasonLen">>, <<"nauths">>, <<"result", "reasonLen">>)
      BY FirstOfThree
    <3>3. init' # "Security" /\ run' # "idle"
      BY <2>1
    <3> QED
      BY <1>7, <2>1, <2>2, <2>3, <2>4, <3>1, <3>2, <3>3, ReadOn, Zenon
  <2>10. CASE Val(Coming, 2) # "0" /\ version = "3.8" /\ Val(Coming, 3) # "0"
    <3>1. /\ Roles(Coming) = <<"nauths", "result", "reasonLen", "reason">>
          /\ Roles(Coming)' = <<"result", "reasonLen", "reason">>
      BY <1>6, <2>1, <2>5, <2>6, <2>7, <2>10 DEF TightRoles, ResultRoles
    <3>2. Cut(<<"nauths", "result", "reasonLen", "reason">>, <<"nauths">>,
              <<"result", "reasonLen", "reason">>)
      BY FirstOfFour
    <3>3. init' # "Security" /\ run' # "idle"
      BY <2>1
    <3> QED
      BY <1>7, <2>1, <2>2, <2>3, <2>4, <3>1, <3>2, <3>3, ReadOn, Zenon
  <2> QED
    BY <2>8, <2>9, <2>10
<1>8. CASE Some /\ Read(<<"nauths", "auths">>)
  <2>1. /\ <<"nauths", "auths">> \in Seq(Names) /\ Len(<<"nauths", "auths">>) >= 1
        /\ Begins(<<"nauths", "auths">>, <<"nauths", "auths">>)
    BY <1>5, TwoFields
  <2>2. Roles(Coming) = <<"nauths", "auths">>
    <3>1. Val(Coming, 1) = rQ[1].val
      BY <1>1, Seen DEF Typed
    <3> QED
      BY <1>6, <1>8, <3>1 DEF TightRoles, Some
  <2>3. CASE Fail
    BY <1>3, <1>8, <2>1, <2>2, <2>3, FailsHere, Zenon
  <2>4. ASSUME NEW t, t = TightChoice(rQ[2].val), t # "other", Reply(<<"choice", t>>),
               scheme' = IF t = "none" THEN scheme ELSE t,
               Goto(IF t = "none" THEN "SecurityResult" ELSE init, TRUE),
               UNCHANGED <<version, stage, tight, creds, pending>>
        PROVE  Goes
    <3>1. t \in {"none", "vnc", "unix"}
      BY <2>4 DEF TightChoice
    <3>2. UNCHANGED link /\ run' = "loop" /\ init' = IF t = "none" THEN "SecurityResult" ELSE init
      BY <1>3, <2>4 DEF Goto, Return
    <3>3. Readers'
      BY <1>1, <1>3, <2>4, <3>2, Uncalled, QuietReaders
    <3>4. <<"choice", t>> \in Labels
      BY <3>1, LabelsAre DEF Words, Supported
    <3>5. CASE t = "none"
      <4>1. Standing'
        BY <1>1, <1>2, <1>4, <2>4, <3>2, <3>5 DEF Standing, InitStates
      <4>2. Awaited(<<"choice", t>>)'
        BY <1>1, <2>4, <3>2, <3>5 DEF Awaited
      <4>3. run' # "idle"
        BY <3>2
      <4> QED
        BY <1>8, <2>1, <2>2, <2>4, <3>2, <3>3, <3>4, <4>1, <4>2, <4>3, ReadReply, Zenon
    <3>6. CASE t \in {"vnc", "unix"}
      <4>1. scheme' = t /\ init' = "Authentication" /\ scheme' \in Supported \union {"unix"}
        BY <1>1, <2>4, <3>2, <3>6 DEF Supported
      <4>2. stage' \in Stages(scheme)'
        BY <1>4, <2>4, <3>6, <4>1 DEF Stages
      <4>3. Standing'
        BY <1>1, <1>2, <1>4, <2>4, <3>6, <4>1, <4>2 DEF Standing, InitStates
      <4>4. Awaited(<<"choice", t>>)'
        <5>1. stage' = 0 /\ pending' # "ard" /\ scheme' # "tight"
          BY <1>4, <2>4, <3>6, <4>1
        <5>2. <<"choice", t>>[1] = "choice" /\ <<"choice", t>>[2] = t
          OBVIOUS
        <5> QED
          BY <4>1, <5>1, <5>2 DEF Awaited
      <4>5. run' # "idle"
        BY <3>2
      <4> QED
        BY <1>8, <2>1, <2>2, <2>4, <3>2, <3>3, <3>4, <4>3, <4>4, <4>5, ReadReply, Zenon
    <3> QED
      BY <3>1, <3>5, <3>6
  <2> QED
    BY <1>1, <1>8, <2>3, <2>4 DEF AuthTight, Some, Zero
<1> QED
  BY <1>7, <1>8 DEF AuthTight

(* VeNCrypt, one wait after the other.                                     *)
LEMMA VeNCryptGoes ==
  ASSUME Typed, Talking, AuthVeNCrypt PROVE Goes \/ Fails
<1>1. init = "Authentication" /\ scheme = "vencrypt" /\ run # "idle" /\ Has(1)
  BY DEF AuthVeNCrypt, Auth, In
<1>2. Standing /\ Readers
  BY DEF Talking
<1>3. ~Called /\ run = "loop"
  BY <1>1, <1>2, OnlyAsking DEF Called, Typed, Asking
<1>4. pending \notin {"ard", "approve"} /\ ~tight /\ version \in {"3.3", "3.7", "3.8"}
  BY <1>1, <1>2 DEF Standing
<1>5. {"vcVersion", "ack", "nsubs", "subs"} \subseteq Names
  BY DEF Names
<1>6. Roles(Coming) = VeNCryptRoles(Coming) /\ Val(Coming, 1) = rQ[1].val
  <2>1. Val(Coming, 1) = rQ[1].val
    BY <1>1, Seen DEF Typed
  <2> QED
    BY <1>1, <2>1 DEF Roles, AuthRoles
<1>7. /\ <<"vcVersion">> \in Seq(Names) /\ Len(<<"vcVersion">>) >= 1
      /\ Begins(<<"vcVersion">>, <<"vcVersion">>)
      /\ <<"ack">> \in Seq(Names) /\ Len(<<"ack">>) >= 1 /\ Begins(<<"ack">>, <<"ack">>)
      /\ <<"nsubs">> \in Seq(Names) /\ Len(<<"nsubs">>) >= 1 /\ Begins(<<"nsubs">>, <<"nsubs">>)
      /\ <<"subs">> \in Seq(Names) /\ Len(<<"subs">>) >= 1 /\ Begins(<<"subs">>, <<"subs">>)
  BY <1>5, OneField
\* Where a handler that goes on as VeNCrypt leaves the client.
<1>8. ASSUME Goto(init, TRUE), UNCHANGED <<version, scheme, tight, creds, pending>>,
             stage' \in 0 .. 3
      PROVE  /\ init' = "Authentication" /\ run' = "loop" /\ UNCHANGED link
             /\ Standing' /\ Readers'
  <2>1. init' = "Authentication" /\ run' = "loop" /\ UNCHANGED link
    BY <1>1, <1>3, <1>8 DEF Goto, Return
  <2>2. stage' \in Stages(scheme)'
    BY <1>1, <1>8 DEF Stages
  <2>3. Standing'
    BY <1>1, <1>2, <1>4, <1>8, <2>1, <2>2 DEF Standing, InitStates
  <2>4. Readers'
    BY <1>3, <1>8, <2>1, Uncalled, QuietReaders
  <2> QED
    BY <2>1, <2>3, <2>4
<1>9. CASE stage = 0 /\ Read(<<"vcVersion">>)
  <2>1. Roles(Coming) = <<"vcVersion">>
    BY <1>6, <1>9 DEF VeNCryptRoles
  <2>2. CASE Fail
    BY <1>3, <1>7, <1>9, <2>1, <2>2, FailsHere, Zenon
  <2>3. CASE /\ stage' = 1 /\ Reply(<<"vcversion">>) /\ Goto(init, TRUE)
             /\ UNCHANGED <<version, scheme, tight, creds, pending>>
    <3>1. init' = "Authentication" /\ run' = "loop" /\ UNCHANGED link /\ Standing' /\ Readers'
      BY <1>8, <2>3
    <3>2. Awaited(<<"vcversion">>)'
      BY <1>1, <2>3, <3>1 DEF Awaited
    <3>3. <<"vcversion">> \in Labels
      BY LabelsAre DEF Words
    <3>4. run' # "idle"
      BY <3>1
    <3> QED
      BY <1>7, <1>9, <2>1, <2>3, <3>1, <3>2, <3>3, <3>4, ReadReply, Zenon
  <2>4. stage # 1 /\ stage # 2 /\ stage # 3
    BY <1>9
  <2> QED
    BY <1>9, <2>2, <2>3, <2>4, Zenon DEF AuthVeNCrypt
<1>10. CASE stage = 1 /\ Read(<<"ack">>)
  <2>1. CASE Some /\ Fail
    <3>1. Roles(Coming) = <<"ack">>
      BY <1>6, <1>10, <2>1 DEF VeNCryptRoles, Some
    <3> QED
      BY <1>3, <1>7, <1>10, <2>1, <3>1, FailsHere, Zenon
  <2>2. CASE /\ Zero /\ stage' = 2 /\ Goto(init, TRUE)
             /\ UNCHANGED <<out, version, scheme, tight, creds, pending>>
    <3>1. init' = "Authentication" /\ run' = "loop" /\ UNCHANGED link /\ Standing' /\ Readers'
      BY <1>8, <2>2
    <3>2. Val(Coming', 1) = Val(Coming, 2)
      BY <1>5, <1>10, AfterOne
    <3>3. Roles(Coming)' = VeNCryptRoles(Coming)'
      BY <1>1, <2>2, <3>1 DEF Roles, AuthRoles
    <3>4. CASE Val(Coming, 2) = "0"
      <4>1. Roles(Coming) = <<"ack", "nsubs">> /\ Roles(Coming)' = <<"nsubs">>
        BY <1>6, <1>10, <2>2, <3>2, <3>3, <3>4 DEF VeNCryptRoles, Zero
      <4>2. Cut(<<"ack", "nsubs">>, <<"ack">>, <<"nsubs">>)
        BY FirstOfTwo
      <4>3. init' # "Security" /\ run' # "idle" /\ UNCHANGED <<link, out>>
        BY <2>2, <3>1
      <4> QED
        BY <1>7, <1>10, <3>1, <4>1, <4>2, <4>3, ReadOn, Zenon
    <3>5. CASE Val(Coming, 2) # "0"
      <4>1. Roles(Coming) = <<"ack", "nsubs", "subs">> /\ Roles(Coming)' = <<"nsubs", "subs">>
        BY <1>6, <1>10, <2>2, <3>2, <3>3, <3>5 DEF VeNCryptRoles, Zero
      <4>2. Cut(<<"ack", "nsubs", "subs">>, <<"ack">>, <<"nsubs", "subs">>)
        BY FirstOfThree
      <4>3. init' # "Security" /\ run' # "idle" /\ UNCHANGED <<link, out>>
        BY <2>2, <3>1
      <4> QED
        BY <1>7, <1>10, <3>1, <4>1, <4>2, <4>3, ReadOn, Zenon
    <3> QED
      BY <3>4, <3>5
  <2>4. stage # 0 /\ stage # 2 /\ stage # 3
    BY <1>10
  <2> QED
    BY <1>10, <2>1, <2>2, <2>4, Zenon DEF AuthVeNCrypt
<1>11. CASE stage = 2 /\ Read(<<"nsubs">>)
  <2>1. CASE Zero /\ Fail
    <3>1. Roles(Coming) = <<"nsubs">>
      BY <1>6, <1>11, <2>1 DEF VeNCryptRoles, Zero
    <3> QED
      BY <1>3, <1>7, <1>11, <2>1, <3>1, FailsHere, Zenon
  <2>2. CASE /\ Some /\ stage' = 3 /\ Goto(init, TRUE)
             /\ UNCHANGED <<out, version, scheme, tight, creds, pending>>
    <3>1. init' = "Authentication" /\ run' = "loop" /\ UNCHANGED link /\ Standing' /\ Readers'
      BY <1>8, <2>2
    <3>2. Roles(Coming) = <<"nsubs", "subs">>
      BY <1>6, <1>11, <2>2 DEF VeNCryptRoles, Some
    <3>3. Roles(Coming)' = <<"subs">>
      BY <1>1, <2>2, <3>1 DEF Roles, AuthRoles, VeNCryptRoles
    <3>4. Cut(<<"nsubs", "subs">>, <<"nsubs">>, <<"subs">>)
      BY FirstOfTwo
    <3>5. init' # "Security" /\ run' # "idle" /\ UNCHANGED <<link, out>>
      BY <2>2, <3>1
    <3> QED
      BY <1>7, <1>11, <3>1, <3>2, <3>3, <3>4, <3>5, ReadOn, Zenon
  <2>4. stage # 0 /\ stage # 1 /\ stage # 3
    BY <1>11
  <2> QED
    BY <1>11, <2>1, <2>2, <2>4, Zenon DEF AuthVeNCrypt
<1>12. CASE stage = 3 /\ Read(<<"subs">>)
  <2>1. Roles(Coming) = <<"subs">>
    BY <1>6, <1>12 DEF VeNCryptRoles
  <2>2. CASE Fail
    BY <1>3, <1>7, <1>12, <2>1, <2>2, FailsHere, Zenon
  <2>3. CASE \E t \in Supported \ {"vencrypt"} :
               /\ scheme' = t /\ stage' = 0
               /\ Reply(<<"choice", t>>) /\ Goto(init, TRUE)
               /\ UNCHANGED <<version, tight, creds, pending>>
    <3>1. PICK t \in Supported \ {"vencrypt"} :
            /\ scheme' = t /\ stage' = 0
            /\ Reply(<<"choice", t>>) /\ Goto(init, TRUE)
            /\ UNCHANGED <<version, tight, creds, pending>>
      BY <2>3
    <3>2. init' = "Authentication" /\ run' = "loop" /\ UNCHANGED link
      BY <1>1, <1>3, <3>1 DEF Goto, Return
    <3>3. stage' \in Stages(scheme)'
      BY <3>1 DEF Stages
    <3>4. Standing'
      BY <1>1, <1>2, <1>4, <3>1, <3>2, <3>3 DEF Standing, InitStates
    <3>5. Readers'
      BY <1>3, <3>1, <3>2, Uncalled, QuietReaders
    <3>6. Awaited(<<"choice", t>>)'
      BY <1>4, <3>1, <3>2, AwaitedChoice
    <3>7. <<"choice", t>> \in Labels
      BY LabelsAre DEF Words
    <3>8. run' # "idle"
      BY <3>2
    <3> QED
      BY <1>7, <1>12, <2>1, <3>1, <3>2, <3>4, <3>5, <3>6, <3>7, <3>8, ReadReply, Zenon
  <2>4. stage # 0 /\ stage # 1 /\ stage # 2
    BY <1>12
  <2> QED
    BY <1>12, <2>2, <2>3, <2>4, Zenon DEF AuthVeNCrypt
<1> QED
  BY <1>9, <1>10, <1>11, <1>12 DEF AuthVeNCrypt

(* A handler that has to wait for more.                                    *)
LEMMA NotYetGoes ==
  ASSUME Typed, Talking, NotYet PROVE Goes
<1>1. /\ run # "idle" /\ ~Has(Needed) /\ run' = "idle"
      /\ UNCHANGED <<link, init, version, scheme, stage, tight, creds, pending, out, rQ, net, misread>>
  BY DEF NotYet, Await, PutBack, authVars
<1>2. Standing /\ Readers
  BY DEF Talking
<1>3. Standing'
  BY <1>1, <1>2 DEF Standing
<1>4. Readers'
  BY <1>1, <1>2 DEF Readers, Called
<1>5. ~Has(Needed)'
  BY <1>1 DEF Needed, Has, Some, Zero, ServerInit, Reason
<1>6. Waits'
  BY <1>5 DEF Waits
<1> QED
  BY <1>1, <1>3, <1>4, <1>6, Stay

(* The last handler of the handshake.                                      *)
LEMMA ServerInitSettles ==
  ASSUME Typed, Talking, NegotiateServerInit, link.sock = "open"
  PROVE  /\ Settled' /\ misread' = misread
         /\ rQ' \in Seq(Cells) /\ net' \in Seq(Cells) /\ out' \in Seq(Labels)
<1>1. /\ init = "ServerInitialisation" /\ Read(ServerInit) /\ Reply(<<"request">>) /\ run' = "idle"
      /\ UNCHANGED <<init, version, scheme, stage, tight, creds, pending>>
  BY DEF NegotiateServerInit, In, authVars
<1>2. Standing /\ Readers /\ Fits(Coming) /\ Line
  BY DEF Talking
<1>3. ~Called
  BY <1>1, <1>2, OnlyAsking
<1>4. ServerInit \in Seq(Names) /\ Len(ServerInit) >= 1
  <2>1. /\ <<"init", "name", "caps", "lists">> \in Seq(Names) /\ <<"init", "name">> \in Seq(Names)
        /\ Len(<<"init", "name", "caps", "lists">>) >= 1 /\ Len(<<"init", "name">>) >= 1
    BY DEF Names
  <2> QED
    BY <2>1 DEF ServerInit
<1>5. Roles(Coming) = ServerInit
  BY <1>1 DEF Roles
<1>6. /\ rQ' = <<>> /\ net' = <<>> /\ Coming' = <<>> /\ misread' = misread
      /\ Coming # <<>>
  BY <1>1, <1>2, <1>4, <1>5, ReadAll DEF Typed
<1>7. <<"request">> \in Labels
  BY LabelsAre DEF Words
<1>8. Over' /\ pending' = "nothing" /\ stage' = 0
  BY <1>1, <1>2, <1>3 DEF Over, Called, Standing, Typed
<1>9. out = <<>> /\ out \in Seq(Labels)
  BY <1>2, <1>6 DEF Line, Typed
<1>10. Len(out') = 1 /\ out'[1] = <<"request">> /\ out' \in Seq(Labels)
  BY <1>1, <1>7, <1>9 DEF Reply
<1>11. rQ' \in Seq(Cells) /\ net' \in Seq(Cells)
  BY <1>6
<1> QED
  BY <1>1, <1>6, <1>8, <1>10, <1>11 DEF Settled

-----------------------------------------------------------------------------
(* Every handler goes on with the handshake, ends it in a failure, or      *)
(* settles it.                                                             *)
LEMMA InitMsgGoes ==
  ASSUME Typed, Talking, InitMsg
  PROVE  Goes \/ Fails \/ NegotiateServerInit
<1>1. CASE NegotiateProtocolVersion
  BY <1>1, VersionGoes
<1>2. CASE NegotiateSecurity
  BY <1>2, SecurityGoes
<1>3. CASE HandleSecurityReason
  BY <1>3, ReasonFails
<1>4. CASE HandleSecurityResult
  BY <1>4, ResultGoes
<1>5. CASE ClientInitialisation
  BY <1>5, ClientInitGoes
<1>6. CASE AuthNone
  BY <1>6, NoneGoes
<1>7. CASE AuthPlain
  BY <1>7, PlainGoes
<1>8. CASE AuthXvp
  BY <1>8, XvpGoes
<1>9. CASE AuthChallenge
  BY <1>9, ChallengeGoes
<1>10. CASE AuthArd
  BY <1>10, ArdGoes
<1>11. CASE AuthTightTunnels
  BY <1>11, TunnelsGo
<1>12. CASE AuthTight
  BY <1>12, TightGoes
<1>13. CASE AuthVeNCrypt
  BY <1>13, VeNCryptGoes
<1>14. CASE AuthRa2
  BY <1>14, Ra2Goes
<1>15. CASE NotYet
  BY <1>15, NotYetGoes
<1>16. CASE AuthUnsupported
  BY <1>16, UnsupportedFails
<1> QED
  BY <1>1, <1>2, <1>3, <1>4, <1>5, <1>6, <1>7, <1>8, <1>9, <1>10, <1>11, <1>12, <1>13,
     <1>14, <1>15, <1>16 DEF InitMsg

-----------------------------------------------------------------------------
(* What a handler leaves in the other variables.                           *)
LEMMA InitMsgTypes ==
  ASSUME Typed, InitMsg
  PROVE  /\ stage' \in 0 .. 6 /\ tight' \in BOOLEAN /\ run' \in {"idle", "loop", "once"}
         /\ creds' \in {"none", "asked", "given"}
         /\ pending' \in {"nothing", "resume", "ard", "approve"}
         /\ run # "idle" /\ (run = "once" => run' = "idle")
<1> DEFINE Fine == /\ stage' \in 0 .. 6 /\ tight' \in BOOLEAN
                   /\ run' \in {"idle", "loop", "once"}
                   /\ creds' \in {"none", "asked", "given"}
                   /\ pending' \in {"nothing", "resume", "ard", "approve"}
                   /\ run # "idle" /\ (run = "once" => run' = "idle")
<1>1. CASE NegotiateProtocolVersion
  BY <1>1 DEF NegotiateProtocolVersion, VersionSent, Goto, Return, Fail, In, authVars, Typed
<1>2. CASE NegotiateSecurity
  BY <1>2 DEF NegotiateSecurity, Goto, Return, Fail, In, authVars, Typed
<1>3. CASE HandleSecurityReason \/ HandleSecurityResult \/ ClientInitialisation
  BY <1>3 DEF HandleSecurityReason, HandleSecurityResult, ClientInitialisation, Goto, Return,
              Fail, In, authVars, Typed
<1>4. CASE NegotiateServerInit \/ AuthUnsupported \/ AuthNone \/ NotYet
  BY <1>4 DEF NegotiateServerInit, AuthUnsupported, AuthNone, Auth, NotYet, Await, Goto, Return,
              Fail, In, authVars, Typed
<1>5. CASE AuthPlain \/ AuthXvp \/ AuthChallenge
  BY <1>5 DEF AuthPlain, AuthXvp, AuthChallenge, Auth, Ask, Goto, Return, In, authVars, Typed
<1>6. CASE AuthArd
  BY <1>6 DEF AuthArd, Auth, Ask, Goto, Return, In, authVars, Typed
<1>6a. CASE AuthTightTunnels
  BY <1>6a DEF AuthTightTunnels, Auth, Goto, Return, In, authVars, Typed
<1>6b. CASE AuthRa2
  <2>1. /\ run # "idle" /\ stage \in 0 .. 6 /\ stage' = (IF stage = 0 THEN 1 ELSE stage)
        /\ Return(FALSE)
        /\ UNCHANGED <<tight, creds, pending>>
    BY <1>6b DEF AuthRa2, Auth, Goto, In, Typed
  <2>2. stage' \in 0 .. 6
    BY <2>1
  <2> QED
    BY <2>1, <2>2 DEF Return, Typed
<1>7. CASE AuthTight
  BY <1>7 DEF AuthTight, Auth, Goto, Return, Fail, In, authVars, Typed
<1>8. CASE AuthVeNCrypt
  <2>1. /\ run # "idle" /\ tight \in BOOLEAN /\ creds \in {"none", "asked", "given"}
        /\ pending \in {"nothing", "resume", "ard", "approve"} /\ stage \in 0 .. 6
        /\ run \in {"idle", "loop", "once"}
    BY <1>8 DEF AuthVeNCrypt, Auth, In, Typed
  <2>2. \/ stage' \in {0, 1, 2, 3} /\ Return(TRUE) /\ UNCHANGED <<tight, creds, pending>>
        \/ run' = "idle" /\ UNCHANGED <<stage, tight, creds, pending>>
    <3> HIDE DEF Return
    <3>1. 0 \in {0, 1, 2, 3} /\ 1 \in {0, 1, 2, 3} /\ 2 \in {0, 1, 2, 3} /\ 3 \in {0, 1, 2, 3}
      OBVIOUS
    <3> QED
      BY <1>8, <3>1, Zenon DEF AuthVeNCrypt, Goto, Fail, authVars
  <2> QED
    BY <2>1, <2>2 DEF Return
<1> QED
  BY <1>1, <1>2, <1>3, <1>4, <1>5, <1>6, <1>6a, <1>6b, <1>7, <1>8 DEF InitMsg

(* The socket opens.                                                       *)
LEMMA OpenFits ==
  ASSUME NEW l \in Links, LinkFits(l), l.sock = "connecting"
  PROVE  LinkFits([l EXCEPT !.sock = "open"])
BY DEF LinkFits, Told, Links

(* The handshake is over.                                                  *)
LEMMA ConnectFits ==
  ASSUME NEW l \in Links, LinkFits(l), l.conn = "connecting", l.sock = "open", NEW b \in BOOLEAN
  PROVE  LET m == Update([l EXCEPT !.grabbed = b], "connected") IN
         LinkFits(m) /\ m.conn = "connected" /\ m.sock = "open"
<1> DEFINE g == [l EXCEPT !.grabbed = b]
           m == Update(g, "connected")
<1>1. /\ g \in Links /\ g.conn = "connecting" /\ ~g.timer /\ g.sock = "open" /\ g.closeOn
      /\ Len(g.reports) = 0 /\ g.grabbed = b
  BY DEF LinkFits, Told, Links
<1> HIDE DEF g
<1>2. m = [g EXCEPT !.conn = "connected"]
  BY <1>1 DEF Update, Transitions
<1>3. /\ m.conn = "connected" /\ m.timer = g.timer /\ m.sock = g.sock /\ m.closeOn = g.closeOn
      /\ m.reports = g.reports
  BY <1>1, <1>2 DEF Links
<1> HIDE DEF m
<1>4. LinkFits(m)
  BY <1>1, <1>3 DEF LinkFits, Told
<1> QED
  BY <1>1, <1>3, <1>4 DEF m, g

(* disconnect() leaves no session alive.                                   *)
LEMMA DownIsDown ==
  \A l \in Links : Update(l, "disconnecting").conn \in {"disconnecting", "disconnected"}
BY UpdateConn DEF Links, States, Transitions

(* The close of the socket, with the handler on or off.                    *)
LEMMA CloseFits ==
  ASSUME NEW l \in Links, LinkFits(l), NEW s, s = [l EXCEPT !.sock = "closed"],
         NEW m, m = [(IF s.closeOn THEN OnClose(s) ELSE s) EXCEPT !.closeOn = FALSE]
  PROVE  LinkFits(m) /\ m.conn \in {"disconnecting", "disconnected"}
<1>1. /\ s \in Links /\ s.sock = "closed" /\ s.conn = l.conn /\ s.closeOn = l.closeOn
      /\ s.reports = l.reports /\ s.grabbed = l.grabbed /\ s.timer = l.timer
      /\ s.clean = l.clean
  BY DEF Links
<1>2. l.conn \in States
  BY DEF Links
<1>3. CASE s.closeOn
  <2> DEFINE o == OnClose(s)
  <2>1. /\ s.conn # "disconnected" /\ Len(s.reports) = 0
        /\ (s.conn = "disconnecting" => ~s.grabbed)
    BY <1>1, <1>3 DEF LinkFits, Told
  <2>2. /\ o \in Links /\ o.conn = "disconnected" /\ ~o.timer /\ ~o.grabbed
        /\ o.sock \in {"closed", "closing"}
        /\ Len(o.reports) = 1 /\ o.reports[1] = o.clean
    BY <1>1, <1>3, <2>1, OnCloseFits
  <2>3. m = [o EXCEPT !.closeOn = FALSE]
    BY <1>3
  <2> HIDE DEF o
  <2>4. /\ m.conn = "disconnected" /\ ~m.timer /\ ~m.grabbed /\ m.sock \in {"closed", "closing"}
        /\ m.reports = o.reports /\ m.clean = o.clean /\ ~m.closeOn
    BY <2>2, <2>3 DEF Links
  <2> QED
    BY <2>2, <2>4 DEF LinkFits, Told
<1>4. CASE ~s.closeOn
  <2>1. s.conn \in {"disconnecting", "disconnected"}
    BY <1>1, <1>2, <1>4 DEF LinkFits, States
  <2>2. m = [s EXCEPT !.closeOn = FALSE]
    BY <1>4
  <2>3. /\ m.conn = s.conn /\ m.timer = s.timer /\ m.grabbed = s.grabbed /\ m.sock = "closed"
        /\ m.reports = s.reports /\ m.clean = s.clean /\ ~m.closeOn
    BY <1>1, <2>2 DEF Links
  <2> QED
    BY <1>1, <2>1, <2>3 DEF LinkFits, Told
<1> QED
  BY <1>3, <1>4

-----------------------------------------------------------------------------
(* Where a call is due, what is due from the server is the same whatever   *)
(* it writes: losing what is on its way leaves the rest in step.           *)
LEMMA CutFits ==
  ASSUME Typed, Readers, Called, Fits(Coming), UNCHANGED <<init, authVars, rQ>>, net' \in {net, <<>>}
  PROVE  Fits(Coming)'
<1>1. init = "Authentication" /\ (scheme \in Asking \/ (scheme = "ra2" /\ stage = 6))
  BY DEF Readers
<1>2. UNCHANGED <<init, version, scheme, stage, tight, creds, pending>>
  BY DEF authVars
<1>3. Roles(Coming)' = Roles(Coming)
  BY <1>1, <1>2 DEF Roles, AuthRoles, Ra2Roles, Asking
<1>4. Len(Coming) <= Len(Roles(Coming)) /\ \A i \in 1 .. Len(Coming) : Coming[i].role = Roles(Coming)[i]
  BY DEF Fits
<1>5. /\ Len(Coming) = Len(rQ) + Len(net) /\ \A i \in 1 .. Len(rQ) : Coming[i] = rQ[i]
      /\ Len(rQ) \in Nat /\ Len(net) \in Nat
  BY ComingIs DEF Typed
<1>6. CASE net' = net
  <2>1. Coming' = Coming
    BY <1>6 DEF Coming
  <2> QED
    BY <1>1, <1>2, <1>3, <1>4, <2>1 DEF Fits
<1>7. CASE net' = <<>>
  <2>1. rQ' \in Seq(Cells) /\ net' \in Seq(Cells)
    BY <1>7 DEF Typed
  <2>2. Coming' = rQ
    BY <1>7, <2>1, ComingNext
  <2>3. Len(rQ) <= Len(Roles(Coming)) /\ \A i \in 1 .. Len(rQ) : rQ[i].role = Roles(Coming)[i]
    <3>1. Len(Roles(Coming)) \in Nat
      BY RolesLen
    <3> QED
      BY <1>4, <1>5, <3>1
  <2> QED
    BY <1>1, <1>2, <1>3, <2>2, <2>3 DEF Fits
<1> QED
  BY <1>6, <1>7

\* Wherever the session was.
SomePhase == Unopened \/ Talking \/ Settled \/ Late

(* Once the session has ended, and however.                                *)
LEMMA LateNext ==
  ASSUME Typed, SomePhase, UNCHANGED <<init, authVars, rQ, run>>, net' \in {net, <<>>},
         run = "idle", link'.sock # "open"
  PROVE  Late'
<1>1. UNCHANGED <<init, version, scheme, stage, tight, creds, pending>>
  BY DEF authVars
<1>2. CASE ~Called
  BY <1>1, <1>2 DEF Late, Over, Called
<1>3. CASE Called /\ Talking
  <2>1. Standing' /\ Readers'
    BY <1>1, <1>3 DEF Talking, Standing, Readers, Called
  <2>2. Fits(Coming)'
    BY <1>3, CutFits DEF Talking
  <2>3. init' = "Authentication" /\ run' # "loop" /\ Line'
    BY <1>1, <1>3 DEF Talking, Readers, Line
  <2> QED
    BY <2>1, <2>2, <2>3 DEF Late, Talking
<1>4. CASE Called /\ ~Talking
  <2>1. init = "SecurityResult" /\ stage = 0 /\ rQ = <<>> /\ run # "loop" /\ pending # "ard"
    BY <1>4 DEF SomePhase, Unopened, Settled, Late, Over
  <2> QED
    BY <1>1, <2>1 DEF Late
<1> QED
  BY <1>2, <1>3, <1>4

(* While the socket is open and the session connecting, it talks.          *)
LEMMA PhaseIs ==
  ASSUME Handshake
  PROVE  /\ SomePhase
         /\ link.conn = "connecting" /\ ~Over => link.sock = "open" /\ Talking
         /\ Live /\ ~Over => link.conn = "connecting"
         /\ ~Live => Late
         /\ misread => ~Live /\ Over
         /\ link.sock = "open" => Live
<1>1. link.conn \in States /\ LinkFits(link) /\ Phase
  BY DEF Handshake, Typed, SessionOK, LinkOK, Links
<1>2. /\ link.conn = "connecting" => link.sock \in {"connecting", "open"}
      /\ link.sock = "open" => Live
  BY <1>1 DEF LinkFits, Told, Live, States
<1>3. SomePhase
  BY <1>1, <1>2 DEF Phase, SomePhase, Live
<1>4. link.conn = "connecting" /\ ~Over => link.sock = "open" /\ Talking
  BY <1>1, <1>2 DEF Phase, Unopened
<1>5. Live /\ ~Over => link.conn = "connecting"
  BY <1>1 DEF Phase, Settled, Live
<1>6. (~Live => Late) /\ (misread => ~Live /\ Over)
  BY <1>1 DEF Phase, Handshake, MisreadOver
<1> QED
  BY <1>2, <1>3, <1>4, <1>5, <1>6

-----------------------------------------------------------------------------
(***************************************************************************)
(* RSA-AES: while the session lives, each of its steps goes on as well.    *)
(***************************************************************************)
Ra2Place ==
  /\ init = "Authentication" /\ scheme = "ra2" /\ run = "idle"
  /\ ~tight /\ pending # "ard" /\ version \in {"3.3", "3.7", "3.8"}
  /\ (pending = "approve" <=> stage = 2) /\ (stage = 6 => creds # "none")

(* Where a step of it finds the handshake.                                 *)
LEMMA Ra2Is ==
  ASSUME Standing, Readers, scheme = "ra2", run = "idle", stage \in 1 .. 6
  PROVE  Ra2Place /\ (stage # 6 => ~Called)
<1>1. init = "Authentication"
  BY DEF Standing
<1>2. stage # 6 => ~Called
  BY DEF Readers, Asking
<1> QED
  BY <1>1, <1>2 DEF Standing, Ra2Place

(* And where it leaves it.                                                 *)
LEMMA Ra2Stays ==
  ASSUME init' = "Authentication", scheme' = "ra2", run' = "idle",
         ~tight', pending' # "ard", version' \in {"3.3", "3.7", "3.8"},
         pending' = "approve" <=> stage' = 2, stage' = 6 => creds' # "none",
         stage' \in 1 .. 6, ~Called' \/ (stage' = 6 /\ pending' # "resume")
  PROVE  Standing' /\ Readers' /\ Waits' /\ init' # "Security"
<1>1. stage' \in Stages(scheme)'
  BY DEF Stages
<1>2. Standing'
  BY <1>1 DEF Standing, InitStates, Supported
<1>3. Readers'
  BY DEF Readers, Called, Asking
<1> QED
  BY <1>2, <1>3 DEF Waits

(* The server's key.                                                       *)
LEMMA KeyGoes ==
  ASSUME Typed, Talking, Ra2At(1), Read(<<"keyLen", "key">>), Ra2Go(2),
         pending' = "approve", UNCHANGED <<init, creds, out>>
  PROVE  Goes
<1>1. /\ scheme = "ra2" /\ stage = 1 /\ run = "idle" /\ Read(<<"keyLen", "key">>)
      /\ stage' = 2 /\ pending' = "approve"
      /\ UNCHANGED <<link, run, version, scheme, tight, init, creds, out>>
  BY DEF Ra2At, Ra2Go
<1>2. Ra2Place /\ ~Called
  BY <1>1, Ra2Is DEF Talking
<1>3. ~Called'
  BY <1>1, <1>2 DEF Called
<1>4. Standing' /\ Readers' /\ Waits' /\ init' # "Security"
  BY <1>1, <1>2, <1>3, Ra2Stays DEF Ra2Place
<1>5. Roles(Coming) = <<"keyLen", "key">> /\ Roles(Coming)' = <<>>
  BY <1>1, <1>2 DEF Roles, AuthRoles, Ra2Roles, Ra2Place
<1>6. "keyLen" \in Names /\ "key" \in Names
  BY DEF Names
<1>7. /\ <<"keyLen", "key">> \in Seq(Names) /\ Len(<<"keyLen", "key">>) >= 1
      /\ Cut(<<"keyLen", "key">>, <<"keyLen", "key">>, <<>>)
  BY <1>6, TwoFields
<1> QED
  BY <1>1, <1>4, <1>5, <1>7, ReadOn, Zenon

(* The user's word on it.                                                  *)
LEMMA ApproveGoes ==
  ASSUME Typed, Talking, ApproveServer PROVE Goes
<1>1. /\ scheme = "ra2" /\ stage = 2 /\ run = "idle" /\ Reply(<<"clientKey">>)
      /\ stage' = 3 /\ pending' = "nothing"
      /\ UNCHANGED <<link, run, version, scheme, tight, init, creds, rQ, net, misread>>
  BY DEF ApproveServer, Ra2At, Ra2Go
<1>2. Ra2Place /\ ~Called
  BY <1>1, Ra2Is DEF Talking
<1>3. ~Called'
  BY <1>1, <1>2 DEF Called
<1>4. Standing' /\ Readers' /\ Waits' /\ init' # "Security"
  BY <1>1, <1>2, <1>3, Ra2Stays DEF Ra2Place
<1>5. Roles(Coming) = <<>>
  BY <1>1, <1>2 DEF Roles, AuthRoles, Ra2Roles, Ra2Place
<1>6. out = <<>> \/ link.sock # "open"
  <2>1. \A l : ~Awaited(l)
    BY <1>1, <1>2 DEF Awaited, Ra2Place
  <2> QED
    BY <2>1 DEF Talking, Line, OutFits
<1>7. <<"clientKey">> \in Labels
  BY LabelsAre DEF Words
<1>8. Awaited(<<"clientKey">>)'
  BY <1>1, <1>2 DEF Awaited, Ra2Place
<1> QED
  BY <1>1, <1>4, <1>5, <1>6, <1>7, <1>8, SpeakOut, Zenon

(* The server's random number, whole.                                      *)
LEMMA RandomGoes ==
  ASSUME Typed, Talking, Ra2At(3), Read(<<"randLen", "random">>), Ra2Go(4),
         Reply(<<"clientHash">>), UNCHANGED <<init, creds, pending>>
  PROVE  Goes
<1>1. /\ scheme = "ra2" /\ stage = 3 /\ run = "idle" /\ stage' = 4
      /\ UNCHANGED <<link, run, version, scheme, tight, init, creds, pending>>
  BY DEF Ra2At, Ra2Go
<1>2. Ra2Place /\ ~Called
  BY <1>1, Ra2Is DEF Talking
<1>3. ~Called'
  BY <1>1, <1>2 DEF Called
<1>4. Standing' /\ Readers' /\ Waits' /\ init' # "Security"
  BY <1>1, <1>2, <1>3, Ra2Stays DEF Ra2Place
<1>5. Roles(Coming) = <<"randLen", "random">>
  BY <1>1, <1>2 DEF Roles, AuthRoles, Ra2Roles, Ra2Place
<1>6. "randLen" \in Names /\ "random" \in Names
  BY DEF Names
<1>7. <<"randLen", "random">> \in Seq(Names) /\ Len(<<"randLen", "random">>) >= 1
  BY <1>6, TwoFields
<1>8. <<"clientHash">> \in Labels
  BY LabelsAre DEF Words
<1>9. Awaited(<<"clientHash">>)'
  BY <1>1, <1>2 DEF Awaited, Ra2Place
<1>10. UNCHANGED link
  BY <1>1
<1> QED
  BY <1>4, <1>5, <1>7, <1>8, <1>9, <1>10, ReadReply, Zenon

(* What is refused ends the session.  Its length alone is the only         *)
(* misreading of a handshake.                                              *)
LEMMA ThrowFails ==
  ASSUME Typed, Talking, NEW n \in 1 .. 5, Ra2At(n), Ra2Throw
  PROVE  /\ link' = Failed(link) /\ run' = "idle" /\ ~Called' /\ scheme' = "ra2"
         /\ out' \in Seq(Labels)
         /\ stage' \in 0 .. 6 /\ UNCHANGED <<tight, run, creds, pending>>
<1>1. scheme = "ra2" /\ stage = n /\ run = "idle" /\ n \in 1 .. 6 /\ n # 6
  BY DEF Ra2At
<1>2. ~Called
  BY <1>1, Ra2Is DEF Talking
<1> QED
  BY <1>1, <1>2 DEF Ra2Throw, Called, Typed

(* It leaves the rest of the queue.                                        *)
LEMMA WireReadTyped ==
  ASSUME Typed, NEW roles \in Seq(Names), Read(roles)
  PROVE  rQ' \in Seq(Cells) /\ net' \in Seq(Cells) /\ misread' \in BOOLEAN
<1>1. rQ \in Seq(Cells) /\ net \in Seq(Cells) /\ misread \in BOOLEAN
  BY DEF Typed
<1>2. rQ' \in Seq(Cells) /\ net' = net
  BY <1>1, ReadStep
<1>3. misread' \in BOOLEAN
  BY <1>1 DEF Read
<1> QED
  BY <1>1, <1>2, <1>3

(* The server's hash.                                                      *)
LEMMA HashGoes ==
  ASSUME Typed, Talking, Ra2At(4), Read(<<"hash">>), Ra2Go(5),
         UNCHANGED <<init, creds, pending, out>>
  PROVE  Goes
<1>1. /\ scheme = "ra2" /\ stage = 4 /\ run = "idle" /\ Read(<<"hash">>) /\ stage' = 5
      /\ UNCHANGED <<link, run, version, scheme, tight, init, creds, pending, out>>
  BY DEF Ra2At, Ra2Go
<1>2. Ra2Place /\ ~Called
  BY <1>1, Ra2Is DEF Talking
<1>3. ~Called'
  BY <1>1, <1>2 DEF Called
<1>4. Standing' /\ Readers' /\ Waits' /\ init' # "Security"
  BY <1>1, <1>2, <1>3, Ra2Stays DEF Ra2Place
<1>5. Roles(Coming) = <<"hash", "subtype">> /\ Roles(Coming)' = <<"subtype">>
  BY <1>1, <1>2 DEF Roles, AuthRoles, Ra2Roles, Ra2Place
<1>6. "hash" \in Names
  BY DEF Names
<1>7. /\ <<"hash">> \in Seq(Names) /\ Len(<<"hash">>) >= 1
      /\ Cut(<<"hash", "subtype">>, <<"hash">>, <<"subtype">>)
  BY <1>6, OneField, FirstOfTwo
<1> QED
  BY <1>1, <1>4, <1>5, <1>7, ReadOn, Zenon

(* And the credentials it wants.                                           *)
LEMMA SubtypeGoes ==
  ASSUME Typed, Talking, Ra2At(5), Read(<<"subtype">>), Ra2Go(6),
         creds' = (IF creds = "given" THEN "given" ELSE "asked"),
         UNCHANGED <<init, pending, out>>
  PROVE  Goes
<1>1. /\ scheme = "ra2" /\ stage = 5 /\ run = "idle" /\ Read(<<"subtype">>) /\ stage' = 6
      /\ creds' = (IF creds = "given" THEN "given" ELSE "asked")
      /\ UNCHANGED <<link, run, version, scheme, tight, init, pending, out>>
  BY DEF Ra2At, Ra2Go
<1>2. Ra2Place /\ ~Called
  BY <1>1, Ra2Is DEF Talking
<1>3. stage' = 6 /\ pending' # "resume" /\ creds' # "none"
  BY <1>1, <1>2 DEF Called
<1>4. Standing' /\ Readers' /\ Waits' /\ init' # "Security"
  BY <1>1, <1>2, <1>3, Ra2Stays DEF Ra2Place
<1>5. Roles(Coming) = <<"subtype">> /\ Roles(Coming)' = <<>>
  BY <1>1, <1>2 DEF Roles, AuthRoles, Ra2Roles, Ra2Place
<1>6. "subtype" \in Names
  BY DEF Names
<1>7. /\ <<"subtype">> \in Seq(Names) /\ Len(<<"subtype">>) >= 1
      /\ Cut(<<"subtype">>, <<"subtype">>, <<>>)
  BY <1>6, OneField
<1> QED
  BY <1>1, <1>4, <1>5, <1>7, ReadOn, Zenon

(* They are sent, and its negotiation is over.                             *)
LEMMA CredentialsGo ==
  ASSUME Typed, Talking, Ra2Credentials PROVE Goes
<1>1. /\ scheme = "ra2" /\ stage = 6 /\ run = "idle" /\ creds = "given" /\ pending = "nothing"
      /\ stage' = 0 /\ init' = "SecurityResult" /\ Reply(<<"credentials">>)
      /\ UNCHANGED <<link, run, version, scheme, tight, creds, pending, net, rQ, misread>>
  BY DEF Ra2Credentials, Ra2At, Ra2Go
<1>2. Ra2Place
  BY <1>1, Ra2Is DEF Talking
<1>3. ~Called' /\ run' # "loop"
  BY <1>1 DEF Called
<1>4. Readers'
  BY <1>3, QuietReaders
<1>5. Standing'
  BY <1>1, <1>2 DEF Standing, InitStates, Ra2Place
<1>6. Roles(Coming) = <<>>
  BY <1>1, <1>2 DEF Roles, AuthRoles, Ra2Roles, Ra2Place
<1>7. out = <<>> \/ link.sock # "open"
  <2>1. \A l : ~Awaited(l)
    BY <1>1, <1>2 DEF Awaited, Ra2Place
  <2> QED
    BY <2>1 DEF Talking, Line, OutFits
<1>8. <<"credentials">> \in Labels
  BY LabelsAre DEF Words
<1>9. Awaited(<<"credentials">>)' /\ Needs'
  BY <1>1 DEF Awaited, Needs
<1> QED
  BY <1>1, <1>4, <1>5, <1>6, <1>7, <1>8, <1>9, SpeakOut, Zenon

-----------------------------------------------------------------------------
(* Apple's answer has been computed.                                       *)
LEMMA ComputedGoes ==
  ASSUME Typed, Talking, ArdComputed PROVE Goes
<1>1. /\ run = "idle" /\ pending = "ard" /\ stage' = 1 /\ pending' = "resume"
      /\ UNCHANGED <<link, init, version, scheme, tight, creds, out, rQ, net, run, misread>>
  BY DEF ArdComputed, streamVars
<1>2. Standing /\ Readers
  BY DEF Talking
<1>3. init = "Authentication" /\ scheme = "ard" /\ stage = 0 /\ creds = "given"
  BY <1>1, <1>2 DEF Standing
<1>4. Standing'
  BY <1>1, <1>2, <1>3 DEF Standing, Stages
<1>5. Readers'
  BY <1>1, <1>3 DEF Readers, Called, Asking
<1>6. Coming' = Coming
  BY <1>1 DEF Coming
<1>7. Roles(Coming)' = Roles(Coming)
  BY <1>1, <1>3, <1>6 DEF Roles, AuthRoles
<1>8. \A l : ~Awaited(l)
  BY <1>1, <1>3 DEF Awaited
<1>9. Waits'
  BY <1>1 DEF Waits
<1> QED
  BY <1>1, <1>4, <1>5, <1>7, <1>8, <1>9, Passes

(* The page has given the credentials.                                     *)
LEMMA SendGoes ==
  ASSUME Typed, Talking, SendCredentials PROVE Goes
<1>1. /\ run = "idle" /\ creds = "asked" /\ creds' = "given" /\ pending' = "resume"
      /\ UNCHANGED <<link, init, version, scheme, stage, tight, out, rQ, net, run, misread>>
  BY DEF SendCredentials, streamVars
<1>2. Standing /\ Readers
  BY DEF Talking
<1>3. Called /\ Called'
  BY <1>1 DEF Called
<1>4. /\ init = "Authentication" /\ (scheme \in Asking \/ (scheme = "ra2" /\ stage = 6))
      /\ (scheme \in {"vnc", "mslogon"} => rQ # <<>>)
  BY <1>2, <1>3 DEF Readers
<1>5. pending = "nothing"
  BY <1>1, <1>2, <1>4 DEF Standing, Readers, Typed, Asking
<1>6. Standing'
  BY <1>1, <1>2, <1>4, <1>5 DEF Standing
<1>7. Readers'
  BY <1>1, <1>4 DEF Readers
<1>8. Coming' = Coming
  BY <1>1 DEF Coming
<1>9. Roles(Coming)' = Roles(Coming)
  BY <1>1, <1>4, <1>5, <1>8 DEF Roles, AuthRoles, VeNCryptRoles, Ra2Roles, Asking
<1>10. \A l : Awaited(l) => Awaited(l)'
  BY <1>1, <1>5 DEF Awaited
<1>11. Waits'
  BY <1>1 DEF Waits
<1> QED
  BY <1>1, <1>6, <1>7, <1>9, <1>10, <1>11, Passes

(* The handler is called for them.                                         *)
LEMMA ResumeGoes ==
  ASSUME Typed, Talking, Resume PROVE Goes
<1>1. /\ run = "idle" /\ pending = "resume" /\ pending' = "nothing" /\ run' = "once"
      /\ UNCHANGED <<link, init, version, scheme, stage, tight, creds, out, rQ, net, misread>>
  BY DEF Resume
<1>2. Standing /\ Readers
  BY DEF Talking
<1>3. Called /\ Called'
  BY <1>1 DEF Called
<1>4. /\ init = "Authentication" /\ (scheme \in Asking \/ (scheme = "ra2" /\ stage = 6))
      /\ (scheme \in {"vnc", "mslogon"} => rQ # <<>>) /\ creds = "given"
  BY <1>1, <1>2, <1>3 DEF Readers
<1>5. Standing'
  BY <1>1, <1>2, <1>4 DEF Standing
<1>6. Readers'
  BY <1>1, <1>4 DEF Readers
<1>7. Coming' = Coming
  BY <1>1 DEF Coming
<1>8. Roles(Coming)' = Roles(Coming)
  BY <1>1, <1>4, <1>7 DEF Roles, AuthRoles, VeNCryptRoles, Ra2Roles, Asking
<1>9. \A l : Awaited(l) => Awaited(l)'
  BY <1>1 DEF Awaited
<1>10. run' # "idle"
  BY <1>1
<1> QED
  BY <1>1, <1>5, <1>6, <1>8, <1>9, <1>10, Passes

(* A message brings a part of what is due.                                 *)
LEMMA MessageGoes ==
  ASSUME Typed, Talking, Message PROVE Goes
<1>1. /\ Receive /\ net # <<>> /\ run = "idle" /\ link.sock = "open"
      /\ UNCHANGED <<link, init, version, scheme, stage, tight, creds, pending, out>>
  BY DEF Message, Receive, authVars
<1>2. Standing /\ Readers /\ Fits(Coming) /\ Line
  BY DEF Talking
<1>3. /\ rQ' \in Seq(Cells) /\ net' \in Seq(Cells) /\ rQ' # <<>>
      /\ Coming' = Coming /\ misread' = misread /\ run' = "loop"
  BY <1>1, ReceiveStep DEF Typed
<1>4. Coming # <<>> /\ Len(Coming) = Len(rQ) + Len(net) /\ Len(rQ) \in Nat /\ Len(net) \in Nat
  BY <1>1, ComingIs DEF Typed
<1>5. Len(net) # 0 /\ (rQ # <<>> => Len(rQ) # 0)
  BY <1>1 DEF Typed
<1>6. Len(Coming) <= Len(Roles(Coming))
  BY <1>2 DEF Fits
<1>7. Called => scheme = "ard" /\ stage = 0 /\ pending # "ard"
  <2> SUFFICES ASSUME Called PROVE scheme = "ard" /\ stage = 0 /\ pending # "ard"
    OBVIOUS
  <2>1. /\ init = "Authentication" /\ (scheme \in Asking \/ (scheme = "ra2" /\ stage = 6))
        /\ (scheme \in {"vnc", "mslogon"} => rQ # <<>>)
    BY <1>2 DEF Readers
  <2>2. Len(Roles(Coming)) >= 1
    BY <1>4, <1>5, <1>6, RolesLen
  <2>3. /\ scheme \in {"plain", "unix", "xvp", "ra2"} => Roles(Coming) = <<>>
        /\ scheme = "ard" /\ ~(stage = 0 /\ pending # "ard") => Roles(Coming) = <<>>
        /\ scheme \in {"vnc", "mslogon"} => Roles(Coming) = <<"challenge">>
    BY <2>1 DEF Roles, AuthRoles, Ra2Roles, Asking
  <2>4. Len(<<>>) = 0 /\ Len(<<"challenge">>) = 1
    OBVIOUS
  <2>5. ASSUME scheme \in {"vnc", "mslogon"} PROVE FALSE
    <3>1. Len(Roles(Coming)) = 1
      BY <2>3, <2>4, <2>5
    <3>2. Len(rQ) # 0
      BY <1>5, <2>1, <2>5
    <3> QED
      BY <1>4, <1>5, <1>6, <3>1, <3>2
  <2>6. scheme \notin {"plain", "unix", "xvp", "ra2"}
    BY <2>2, <2>3, <2>4
  <2> QED
    BY <2>1, <2>2, <2>3, <2>4, <2>5, <2>6 DEF Asking
<1>8. Standing'
  BY <1>1, <1>2 DEF Standing
<1>9. Readers'
  BY <1>1, <1>2, <1>3, <1>7 DEF Readers, Called
<1>10. Roles(Coming)' = Roles(Coming)
  BY <1>1, <1>3 DEF Roles, SecurityRoles, ReasonRoles, ResultRoles, AuthRoles, TunnelRoles,
                    TightRoles, VeNCryptRoles, Ra2Roles, ServerInit
<1>11. Fits(Coming)'
  BY <1>1, <1>2, <1>3, <1>10 DEF Fits
<1>12. Line'
  <2>1. out = <<>> /\ Whole(Coming)
    BY <1>1, <1>2, <1>4 DEF Line
  <2>2. Waits'
    BY <1>3 DEF Waits
  <2>3. Whole(Coming)'
    BY <1>3, <1>10, <2>1 DEF Whole
  <2> QED
    BY <1>1, <2>1, <2>2, <2>3 DEF Line
<1> QED
  BY <1>1, <1>3, <1>8, <1>9, <1>11, <1>12 DEF Goes, Talking, Typed

(* Some choices have no answer.                                            *)
LEMMA MuteAnswer == \A l : Mute(l) => Answer(l) = {<<>>}
BY DEF Mute, Answer, Opening

(* Nor has the first update request, as far as the handshake goes.         *)
LEMMA RequestAnswer == \A l : l[1] = "request" => Answer(l) = {<<>>}
BY DEF Answer

(* The rest of two.                                                        *)
LEMMA TailOfTwo ==
  ASSUME NEW S, NEW s \in Seq(S), Len(s) = 2
  PROVE  Len(Tail(s)) = 1 /\ Tail(s)[1] = s[2]
<1>1. s # <<>> /\ Len(s) \in Nat
  BY NotEmpty
<1>2. Len(Tail(s)) = Len(s) - 1
  BY <1>1
<1>3. \A i \in 1 .. (Len(s) - 1) : Tail(s)[i] = s[i + 1]
  BY <1>1
<1>4. Len(s) - 1 = 1 /\ 1 + 1 = 2 /\ 1 \in 1 .. (Len(s) - 1)
  OBVIOUS
<1> QED
  BY <1>2, <1>3, <1>4

(* The server answers.                                                     *)
LEMMA ServeGoes ==
  ASSUME Typed, Talking, Serve PROVE Goes
<1>1. /\ link.sock = "open" /\ run = "idle" /\ out # <<>> /\ out' = Tail(out)
      /\ UNCHANGED <<link, init, version, scheme, stage, tight, creds, pending, rQ, run, misread>>
  BY DEF Serve, authVars
<1>2. Standing /\ Readers /\ Fits(Coming) /\ Line
  BY DEF Talking
<1>3. Waits /\ Coming = <<>> /\ OutFits
  BY <1>1, <1>2 DEF Line
<1>4. rQ \in Seq(Cells) /\ net \in Seq(Cells) /\ out \in Seq(Labels)
  BY DEF Typed
<1>5. rQ = <<>> /\ net = <<>>
  BY <1>3, <1>4, ComingIs
<1>6. PICK cells \in Answer(out[1]) : net' = net \o cells
  BY DEF Serve
<1>7. Standing' /\ Readers'
  BY <1>1, <1>2 DEF Standing, Readers, Called
<1>8. Waits'
  <2>1. Has(1)' = Has(1) /\ (Has(Needed) => Has(Needed)) /\ rQ'[1].val = rQ[1].val
    BY <1>1 DEF Has
  <2>2. Needed' = Needed
    BY <1>1 DEF Needed, Has, Some, Reason, Zero, ServerInit
  <2> QED
    BY <1>1, <1>3, <2>2 DEF Waits, Has
<1>9. out' \in Seq(Labels)
  BY <1>1, <1>4
<1>10. CASE Len(out) = 1 /\ Awaited(out[1])
  <2>1. Due(cells)
    BY <1>2, <1>6, <1>10, AnswerDue
  <2>2. cells \in Seq(Cells) /\ Fits(cells) /\ Whole(cells)
    BY <2>1 DEF Due
  <2>3. net' = cells
    BY <1>5, <1>6, <2>2
  <2>4. Coming' = cells
    BY <1>1, <1>5, <2>2, <2>3 DEF Coming
  <2>5. Roles(Coming)' = Roles(cells)
    BY <1>1, <2>4 DEF Roles, SecurityRoles, ReasonRoles, ResultRoles, AuthRoles, TunnelRoles,
                      TightRoles, VeNCryptRoles, Ra2Roles, ServerInit
  <2>6. Fits(Coming)'
    BY <1>1, <2>2, <2>4, <2>5 DEF Fits
  <2>7. Whole(Coming)'
    BY <2>2, <2>4, <2>5 DEF Whole
  <2>8. out' = <<>>
    BY <1>1, <1>4, <1>10
  <2>9. Line'
    BY <1>8, <2>7, <2>8 DEF Line
  <2>10. rQ' \in Seq(Cells) /\ net' \in Seq(Cells)
    BY <1>1, <1>4, <2>2, <2>3
  <2> QED
    BY <1>1, <1>7, <1>9, <2>6, <2>9, <2>10 DEF Goes, Talking
<1>11. CASE /\ Len(out) = 2 /\ Mute(out[1]) /\ Awaited(out[2])
            /\ out[2][1] \in {"xvp", "credentials", "clientinit"}
  <2>1. cells = <<>>
    BY <1>6, <1>11, MuteAnswer
  <2>2. net' = <<>> /\ rQ' = <<>>
    BY <1>1, <1>5, <1>6, <2>1
  <2>3. rQ' \in Seq(Cells) /\ net' \in Seq(Cells)
    BY <2>2
  <2>4. Coming' = <<>>
    BY <2>2 DEF Coming
  <2>5. PICK k : k = out[2]
    OBVIOUS
  <2>6. Len(out') = 1 /\ out'[1] = k
    BY <1>1, <1>4, <1>11, <2>5, TailOfTwo
  <2>7. Awaited(k)'
    BY <1>1, <1>11, <2>5 DEF Awaited
  <2>8. OutFits' /\ out' # <<>>
    BY <2>6, <2>7, AwaitedNext, NotEmpty
  <2>9. Line'
    BY <1>8, <2>4, <2>8 DEF Line
  <2>10. Fits(Coming)'
    BY <2>4, RolesLenNext DEF Fits
  <2> QED
    BY <1>1, <1>7, <1>9, <2>3, <2>9, <2>10 DEF Goes, Talking
<1> QED
  BY <1>3, <1>10, <1>11 DEF OutFits

(* Nothing comes of it once the handshake is settled.                      *)
LEMMA ServeSettles ==
  ASSUME Typed, Settled, Serve
  PROVE  Settled' /\ rQ' \in Seq(Cells) /\ net' \in Seq(Cells) /\ out' \in Seq(Labels)
<1>1. /\ out # <<>> /\ out' = Tail(out)
      /\ UNCHANGED <<init, version, scheme, stage, tight, creds, pending, rQ, run, misread>>
  BY DEF Serve, authVars
<1>2. rQ \in Seq(Cells) /\ net \in Seq(Cells) /\ out \in Seq(Labels)
  BY DEF Typed
<1>3. Coming = <<>> /\ Len(out) = 1 /\ out[1][1] = "request"
  BY <1>1 DEF Settled
<1>4. rQ = <<>> /\ net = <<>>
  BY <1>2, <1>3, ComingIs
<1>5. PICK cells \in Answer(out[1]) : net' = net \o cells
  BY DEF Serve
<1>6. cells = <<>>
  BY <1>3, <1>5, RequestAnswer
<1>7. net' = <<>> /\ rQ' = <<>> /\ Coming' = <<>>
  BY <1>1, <1>4, <1>5, <1>6 DEF Coming
<1>8. out' = <<>>
  BY <1>1, <1>2, <1>3
<1>9. rQ' \in Seq(Cells) /\ net' \in Seq(Cells) /\ out' \in Seq(Labels)
  BY <1>7, <1>8
<1> QED
  BY <1>1, <1>7, <1>8, <1>9 DEF Settled, Over, Called

-----------------------------------------------------------------------------
(***************************************************************************)
(* Every step keeps the handshake's invariant.                             *)
(***************************************************************************)
\* What a step leaves in the variables that are of a plain type.
Plain ==
  /\ stage \in 0 .. 6 /\ tight \in BOOLEAN /\ run \in {"idle", "loop", "once"}
  /\ creds \in {"none", "asked", "given"}
  /\ pending \in {"nothing", "resume", "ard", "approve"}

(* A step that goes on with the handshake.                                 *)
LEMMA AfterGoes ==
  ASSUME Handshake, link.conn = "connecting", link.sock = "open", Goes, SessionOK', Plain'
  PROVE  Handshake'
<1>1. link' = link /\ Talking' /\ misread' = misread
  BY DEF Goes
<1>2. misread = FALSE /\ misread' = FALSE
  BY <1>1, PhaseIs DEF Handshake, Typed, Live
<1>3. Typed'
  BY <1>2 DEF Typed, Goes, Plain
<1>4. LinkFits(link') /\ link'.conn = "connecting" /\ link'.sock = "open"
  BY <1>1 DEF Handshake
<1>5. Phase'
  BY <1>1, <1>4 DEF Phase, Live
<1>6. MisreadOver'
  BY <1>2 DEF MisreadOver
<1> QED
  BY <1>3, <1>4, <1>5, <1>6 DEF Handshake

(* A step that ends the session, or is taken after its end.                *)
LEMMA AfterEnd ==
  ASSUME SessionOK', Plain', LinkFits(link'), link'.conn \in {"disconnecting", "disconnected"},
         Late', run' # "loop", misread' \in BOOLEAN, misread' => scheme' = "ra2" /\ Over',
         rQ' \in Seq(Cells), net' \in Seq(Cells), out' \in Seq(Labels)
  PROVE  Handshake'
<1>1. Typed'
  BY DEF Typed, Plain
<1>2. link'.sock # "connecting"
  BY DEF LinkFits
<1>3. Phase'
  BY <1>2 DEF Phase
<1>4. MisreadOver'
  BY DEF MisreadOver, Live
<1> QED
  BY <1>1, <1>3, <1>4 DEF Handshake

(* A failure.                                                              *)
LEMMA AfterFailure ==
  ASSUME Handshake, Live, link' = Failed(link), run' = "idle", ~Called',
         SessionOK', Plain', misread' \in BOOLEAN, misread' => scheme' = "ra2",
         rQ' \in Seq(Cells), net' \in Seq(Cells), out' \in Seq(Labels)
  PROVE  Handshake'
<1>1. link \in Links /\ LinkFits(link) /\ link.conn \in {"connecting", "connected"}
  BY DEF Handshake, Typed, SessionOK, LinkOK, Live
<1>2. LinkFits(link') /\ link'.conn = "disconnected"
  BY <1>1, FailedFits, FailedConn
<1>3. Over' /\ Late'
  BY DEF Over, Late
<1> QED
  BY <1>2, <1>3, AfterEnd

(* A handler.                                                              *)
LEMMA InitMsgKeeps ==
  ASSUME Handshake, InitMsg, SessionOK' PROVE Handshake'
<1>1. Typed
  BY DEF Handshake
<1>2. Plain' /\ run # "idle" /\ (run = "once" => run' = "idle")
  BY <1>1, InitMsgTypes DEF Plain
<1>3. ~Over /\ ~misread
  BY <1>2, PhaseIs DEF Over
<1>4. CASE Live
  <2>1. link.conn = "connecting" /\ link.sock = "open" /\ Talking
    BY <1>3, <1>4, PhaseIs
  <2>2. CASE Goes
    BY <1>2, <2>1, <2>2, AfterGoes
  <2>3. CASE Fails
    <3>1. misread' = FALSE
      BY <1>1, <1>3, <2>3 DEF Fails, Typed
    <3> QED
      BY <1>2, <1>4, <2>3, <3>1, AfterFailure DEF Fails
  <2>4. CASE NegotiateServerInit
    <3>1. /\ Settled' /\ misread' = misread
          /\ rQ' \in Seq(Cells) /\ net' \in Seq(Cells) /\ out' \in Seq(Labels)
      BY <1>1, <2>1, <2>4, ServerInitSettles
    <3>2. link' = Update([link EXCEPT !.grabbed = ~viewOnly], "connected") /\ run' = "idle"
      BY <2>4 DEF NegotiateServerInit
    <3>3. link \in Links /\ LinkFits(link) /\ (~viewOnly) \in BOOLEAN
      BY <1>1 DEF Handshake, Typed, SessionOK, LinkOK
    <3>4. LinkFits(link') /\ link'.conn = "connected" /\ link'.sock = "open"
      BY <2>1, <3>2, <3>3, ConnectFits
    <3>5. Phase' /\ MisreadOver'
      BY <1>3, <3>1, <3>4 DEF Phase, Live, MisreadOver
    <3>6. Typed'
      BY <1>1, <1>2, <3>1 DEF Typed, Plain
    <3> QED
      BY <3>2, <3>4, <3>5, <3>6 DEF Handshake
  <2> QED
    BY <1>1, <2>1, <2>2, <2>3, <2>4, InitMsgGoes
<1>5. CASE ~Live
  <2>1. LinkFits(link) /\ link.conn \in {"disconnecting", "disconnected"}
    BY <1>1, <1>5 DEF Handshake, Live, Typed, SessionOK, LinkOK, Links, States
  <2>2. run = "once" /\ run' = "idle" /\ Called
    BY <1>1, <1>2, <1>5 DEF Handshake, Live, Typed, Called
  <2>3. CASE Talking /\ init = "Authentication"
    <3>1. ~Fails /\ ~NegotiateServerInit
      BY <2>2, <2>3 DEF Fails, NegotiateServerInit, In
    <3>2. Goes
      BY <1>1, <2>3, <3>1, InitMsgGoes
    <3>3. Late'
      <4>1. CASE Called'
        BY <2>2, <3>2, <4>1 DEF Goes, Talking, Readers, Late
      <4>2. CASE ~Called'
        BY <2>2, <4>2 DEF Late, Over
      <4> QED
        BY <4>1, <4>2
    <3>4. misread' = FALSE /\ link' = link
      BY <1>1, <1>3, <3>2 DEF Goes, Typed
    <3> QED
      BY <1>2, <2>1, <2>2, <3>2, <3>3, <3>4, AfterEnd DEF Goes
  <2>4. CASE init = "SecurityResult" /\ stage = 0 /\ rQ = <<>> /\ pending # "ard"
    <3>1. NotYet
      <4>1. ~Has(1)
        BY <2>4 DEF Has
      <4>2. ~HandleSecurityResult
        BY <4>1, OneField DEF HandleSecurityResult, Read, Has, Names
      <4>3. \A s : s # "SecurityResult" => ~In(s)
        BY <2>4 DEF In
      <4>4. /\ ~NegotiateProtocolVersion /\ ~NegotiateSecurity /\ ~HandleSecurityReason
            /\ ~ClientInitialisation /\ ~NegotiateServerInit
        BY <4>3 DEF NegotiateProtocolVersion, NegotiateSecurity, HandleSecurityReason,
                    ClientInitialisation, NegotiateServerInit
      <4>5. \A s : ~Auth(s)
        BY <4>3 DEF Auth
      <4>6. /\ ~AuthNone /\ ~AuthPlain /\ ~AuthXvp /\ ~AuthChallenge /\ ~AuthArd
            /\ ~AuthTightTunnels /\ ~AuthTight /\ ~AuthVeNCrypt /\ ~AuthRa2
            /\ ~AuthUnsupported
        BY <4>5 DEF AuthUnsupported, AuthNone, AuthPlain, AuthXvp, AuthChallenge, AuthArd,
                    AuthTightTunnels, AuthTight, AuthVeNCrypt, AuthRa2
      <4> QED
        BY <4>2, <4>4, <4>6, Zenon DEF InitMsg
    <3>2. /\ rQ' = rQ /\ net' = net /\ misread' = misread
          /\ UNCHANGED <<link, init, version, scheme, stage, tight, creds, pending, out>>
      BY <3>1 DEF NotYet, Await, PutBack, authVars
    <3>3. Late'
      BY <2>2, <2>4, <3>2 DEF Late
    <3>4. misread' = FALSE
      BY <1>1, <1>3, <3>2 DEF Typed
    <3>5. rQ' \in Seq(Cells) /\ net' \in Seq(Cells) /\ out' \in Seq(Labels)
      BY <1>1, <3>2 DEF Typed
    <3> QED
      BY <1>2, <2>1, <2>2, <3>2, <3>3, <3>4, <3>5, AfterEnd
  <2> QED
    BY <1>3, <1>5, <2>3, <2>4, PhaseIs DEF Late
<1> QED
  BY <1>4, <1>5

(* RSA-AES.                                                                *)
LEMMA Ra2Keeps ==
  ASSUME Handshake, Ra2Next, SessionOK' PROVE Handshake'
<1>1. Typed
  BY DEF Handshake
<1>2. scheme = "ra2" /\ stage \in 1 .. 6 /\ run = "idle" /\ Live
  BY DEF Ra2Next, Ra2ServerKey, ApproveServer, Ra2ServerRandom, Ra2ServerHash, Ra2Subtype,
         Ra2Credentials, Ra2At
<1>3. link.conn = "connecting" /\ link.sock = "open" /\ Talking
  <2>1. LinkFits(link) /\ Phase
    BY DEF Handshake
  <2>2. link.conn # "connected" /\ link.sock # "connecting"
    BY <1>2, <2>1 DEF Phase, Settled, Unopened
  <2> QED
    BY <1>2, <2>1, <2>2 DEF LinkFits, Live, Phase
<1>4. ~misread
  BY <1>2, PhaseIs
<1>5. ASSUME NEW n \in 1 .. 5, Ra2At(n), Ra2Throw,
             NEW roles \in Seq(Names), Read(roles)
      PROVE  Handshake'
  <2>1. /\ link' = Failed(link) /\ run' = "idle" /\ ~Called' /\ scheme' = "ra2"
        /\ out' \in Seq(Labels)
        /\ stage' \in 0 .. 6 /\ UNCHANGED <<tight, run, creds, pending>>
    BY <1>1, <1>3, <1>5, ThrowFails
  <2>2. rQ' \in Seq(Cells) /\ net' \in Seq(Cells) /\ misread' \in BOOLEAN
    BY <1>1, <1>5, WireReadTyped
  <2>3. Plain'
    BY <1>1, <2>1 DEF Typed, Plain
  <2> QED
    BY <1>2, <2>1, <2>2, <2>3, AfterFailure
<1>6. /\ <<"keyLen">> \in Seq(Names) /\ <<"randLen">> \in Seq(Names)
      /\ <<"randLen", "random">> \in Seq(Names)
      /\ <<"hash">> \in Seq(Names) /\ <<"subtype">> \in Seq(Names)
      /\ 1 \in 1 .. 5 /\ 3 \in 1 .. 5 /\ 4 \in 1 .. 5 /\ 5 \in 1 .. 5
  BY DEF Names
<1>7. CASE Ra2ServerKey
  <2>1. CASE /\ Ra2At(1) /\ Read(<<"keyLen", "key">>) /\ Ra2Go(2) /\ pending' = "approve"
             /\ UNCHANGED <<init, creds, out>>
    <3>1. Plain'
      BY <1>1, <2>1 DEF Ra2Go, Typed, Plain
    <3>2. Goes
      BY <1>1, <1>3, <2>1, KeyGoes, Zenon
    <3> QED
      BY <1>3, <3>1, <3>2, AfterGoes
  <2>2. CASE Ra2At(1) /\ Read(<<"keyLen">>) /\ Ra2Throw
    BY <1>5, <1>6, <2>2, Zenon
  <2> QED
    BY <1>7, <2>1, <2>2, Zenon DEF Ra2ServerKey
<1>8. CASE ApproveServer
  <2>1. Plain'
    BY <1>1, <1>8 DEF ApproveServer, Ra2Go, Typed, Plain
  <2> QED
    BY <1>1, <1>3, <1>8, <2>1, ApproveGoes, AfterGoes
<1>9. CASE Ra2ServerRandom
  <2>1. CASE /\ Ra2At(3) /\ Read(<<"randLen", "random">>) /\ Ra2Go(4)
             /\ Reply(<<"clientHash">>) /\ UNCHANGED <<init, creds, pending>>
    <3>1. Plain'
      BY <1>1, <2>1 DEF Ra2Go, Typed, Plain
    <3>2. Goes
      BY <1>1, <1>3, <2>1, RandomGoes, Zenon
    <3> QED
      BY <1>3, <3>1, <3>2, AfterGoes
  <2>2. CASE /\ Ra2At(3) /\ Ra2Throw
             /\ Read(<<"randLen">>) \/ Read(<<"randLen", "random">>)
    BY <1>5, <1>6, <2>2, Zenon
  <2>3. CASE Ra2At(3) /\ rQ' = <<>> /\ misread' = TRUE /\ Ra2Throw /\ UNCHANGED net
    <3>1. /\ link' = Failed(link) /\ run' = "idle" /\ ~Called' /\ scheme' = "ra2"
          /\ out' \in Seq(Labels)
          /\ stage' \in 0 .. 6 /\ UNCHANGED <<tight, run, creds, pending>>
      BY <1>1, <1>3, <2>3, ThrowFails
    <3>2. rQ' \in Seq(Cells) /\ net' \in Seq(Cells) /\ misread' \in BOOLEAN
      BY <1>1, <2>3 DEF Typed
    <3>3. Plain'
      BY <1>1, <3>1 DEF Typed, Plain
    <3> QED
      BY <1>2, <3>1, <3>2, <3>3, AfterFailure
  <2> QED
    BY <1>9, <2>1, <2>2, <2>3, Zenon DEF Ra2ServerRandom
<1>10. CASE Ra2ServerHash
  <2>1. CASE /\ Ra2At(4) /\ Read(<<"hash">>) /\ Ra2Go(5)
             /\ UNCHANGED <<init, creds, pending, out>>
    <3>1. Plain'
      BY <1>1, <2>1 DEF Ra2Go, Typed, Plain
    <3>2. Goes
      BY <1>1, <1>3, <2>1, HashGoes, Zenon
    <3> QED
      BY <1>3, <3>1, <3>2, AfterGoes
  <2>2. CASE Ra2At(4) /\ Read(<<"hash">>) /\ Ra2Throw
    BY <1>5, <1>6, <2>2, Zenon
  <2> QED
    BY <1>10, <2>1, <2>2, Zenon DEF Ra2ServerHash
<1>11. CASE Ra2Subtype
  <2>1. CASE /\ Ra2At(5) /\ Read(<<"subtype">>) /\ Ra2Go(6)
             /\ creds' = (IF creds = "given" THEN "given" ELSE "asked")
             /\ UNCHANGED <<init, pending, out>>
    <3>1. Plain'
      BY <1>1, <2>1 DEF Ra2Go, Typed, Plain
    <3>2. Goes
      BY <1>1, <1>3, <2>1, SubtypeGoes, Zenon
    <3> QED
      BY <1>3, <3>1, <3>2, AfterGoes
  <2>2. CASE Ra2At(5) /\ Read(<<"subtype">>) /\ Ra2Throw
    BY <1>5, <1>6, <2>2, Zenon
  <2> QED
    BY <1>11, <2>1, <2>2, Zenon DEF Ra2Subtype
<1>12. CASE Ra2Credentials
  <2>1. Plain'
    BY <1>1, <1>12 DEF Ra2Credentials, Ra2Go, Typed, Plain
  <2> QED
    BY <1>1, <1>3, <1>12, <2>1, CredentialsGo, AfterGoes
<1> QED
  BY <1>7, <1>8, <1>9, <1>10, <1>11, <1>12 DEF Ra2Next

(* The socket opens.                                                       *)
LEMMA OpenKeeps ==
  ASSUME Handshake, SocketOpen, SessionOK' PROVE Handshake'
<1>1. /\ link.sock = "connecting" /\ run = "idle" /\ link' = [link EXCEPT !.sock = "open"]
      /\ init' = "ProtocolVersion" /\ out' = << <<"open">> >>
      /\ UNCHANGED <<version, scheme, stage, tight, creds, pending, rQ, net, run, misread>>
  BY DEF SocketOpen, authVars, streamVars
<1>2. link \in Links /\ LinkFits(link) /\ Typed
  BY DEF Handshake, Typed, SessionOK, LinkOK
<1>3. link.conn = "connecting" /\ Unopened
  BY <1>1, <1>2 DEF LinkFits, Handshake, Phase
<1>4. LinkFits(link') /\ link'.conn = "connecting" /\ link'.sock = "open"
  BY <1>1, <1>2, <1>3, OpenFits DEF Links
<1>5. Coming' = <<>> /\ rQ' = <<>>
  <2>1. rQ = <<>>
    BY <1>2, <1>3, ComingIs DEF Unopened, Typed
  <2> QED
    BY <1>1, <1>3, <2>1 DEF Coming, Unopened
<1>6. Standing'
  BY <1>1, <1>3 DEF Standing, InitStates, Unopened
<1>7. Readers'
  BY <1>1, <1>3 DEF Readers, Called, Unopened, Over
<1>8. Fits(Coming)'
  BY <1>5, RolesLenNext DEF Fits
<1>9. Line'
  <2>1. Waits'
    BY <1>1, <1>5, EmptyWaits DEF Needs
  <2>2. Len(out') = 1 /\ out'[1] = <<"open">> /\ out' # <<>>
    BY <1>1
  <2>3. Awaited(<<"open">>)'
    BY <1>1 DEF Awaited
  <2>4. OutFits'
    BY <2>2, <2>3, AwaitedNext
  <2> QED
    BY <1>5, <2>1, <2>2, <2>4 DEF Line
<1>10. misread' = FALSE
  BY <1>1, <1>2, <1>3, PhaseIs DEF Typed, Live
<1>11. Typed'
  <2>1. <<"open">> \in Labels
    BY LabelsAre DEF Words
  <2>2. out' \in Seq(Labels)
    BY <1>1, <2>1
  <2> QED
    BY <1>1, <1>2, <1>10, <2>2 DEF Typed
<1>12. Phase'
  BY <1>4, <1>6, <1>7, <1>8, <1>9 DEF Phase, Talking, Live
<1> QED
  BY <1>1, <1>4, <1>10, <1>11, <1>12 DEF Handshake, MisreadOver

(* It closes.                                                              *)
LEMMA CloseKeeps ==
  ASSUME Handshake, SocketClose, SessionOK' PROVE Handshake'
<1>1. /\ run = "idle" /\ net' = <<>> /\ out' = <<>>
      /\ UNCHANGED <<init, authVars, rQ, run, misread>>
  BY DEF SocketClose
<1>2. link \in Links /\ LinkFits(link) /\ Typed
  BY DEF Handshake, Typed, SessionOK, LinkOK
<1>3. LinkFits(link') /\ link'.conn \in {"disconnecting", "disconnected"}
  BY <1>2, CloseFits DEF SocketClose
<1>4. link'.sock # "open"
  BY <1>3 DEF LinkFits, Told
<1>5. Late'
  BY <1>1, <1>2, <1>4, PhaseIs, LateNext
<1>6. Plain' /\ rQ' \in Seq(Cells) /\ net' \in Seq(Cells) /\ out' \in Seq(Labels)
  BY <1>1, <1>2 DEF Typed, Plain, authVars
<1>7. misread' \in BOOLEAN /\ (misread' => scheme' = "ra2" /\ Over')
  BY <1>1, <1>2 DEF Handshake, MisreadOver, Over, Called, Typed, authVars
<1> QED
  BY <1>1, <1>3, <1>5, <1>6, <1>7, AfterEnd

(* disconnect().                                                           *)
LEMMA DisconnectKeeps ==
  ASSUME Handshake, Disconnect, SessionOK' PROVE Handshake'
<1>1. /\ run = "idle" /\ net' = <<>> /\ link' = Update(link, "disconnecting")
      /\ UNCHANGED <<version, scheme, tight, creds, out, rQ, run, misread>>
  BY DEF Disconnect
<1>2. link \in Links /\ LinkFits(link) /\ Typed
  BY DEF Handshake, Typed, SessionOK, LinkOK
<1>3. LinkFits(link') /\ link'.conn \in {"disconnecting", "disconnected"}
  BY <1>1, <1>2, DownFits, DownIsDown
<1>4. link'.sock # "open"
  BY <1>3 DEF LinkFits, Told
<1>5. rQ' \in Seq(Cells) /\ net' \in Seq(Cells) /\ out' \in Seq(Labels)
      /\ misread' \in BOOLEAN
  BY <1>1, <1>2 DEF Typed
<1>6. CASE scheme = "ra2" /\ stage > 0
  <2>1. stage' = 0 /\ init' = "SecurityResult" /\ pending' = "nothing"
    BY <1>6 DEF Disconnect
  <2>2. CASE creds # "asked"
    <3>1. Over'
      BY <1>1, <2>1, <2>2 DEF Over, Called
    <3> QED
      BY <1>1, <1>2, <1>3, <1>5, <1>6, <2>1, <3>1, AfterEnd DEF Plain, Typed, Late
  <2>3. CASE creds = "asked"
    <3>1. Called /\ ~misread
      BY <2>3, PhaseIs DEF Called, Over
    <3>2. Talking
      BY <1>6, <3>1, PhaseIs DEF SomePhase, Unopened, Settled, Late, Over
    <3>3. stage = 6 /\ init = "Authentication"
      BY <1>6, <3>1, <3>2 DEF Talking, Readers, Asking
    <3>4. rQ = <<>>
      <4>1. Roles(Coming) = <<>>
        BY <1>6, <3>3 DEF Roles, AuthRoles, Ra2Roles
      <4>2. Len(Coming) = 0
        BY <1>2, <3>2, <4>1, ComingIs DEF Talking, Fits, Typed
      <4>3. Coming = <<>>
        BY <1>2, <4>2, ComingIs DEF Typed
      <4> QED
        BY <1>2, <4>3, ComingIs DEF Typed
    <3>5. Late'
      BY <1>1, <2>1, <3>4 DEF Late
    <3>6. misread' = FALSE
      BY <1>1, <1>2, <3>1 DEF Typed
    <3> QED
      BY <1>1, <1>2, <1>3, <1>5, <2>1, <3>5, <3>6, AfterEnd DEF Plain, Typed
  <2> QED
    BY <2>2, <2>3
<1>7. CASE ~(scheme = "ra2" /\ stage > 0)
  <2>1. UNCHANGED <<init, authVars>>
    BY <1>1, <1>7 DEF Disconnect, authVars
  <2>2. Late'
    BY <1>1, <1>2, <1>4, <2>1, PhaseIs, LateNext
  <2>3. Plain'
    BY <1>1, <1>2, <2>1 DEF Typed, Plain, authVars
  <2>4. misread' => scheme' = "ra2" /\ Over'
    BY <1>1, <2>1 DEF Handshake, MisreadOver, Over, Called, authVars
  <2> QED
    BY <1>1, <1>3, <1>5, <2>2, <2>3, <2>4, AfterEnd
<1> QED
  BY <1>6, <1>7

(* The timer.                                                              *)
LEMMA TimeoutKeeps ==
  ASSUME Handshake, DisconnectTimeout, SessionOK' PROVE Handshake'
<1>1. /\ run = "idle" /\ link.timer /\ link' = Update(link, "disconnected")
      /\ UNCHANGED <<init, authVars, rQ, net, out, run, misread>>
  BY DEF DisconnectTimeout, streamVars
<1>2. link \in Links /\ LinkFits(link) /\ Typed
  BY DEF Handshake, Typed, SessionOK, LinkOK
<1>3. link.conn = "disconnecting"
  BY <1>1, <1>2 DEF LinkFits, Told
<1>4. LinkFits(link') /\ link'.conn = "disconnected"
  <2>1. LinkFits(link')
    BY <1>1, <1>2, TimeoutFits
  <2>2. link'.conn = "disconnected"
    BY <1>1, <1>2, <1>3, UpdateConn DEF States, Transitions
  <2> QED
    BY <2>1, <2>2
<1>5. link'.sock # "open"
  BY <1>4 DEF LinkFits, Told
<1>6. Late'
  BY <1>1, <1>2, <1>5, PhaseIs, LateNext
<1>7. Plain' /\ rQ' \in Seq(Cells) /\ net' \in Seq(Cells) /\ out' \in Seq(Labels)
  BY <1>1, <1>2 DEF Typed, Plain, authVars
<1>8. misread' \in BOOLEAN /\ (misread' => scheme' = "ra2" /\ Over')
  BY <1>1, <1>2 DEF Handshake, MisreadOver, Over, Called, Typed, authVars
<1> QED
  BY <1>1, <1>4, <1>6, <1>7, <1>8, AfterEnd

(* What is called without a message, before the end of the session or      *)
(* after it.                                                               *)
LEMMA CallsKeep ==
  ASSUME Handshake, ArdComputed \/ SendCredentials \/ Resume, SessionOK' PROVE Handshake'
<1>1. Typed
  BY DEF Handshake
<1>2. Called /\ ~Over /\ ~misread
  <2>1. Called
    BY DEF ArdComputed, SendCredentials, Resume, Called
  <2> QED
    BY <2>1, PhaseIs DEF Over
<1>3. /\ Plain' /\ UNCHANGED <<link, init, tight, rQ, net, out, misread>> /\ run' # "loop"
      /\ (ArdComputed \/ stage' = stage) /\ pending' \in {"resume", "nothing"}
  BY <1>1 DEF ArdComputed, SendCredentials, Resume, Typed, Plain, streamVars
<1>4. Talking => Goes
  BY <1>1, ComputedGoes, SendGoes, ResumeGoes
<1>5. CASE Live
  BY <1>2, <1>3, <1>4, <1>5, PhaseIs, AfterGoes
<1>6. CASE ~Live
  <2>1. LinkFits(link') /\ link'.conn \in {"disconnecting", "disconnected"}
    BY <1>1, <1>3, <1>6 DEF Handshake, Live, Typed, SessionOK, LinkOK, Links, States
  <2>2. Late'
    <3>1. CASE Talking /\ init = "Authentication"
      BY <1>3, <1>4, <3>1 DEF Late, Goes
    <3>2. CASE init = "SecurityResult" /\ stage = 0 /\ rQ = <<>> /\ pending # "ard"
      BY <1>3, <3>2 DEF Late, ArdComputed
    <3> QED
      BY <1>2, <1>6, <3>1, <3>2, PhaseIs DEF Late
  <2>3. misread' = FALSE /\ rQ' \in Seq(Cells) /\ net' \in Seq(Cells) /\ out' \in Seq(Labels)
    BY <1>1, <1>2, <1>3 DEF Typed
  <2> QED
    BY <1>3, <2>1, <2>2, <2>3, AfterEnd
<1> QED
  BY <1>5, <1>6

(* A message.                                                              *)
LEMMA MessageKeeps ==
  ASSUME Handshake, Message, SessionOK' PROVE Handshake'
<1>1. Typed /\ link.sock = "open" /\ link.conn = "connecting"
  BY DEF Handshake, Message
<1>2. Talking
  BY <1>1 DEF Handshake, Phase
<1>3. Plain'
  BY <1>1 DEF Message, Receive, Typed, Plain, authVars
<1> QED
  BY <1>1, <1>2, <1>3, MessageGoes, AfterGoes

(* The server.                                                             *)
LEMMA ServeKeeps ==
  ASSUME Handshake, Serve, SessionOK' PROVE Handshake'
<1>1. /\ Typed /\ link.sock = "open" /\ Live /\ run = "idle"
      /\ UNCHANGED <<link, init, version, scheme, stage, tight, creds, pending, rQ, run, misread>>
  BY DEF Handshake, Serve, authVars
<1>2. Plain'
  BY <1>1 DEF Typed, Plain
<1>3. CASE link.conn = "connecting"
  <2>1. Talking
    BY <1>1, <1>3 DEF Handshake, Phase
  <2> QED
    BY <1>1, <1>2, <1>3, <2>1, ServeGoes, AfterGoes
<1>4. CASE link.conn = "connected"
  <2>1. Settled
    BY <1>4 DEF Handshake, Phase
  <2>2. Settled' /\ rQ' \in Seq(Cells) /\ net' \in Seq(Cells) /\ out' \in Seq(Labels)
    BY <1>1, <2>1, ServeSettles
  <2>3. misread' = FALSE
    BY <1>1, PhaseIs DEF Typed
  <2>4. Typed'
    BY <1>2, <2>2, <2>3 DEF Typed, Plain
  <2>5. LinkFits(link') /\ link'.sock = "open" /\ link'.conn = "connected"
    BY <1>1, <1>4 DEF Handshake
  <2>6. Phase'
    BY <2>2, <2>5 DEF Phase, Live
  <2> QED
    BY <1>1, <2>3, <2>4, <2>5, <2>6 DEF Handshake, MisreadOver
<1> QED
  BY <1>1, <1>3, <1>4 DEF Live

(* Or nothing happens.                                                     *)
LEMMA NothingKeeps ==
  ASSUME Handshake, UNCHANGED sessionVars PROVE Handshake'
<1>1. UNCHANGED <<viewOnly, link, init, version, scheme, stage, tight, creds, pending, out,
                  net, rQ, run, misread>>
  BY DEF sessionVars, authVars, streamVars
<1>2. Typed'
  BY <1>1 DEF Handshake, Typed, SessionOK, LinkOK
<1>3. Called' = Called /\ Over' = Over /\ Coming' = Coming
  BY <1>1 DEF Called, Over, Coming
<1>4. Talking => Talking'
  <2> SUFFICES ASSUME Talking PROVE Talking'
    OBVIOUS
  <2>1. Standing' /\ Readers'
    BY <1>1, <1>3 DEF Talking, Standing, Readers
  <2>2. Roles(Coming)' = Roles(Coming)
    BY <1>1, <1>3 DEF Roles, SecurityRoles, ReasonRoles, ResultRoles, AuthRoles, TunnelRoles,
                      TightRoles, VeNCryptRoles, Ra2Roles, ServerInit
  <2>3. Fits(Coming)' /\ (Whole(Coming) => Whole(Coming)')
    BY <1>1, <1>3, <2>2 DEF Talking, Fits, Whole
  <2>4. Waits => Waits'
    <3>1. Needed' = Needed
      BY <1>1 DEF Needed, Has, Some, Reason, Zero, ServerInit
    <3> QED
      BY <1>1, <3>1 DEF Waits, Has
  <2>5. OutFits => OutFits'
    <3>1. \A l : Awaited(l) => Awaited(l)'
      BY <1>1 DEF Awaited
    <3>2. \A l : Mute(l) => Mute(l)'
      BY <1>1 DEF Mute
    <3>3. CASE Len(out) = 1 /\ Awaited(out[1])
      <4>1. PICK k : k = out[1]
        OBVIOUS
      <4>2. Len(out') = 1 /\ out'[1] = k /\ Awaited(k)'
        BY <1>1, <3>1, <3>3, <4>1
      <4> QED
        BY <4>2, AwaitedNext
    <3>4. CASE /\ Len(out) = 2 /\ Mute(out[1]) /\ Awaited(out[2])
               /\ out[2][1] \in {"xvp", "credentials", "clientinit"}
      <4>1. PICK k : k = out[1]
        OBVIOUS
      <4>2. PICK l : l = out[2]
        OBVIOUS
      <4>3. Len(out') = 2 /\ out'[1] = k /\ out'[2] = l /\ Mute(k)' /\ Awaited(l)'
        BY <1>1, <3>1, <3>2, <3>4, <4>1, <4>2
      <4> QED
        BY <3>4, <4>2, <4>3, AwaitedAfterMute
    <3> QED
      BY <3>3, <3>4 DEF OutFits
  <2>6. Line'
    BY <1>1, <1>3, <2>3, <2>4, <2>5 DEF Talking, Line
  <2> QED
    BY <2>1, <2>3, <2>6 DEF Talking
<1> QED
  BY <1>1, <1>2, <1>3, <1>4 DEF Handshake, Phase, Unopened, Settled, Late, MisreadOver, Live

(* Every step of a session.                                                *)
LEMMA HandshakeStep == Handshake /\ [SessionNext]_sessionVars => Handshake'
<1> SUFFICES ASSUME Handshake, [SessionNext]_sessionVars PROVE Handshake'
  OBVIOUS
<1>1. SessionOK'
  BY SessionStep DEF Handshake, Typed
<1>2. CASE SocketOpen
  BY <1>1, <1>2, OpenKeeps
<1>3. CASE SocketClose
  BY <1>1, <1>3, CloseKeeps
<1>4. CASE Disconnect
  BY <1>1, <1>4, DisconnectKeeps
<1>5. CASE DisconnectTimeout
  BY <1>1, <1>5, TimeoutKeeps
<1>6. CASE InitMsg
  BY <1>1, <1>6, InitMsgKeeps
<1>7. CASE ArdComputed \/ SendCredentials \/ Resume
  BY <1>1, <1>7, CallsKeep
<1>8. CASE Ra2Next
  BY <1>1, <1>8, Ra2Keeps
<1>9. CASE Message
  BY <1>1, <1>9, MessageKeeps
<1>10. CASE Serve
  BY <1>1, <1>10, ServeKeeps
<1>11. CASE UNCHANGED sessionVars
  BY <1>11, NothingKeeps
<1> QED
  BY <1>2, <1>3, <1>4, <1>5, <1>6, <1>7, <1>8, <1>9, <1>10, <1>11 DEF SessionNext

(* A session at its start.                                                 *)
LEMMA HandshakeStart == SessionInit => Handshake
<1> SUFFICES ASSUME SessionInit PROVE Handshake
  OBVIOUS
<1>1. /\ link = [conn |-> "connecting", sock |-> "connecting", closeOn |-> TRUE,
                 timer |-> FALSE, grabbed |-> FALSE, clean |-> TRUE, reports |-> <<>>]
      /\ viewOnly \in BOOLEAN /\ init = "start" /\ stage = 0 /\ tight = FALSE
      /\ creds \in {"none", "given"} /\ pending = "nothing" /\ out = <<>>
      /\ net = <<>> /\ rQ = <<>> /\ run = "idle" /\ misread = FALSE
  BY DEF SessionInit, StreamInit
<1>2. <<>> \in Seq(BOOLEAN) /\ <<>> \in Seq(Cells) /\ <<>> \in Seq(Labels)
  OBVIOUS
<1>3. link \in Links
  BY <1>1, <1>2 DEF Links, States
<1>4. Typed
  <2>1. rQ \in Seq(Cells) /\ net \in Seq(Cells) /\ out \in Seq(Labels)
    BY <1>1, <1>2
  <2>2. SessionOK
    BY <1>1, <1>3 DEF SessionOK, LinkOK
  <2>3. tight \in BOOLEAN /\ misread \in BOOLEAN
    BY <1>1, Zenon
  <2>4. /\ stage \in 0 .. 6
        /\ run \in {"idle", "loop", "once"} /\ creds \in {"none", "asked", "given"}
        /\ pending \in {"nothing", "resume", "ard", "approve"}
    BY DEF SessionInit, StreamInit
  <2> QED
    BY <2>1, <2>2, <2>3, <2>4 DEF Typed
<1>5. LinkFits(link)
  BY <1>1 DEF LinkFits, Told
<1>6. Unopened
  BY <1>1 DEF Unopened, Over, Called, Coming
<1> QED
  BY <1>1, <1>4, <1>5, <1>6 DEF Handshake, Phase, MisreadOver, Live

(* What a handler waits for is no more than what is due.                   *)
LEMMA NeededDue ==
  ASSUME Typed, pending # "ard" PROVE Needed <= Len(Roles(rQ))
<1>1. Has(1) => 1 \in DOMAIN rQ
  BY DEF Has, Typed
<1>2. Has(1) => Val(rQ, 1) = rQ[1].val
  BY <1>1 DEF Val
<1>4. CASE init = "ProtocolVersion"
  BY <1>4 DEF Needed, Roles
<1>5. CASE init = "Security"
  BY <1>2, <1>5 DEF Needed, Roles, SecurityRoles, Some
<1>6. CASE init = "SecurityReason"
  <2>1. Roles(rQ) = IF Val(rQ, 1) = "0" THEN <<"reasonLen">> ELSE <<"reasonLen", "reason">>
    BY <1>6 DEF Roles, ReasonRoles
  <2>2. CASE Has(1)
    <3>1. Needed = Len(Reason)
      BY <1>6, <2>2 DEF Needed
    <3>2. Reason = Roles(rQ)
      BY <1>2, <2>1, <2>2 DEF Reason, Zero
    <3> QED
      BY <3>1, <3>2, RolesLen
  <2>3. CASE ~Has(1)
    <3>1. Needed = 1
      BY <1>6, <2>3 DEF Needed
    <3> QED
      BY <2>1, <3>1
  <2> QED
    BY <2>2, <2>3
<1>7. CASE init = "SecurityResult"
  BY <1>7 DEF Needed, Roles, ResultRoles
<1>8. CASE init = "ServerInitialisation"
  BY <1>8 DEF Needed, Roles, ServerInit
<1>9. CASE init = "Authentication" /\ scheme \in {"vnc", "mslogon"}
  BY <1>9 DEF Needed, Roles, AuthRoles
<1>10. CASE init = "Authentication" /\ scheme = "vencrypt"
  <2>1. Len(VeNCryptRoles(rQ)) >= 1
    BY DEF VeNCryptRoles
  <2> QED
    BY <1>10, <2>1 DEF Needed, Roles, AuthRoles
<1>11. CASE init = "Authentication" /\ scheme = "tight"
  <2>1. /\ Len(TunnelRoles(rQ)) >= 1 /\ Len(TightRoles(rQ)) >= 1
        /\ Has(1) /\ Some => Len(TunnelRoles(rQ)) = 2 /\ Len(TightRoles(rQ)) = 2
    BY <1>2 DEF TunnelRoles, TightRoles, Some
  <2>2. Roles(rQ) = IF tight THEN TightRoles(rQ) ELSE TunnelRoles(rQ)
    BY <1>11 DEF Roles, AuthRoles
  <2>3. Needed = IF Has(1) /\ Some THEN 2 ELSE 1
    BY <1>11 DEF Needed
  <2> QED
    BY <2>1, <2>2, <2>3
<1>12. CASE init = "Authentication" /\ scheme = "ard" /\ creds = "given" /\ stage = 0
  BY <1>12 DEF Needed, Roles, AuthRoles
<1>13. ASSUME /\ init \notin {"ProtocolVersion", "Security", "SecurityReason", "SecurityResult",
                             "ServerInitialisation"}
              /\ ~(init = "Authentication" /\ scheme \in {"vnc", "mslogon", "vencrypt", "tight"})
              /\ ~(init = "Authentication" /\ scheme = "ard" /\ creds = "given" /\ stage = 0)
       PROVE  Needed <= Len(Roles(rQ))
  <2>1. Needed = 0
    BY <1>13 DEF Needed
  <2>2. Len(Roles(rQ)) \in Nat
    BY RolesLen
  <2> QED
    BY <2>1, <2>2
<1> QED
  BY <1>4, <1>5, <1>6, <1>7, <1>8, <1>9, <1>10, <1>11, <1>12, <1>13

(* Where both sides wait, something else is to come.                       *)
LEMMA NobodyHangs == Handshake => HandshakeNeverHangs
<1> SUFFICES ASSUME Handshake, link.conn = "connecting", link.sock = "open", run = "idle",
                    net = <<>>, out = <<>>, pending = "nothing", creds # "asked"
             PROVE  scheme = "ra2" /\ stage > 0 /\ (rQ # <<>> \/ (stage = 6 /\ creds = "given"))
  BY DEF HandshakeNeverHangs
<1>1. Typed /\ Talking
  BY DEF Handshake, Phase
<1>2. Whole(Coming) /\ Waits
  BY <1>1 DEF Talking, Line
<1>3. Coming = rQ
  BY <1>1, ComingIs DEF Typed
<1>4. Len(rQ) = Len(Roles(rQ)) /\ Len(rQ) \in Nat
  BY <1>1, <1>2, <1>3 DEF Whole, Typed
<1>5. Has(Needed)
  BY <1>1, <1>4, NeededDue DEF Has
<1>6. init = "Authentication" /\ scheme = "ra2" /\ stage > 0 /\ stage \in 0 .. 6
  BY <1>1, <1>2, <1>5 DEF Waits, Typed
<1>7. stage # 2 /\ (stage = 6 => creds = "given")
  BY <1>1, <1>6 DEF Talking, Standing, Typed
<1>8. stage \in {1, 3, 4, 5} => Len(Roles(rQ)) >= 1
  BY <1>6 DEF Roles, AuthRoles, Ra2Roles
<1>9. stage \in {1, 3, 4, 5} => rQ # <<>>
  BY <1>4, <1>8
<1> QED
  BY <1>6, <1>7, <1>9

(***************************************************************************)
(* For every server, list of security types and way of cutting the stream: *)
(* no field of a handshake is read as another one or before it has come,   *)
(* but for the random number of ra2.js.                                    *)
(***************************************************************************)
THEOREM HandshakeStaysInStep == SessionSpec => []HandshakeInStep
<1>1. Handshake => HandshakeInStep
  BY DEF Handshake, MisreadOver, HandshakeInStep
<1> QED
  BY <1>1, HandshakeStart, HandshakeStep, PTL DEF SessionSpec

(***************************************************************************)
(* For every server: the two sides of a handshake never wait for each      *)
(* other.                                                                  *)
(***************************************************************************)
THEOREM HandshakeAlwaysGoesOn == SessionSpec => []HandshakeNeverHangs
BY NobodyHangs, HandshakeStart, HandshakeStep, PTL DEF SessionSpec

(***************************************************************************)
(* For every server, and however disconnect(), failures, the close of the  *)
(* socket and the timer race: the page hears of the end once, of a clean   *)
(* one only if nothing failed, and nobody holds the keyboard after it.     *)
(***************************************************************************)
THEOREM SessionEndsClean == SessionSpec => []EndsOnce
<1>1. Handshake => EndsOnce
  BY DEF Handshake, LinkFits, Told, EndsOnce, ToldOnce, Live
<1> QED
  BY <1>1, HandshakeStart, HandshakeStep, PTL DEF SessionSpec

(* What holds of a handshake gives the types of its fields.               *)
LEMMA HandshakeTyped == Handshake => SessionTypeOK
BY DEF Handshake, Typed, SessionOK, LinkOK, Links, SessionTypeOK

(* For every server, the state of a session has its type.                  *)
THEOREM SessionTypes == SessionSpec => []SessionTypeOK
BY HandshakeTyped, HandshakeStart, HandshakeStep, PTL DEF SessionSpec

(***************************************************************************)
(* rfb.js _negotiateServerInit: a session that connects has read all that  *)
(* has come, nothing else is on its way, and what the server may still     *)
(* have to hear is the request for an update.  UpdatesInit starts there.   *)
(***************************************************************************)
HandedOver ==
  link.conn = "connected" => StreamInit /\ (out # <<>> => out[1][1] = "request")

THEOREM SessionHandsOver == SessionSpec => []HandedOver
<1>1. ASSUME Handshake, link.conn = "connected"
      PROVE  StreamInit /\ (out # <<>> => out[1][1] = "request")
  <2>1. Settled /\ Over /\ Coming = <<>> /\ Typed
    BY <1>1 DEF Handshake, Phase, Settled
  <2>2. rQ = <<>> /\ net = <<>>
    BY <2>1, ComingIs DEF Typed
  <2>3. ~misread /\ misread \in BOOLEAN
    BY <1>1, <2>1 DEF Handshake, MisreadOver, Live, Typed
  <2>4. misread = FALSE
    BY <2>3
  <2> QED
    BY <2>1, <2>2, <2>4 DEF Settled, Over, StreamInit
<1>2. Handshake => HandedOver
  BY <1>1 DEF HandedOver
<1> QED
  BY <1>2, HandshakeStart, HandshakeStep, PTL DEF SessionSpec
=============================================================================
