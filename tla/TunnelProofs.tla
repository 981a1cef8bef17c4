---------------------------- MODULE TunnelProofs ----------------------------
(***************************************************************************)
(* What holds of Tunnel for any number of nodes, sockets and requests: its *)
(* type invariant, the two promises a removal makes, and that no socket is *)
(* open that the registry has lost.                                        *)
(***************************************************************************)
EXTENDS Tunnel, FiniteSetTheorems, TLAPS

\* What a removal has still to do, and when the row has gone.
RemovalShape ==
    \A n \in Nodes :
        /\ removal[n] \in {<<>>, <<"delete", "close">>, <<"close">>}
        /\ removal[n] = <<"close">> => n \notin known

\* A socket the server has heard of is some node's, and the client has it open only
\* once the upgrade was answered.
Handshakes ==
    \A s \in Socks :
        /\ sock[s].server # "none" => sock[s].node \in Nodes
        /\ sock[s].server \in {"none", "dialed", "authenticated"} => sock[s].client # "open"

\* A request that has begun is for a node, and so is what is on its way for it.
Addressed ==
    \A q \in Reqs :
        req[q].pc # "idle" \/ mail[q].at # "nowhere" => req[q].node \in Nodes

\* The handshakes a removal has to leave behind.
LateHandshakes ==
    \A n \in Nodes \ known, s \in Socks :
        removal[n] = <<>> /\ sock[s].node = n /\ sock[s].server = "authenticated"
            => s \in late

IInv ==
    /\ TypeOK /\ IsFiniteSet(used)
    /\ RemovalShape /\ Handshakes /\ Addressed /\ LateHandshakes
    /\ OnlyItsOwn /\ RevokedClosed

\* A socket may be replaced by one of its type, and its fields one by one.
LEMMA SockWrites ==
  ASSUME TypeOK, NEW s \in Socks
  PROVE  /\ sock[s] \in SockState /\ DOMAIN sock = Socks
         /\ \A v \in SockState : [sock EXCEPT ![s] = v] \in [Socks -> SockState]
         /\ \A x \in ServerEnd : [sock[s] EXCEPT !.server = x] \in SockState
         /\ \A x \in ClientEnd : [sock[s] EXCEPT !.client = x] \in SockState
         /\ \A x \in ServerEnd, y \in ClientEnd :
               [sock[s] EXCEPT !.server = x, !.client = y] \in SockState
         /\ \A x \in BOOLEAN : [sock[s] EXCEPT !.awaiting = x] \in SockState
         /\ \A x \in BOOLEAN : [sock[s] EXCEPT !.link = x] \in SockState
<1>1. sock[s] \in SockState /\ DOMAIN sock = Socks
  BY DEF TypeOK
<1>2. \A v \in SockState : [sock EXCEPT ![s] = v] \in [Socks -> SockState]
  BY DEF TypeOK
<1>3. QED
  BY <1>1, <1>2 DEF SockState

\* The same for a request and its mail.
LEMMA ReqWrites ==
  ASSUME TypeOK, NEW q \in Reqs
  PROVE  /\ req[q] \in ReqState /\ mail[q] \in MailState
         /\ \A v \in ReqState : [req EXCEPT ![q] = v] \in [Reqs -> ReqState]
         /\ \A v \in MailState : [mail EXCEPT ![q] = v] \in [Reqs -> MailState]
         /\ \A x \in Ended \cup {"body", "waiting"} : [req[q] EXCEPT !.pc = x] \in ReqState
<1>1. req[q] \in ReqState /\ mail[q] \in MailState
  BY DEF TypeOK
<1>2. QED
  BY <1>1 DEF TypeOK, ReqState

\* The states of a socket, of a request and of what is sent that the steps write.
LEMMA Constants ==
  /\ {"dialed", "authenticated", "open", "closing", "closed"} \subseteq ServerEnd
  /\ {"dialing", "open", "closed"} \subseteq ClientEnd
  /\ {"answered", "timed_out", "refused", "removed"} \subseteq Ended
  /\ NoMail \in MailState
  BY DEF ServerEnd, ClientEnd, Ended, NoMail, MailState

\* The sequences a removal goes through.
LEMMA Sequences ==
  /\ <<>> \in Seq({"delete", "close"})
  /\ <<"close">> \in Seq({"delete", "close"})
  /\ <<"delete", "close">> \in Seq({"delete", "close"})
  /\ Head(<<"close">>) = "close" /\ Tail(<<"close">>) = <<>>
  /\ Head(<<"delete", "close">>) = "delete" /\ Tail(<<"delete", "close">>) = <<"close">>
  /\ <<"close">> # <<>> /\ <<"delete", "close">> # <<>>
  /\ <<"close">> # <<"delete", "close">>
  OBVIOUS

\* An event is recorded with a natural number, and there are finitely many.
LEMMA SpendTypes ==
  ASSUME TunnelAssumption, used \subseteq Events \X Nat, IsFiniteSet(used),
         NEW kind, Spend(kind)
  PROVE  used' \subseteq Events \X Nat /\ IsFiniteSet(used')
<1>1. IsFiniteSet({u \in used : u[1] = kind})
  BY FS_Subset
<1>2. Cardinality({u \in used : u[1] = kind}) \in Nat
  BY <1>1, FS_CardinalityType
<1>3. kind \in Events
  BY DEF Spend, TunnelAssumption
<1>4. used' = used \cup {<<kind, Cardinality({u \in used : u[1] = kind})>>}
  BY DEF Spend
<1>5. IsFiniteSet(used')
  BY <1>4, FS_AddElement
<1>6. QED
  BY <1>2, <1>3, <1>4, <1>5

\* A node that has not dialled has no link, and nothing is asked.
LEMMA InitHolds == TunnelAssumption /\ Init => IInv
<1> SUFFICES ASSUME TunnelAssumption, Init PROVE IInv
  OBVIOUS
<1>1. TypeOK
  BY Sequences
  DEF Init, TypeOK, Linked, SockState, ReqState, MailState, NoSock, NoMail, ServerEnd,
     ClientEnd, Ended, TunnelAssumption
<1>2. IsFiniteSet(used)
  BY FS_EmptySet DEF Init
<1>3. RemovalShape /\ LateHandshakes /\ OnlyItsOwn /\ RevokedClosed
  BY DEF Init, RemovalShape, LateHandshakes, OnlyItsOwn, RevokedClosed
<1>4. Handshakes /\ Addressed
  BY DEF Init, Handshakes, Addressed, NoSock, NoMail
<1>5. QED
  BY <1>1, <1>2, <1>3, <1>4 DEF IInv

\* What keeps the links of the nodes: a node may lose one, and a socket that stays one
\* keeps its node and, for the client, stays open.
LEMMA LinkedKept ==
  ASSUME Linked,
         \A n \in Nodes : reg'[n] \in {reg[n], None} /\ conn'[n] \in {conn[n], None},
         \A n \in Nodes : reg'[n] # None => sock'[reg[n]].node = sock[reg[n]].node,
         \A n \in Nodes : conn'[n] # None =>
               /\ sock'[conn[n]].node = sock[conn[n]].node
               /\ sock'[conn[n]].client = sock[conn[n]].client
  PROVE  Linked'
  BY DEF Linked

\* Every step keeps it.
LEMMA NextHolds == TunnelAssumption /\ IInv /\ [Next]_vars => IInv'
<1> SUFFICES ASSUME TunnelAssumption, IInv, [Next]_vars PROVE IInv'
  OBVIOUS
<1> USE DEF IInv
<1>1. ASSUME NEW n \in Nodes, Dial(n) PROVE IInv'
  <2>1. used' = used
    BY <1>1 DEF Dial
  <2> DEFINE new == [NoSock EXCEPT !.node = n, !.server = "dialed", !.client = "dialing", !.link = TRUE]
  <2>x. PICK s \in Free : sock' = [sock EXCEPT ![s] = new] /\ late' = late \ {s}
    BY <1>1 DEF Dial
  <2>a. /\ s \in Socks /\ sock[s].client # "open"
        /\ sock' = [sock EXCEPT ![s] = new]
        /\ \A m \in Nodes : reg[m] # s
    BY <2>x DEF Free
  <2>b. new \in SockState
    BY Constants DEF NoSock, SockState
  <2>2. sock' \in [Socks -> SockState]
    BY <2>a, <2>b, SockWrites
  <2>3. req' \in [Reqs -> ReqState] /\ mail' \in [Reqs -> MailState]
    BY <1>1 DEF Dial, TypeOK, requests
  <2>4. /\ known' \subseteq Nodes /\ alive' \subseteq Nodes /\ late' \subseteq Socks
        /\ removal' \in [Nodes -> Seq({"delete", "close"})]
        /\ reg' \in [Nodes -> Socks \cup {None}] /\ conn' \in [Nodes -> Socks \cup {None}]
    BY <1>1 DEF Dial, TypeOK
  <2>5. Linked'
    <3>1. reg' = reg /\ conn' = conn
      BY <1>1 DEF Dial
    <3>2. \A m \in Nodes : conn[m] # s
      <4>1. s # None
        BY <2>a
      <4>2. Linked
        BY DEF TypeOK
      <4>3. QED
        BY <2>a, <4>2 DEF Linked
    <3>3. \A t \in Socks : t # s => sock'[t] = sock[t]
      BY <2>a
    <3>4. QED
      BY <2>a, <3>1, <3>2, LinkedKept DEF TypeOK
  <2>6. RemovalShape' /\ OnlyItsOwn' /\ RevokedClosed'
    <3>1. reg' = reg /\ known' = known /\ removal' = removal /\ req' = req /\ late' = late \ {s}
      BY <1>1, <2>x DEF Dial, requests
    <3>2. RemovalShape' /\ OnlyItsOwn'
      BY <3>1 DEF RemovalShape, OnlyItsOwn
    <3>3. RevokedClosed'
      BY <2>a, <3>1 DEF RevokedClosed
    <3>4. QED
      BY <3>2, <3>3
  <2>7. Handshakes' /\ Addressed' /\ LateHandshakes'
    <3>1. Handshakes'
      BY <1>1 DEF Handshakes, TypeOK, SockState, fleet, requests, Dial
    <3>2. Addressed'
      BY <1>1 DEF Addressed, requests, Dial
    <3>3. LateHandshakes'
      BY <1>1, Sequences
      DEF LateHandshakes, RemovalShape, TypeOK, SockState, fleet, requests, Dial
    <3>4. QED
      BY <3>1, <3>2, <3>3
  <2>8. QED
    BY <2>1, <2>2, <2>3, <2>4, <2>5, <2>6, <2>7 DEF TypeOK
<1>2. ASSUME NEW s \in Socks, Connected(s) PROVE IInv'
  <2>1. used' = used
    BY <1>2 DEF Connected
  <2>2. sock' \in [Socks -> SockState]
    BY <1>2, SockWrites, Constants DEF Connected
  <2>3. req' \in [Reqs -> ReqState] /\ mail' \in [Reqs -> MailState]
    BY <1>2 DEF Connected, TypeOK, requests
  <2>4. /\ known' \subseteq Nodes /\ alive' \subseteq Nodes /\ late' \subseteq Socks
        /\ removal' \in [Nodes -> Seq({"delete", "close"})]
        /\ reg' \in [Nodes -> Socks \cup {None}] /\ conn' \in [Nodes -> Socks \cup {None}]
    BY <1>2 DEF Connected, ServerEnd, ClientEnd, TypeOK, fleet
  <2>5. Linked'
    BY <1>2 DEF TypeOK, Linked, Connected
  <2>6. RemovalShape' /\ OnlyItsOwn' /\ RevokedClosed'
    <3>1. RemovalShape'
      BY <1>2 DEF RemovalShape, fleet, Connected
    <3>2. OnlyItsOwn'
      BY <1>2 DEF OnlyItsOwn, fleet, requests, Connected
    <3>3. RevokedClosed'
      BY <1>2 DEF RevokedClosed, fleet, Connected
    <3>4. QED
      BY <3>1, <3>2, <3>3
  <2>7. Handshakes' /\ Addressed' /\ LateHandshakes'
    <3>1. Handshakes'
      BY <1>2 DEF Handshakes, Connected
    <3>2. Addressed'
      BY <1>2 DEF Addressed, requests, Connected
    <3>3. LateHandshakes'
      BY <1>2 DEF LateHandshakes, fleet, Connected
    <3>4. QED
      BY <3>1, <3>2, <3>3
  <2>8. QED
    BY <2>1, <2>2, <2>3, <2>4, <2>5, <2>6, <2>7 DEF TypeOK
<1>3. ASSUME NEW s \in Socks, DialFails(s) PROVE IInv'
  <2>1. used' = used
    BY <1>3 DEF DialFails
  <2>2. sock' \in [Socks -> SockState]
    BY <1>3, SockWrites, Constants DEF DialFails
  <2>3. req' \in [Reqs -> ReqState] /\ mail' \in [Reqs -> MailState]
    BY <1>3 DEF DialFails, TypeOK, requests
  <2>4. /\ known' \subseteq Nodes /\ alive' \subseteq Nodes /\ late' \subseteq Socks
        /\ removal' \in [Nodes -> Seq({"delete", "close"})]
        /\ reg' \in [Nodes -> Socks \cup {None}] /\ conn' \in [Nodes -> Socks \cup {None}]
    BY <1>3 DEF DialFails, ServerEnd, ClientEnd, TypeOK, fleet
  <2>5. Linked'
    BY <1>3 DEF TypeOK, Linked, DialFails
  <2>6. RemovalShape' /\ OnlyItsOwn' /\ RevokedClosed'
    <3>1. RemovalShape'
      BY <1>3 DEF RemovalShape, fleet, DialFails
    <3>2. OnlyItsOwn'
      BY <1>3 DEF OnlyItsOwn, fleet, requests, DialFails
    <3>3. RevokedClosed'
      BY <1>3 DEF RevokedClosed, fleet, DialFails
    <3>4. QED
      BY <3>1, <3>2, <3>3
  <2>7. Handshakes' /\ Addressed' /\ LateHandshakes'
    <3>1. Handshakes'
      BY <1>3 DEF Handshakes, DialFails
    <3>2. Addressed'
      BY <1>3 DEF Addressed, requests, DialFails
    <3>3. LateHandshakes'
      BY <1>3 DEF LateHandshakes, fleet, DialFails
    <3>4. QED
      BY <3>1, <3>2, <3>3
  <2>8. QED
    BY <2>1, <2>2, <2>3, <2>4, <2>5, <2>6, <2>7 DEF TypeOK
<1>4. ASSUME NEW s \in Socks, HandshakeTimeout(s) PROVE IInv'
  <2>1. used' \subseteq Events \X Nat /\ IsFiniteSet(used')
    BY <1>4, SpendTypes DEF HandshakeTimeout, TypeOK
  <2>2. sock' \in [Socks -> SockState]
    BY <1>4, SockWrites, Constants DEF HandshakeTimeout
  <2>3. req' \in [Reqs -> ReqState] /\ mail' \in [Reqs -> MailState]
    BY <1>4 DEF HandshakeTimeout, TypeOK, requests
  <2>4. /\ known' \subseteq Nodes /\ alive' \subseteq Nodes /\ late' \subseteq Socks
        /\ removal' \in [Nodes -> Seq({"delete", "close"})]
        /\ reg' \in [Nodes -> Socks \cup {None}] /\ conn' \in [Nodes -> Socks \cup {None}]
    BY <1>4 DEF HandshakeTimeout, ServerEnd, ClientEnd, TypeOK, fleet
  <2>5. Linked'
    BY <1>4 DEF TypeOK, Linked, HandshakeTimeout
  <2>6. RemovalShape' /\ OnlyItsOwn' /\ RevokedClosed'
    <3>1. RemovalShape'
      BY <1>4 DEF RemovalShape, fleet, HandshakeTimeout
    <3>2. OnlyItsOwn'
      BY <1>4 DEF OnlyItsOwn, fleet, requests, HandshakeTimeout
    <3>3. RevokedClosed'
      BY <1>4 DEF RevokedClosed, fleet, HandshakeTimeout
    <3>4. QED
      BY <3>1, <3>2, <3>3
  <2>7. Handshakes' /\ Addressed' /\ LateHandshakes'
    <3>1. Handshakes'
      BY <1>4 DEF Handshakes, HandshakeTimeout
    <3>2. Addressed'
      BY <1>4 DEF Addressed, requests, HandshakeTimeout
    <3>3. LateHandshakes'
      BY <1>4 DEF LateHandshakes, fleet, HandshakeTimeout
    <3>4. QED
      BY <3>1, <3>2, <3>3
  <2>8. QED
    BY <2>1, <2>2, <2>3, <2>4, <2>5, <2>6, <2>7 DEF TypeOK
<1>5. ASSUME NEW s \in Socks, ReadFails(s) PROVE IInv'
  <2>1. used' = used
    BY <1>5 DEF ReadFails
  <2>2. sock' \in [Socks -> SockState]
    BY <1>5, SockWrites, Constants DEF ReadFails
  <2>3. req' \in [Reqs -> ReqState] /\ mail' \in [Reqs -> MailState]
    BY <1>5 DEF ReadFails, TypeOK, requests
  <2>4. /\ known' \subseteq Nodes /\ alive' \subseteq Nodes /\ late' \subseteq Socks
        /\ removal' \in [Nodes -> Seq({"delete", "close"})]
        /\ reg' \in [Nodes -> Socks \cup {None}] /\ conn' \in [Nodes -> Socks \cup {None}]
    BY <1>5 DEF ReadFails, ServerEnd, ClientEnd, TypeOK, fleet
  <2>5. Linked'
    BY <1>5 DEF TypeOK, Linked, ReadFails
  <2>6. RemovalShape' /\ OnlyItsOwn' /\ RevokedClosed'
    <3>1. RemovalShape'
      BY <1>5 DEF RemovalShape, fleet, ReadFails
    <3>2. OnlyItsOwn'
      BY <1>5 DEF OnlyItsOwn, fleet, requests, ReadFails
    <3>3. RevokedClosed'
      BY <1>5 DEF RevokedClosed, fleet, ReadFails
    <3>4. QED
      BY <3>1, <3>2, <3>3
  <2>7. Handshakes' /\ Addressed' /\ LateHandshakes'
    <3>1. Handshakes'
      BY <1>5 DEF Handshakes, ReadFails
    <3>2. Addressed'
      BY <1>5 DEF Addressed, requests, ReadFails
    <3>3. LateHandshakes'
      BY <1>5 DEF LateHandshakes, fleet, ReadFails
    <3>4. QED
      BY <3>1, <3>2, <3>3
  <2>8. QED
    BY <2>1, <2>2, <2>3, <2>4, <2>5, <2>6, <2>7 DEF TypeOK
<1>6. ASSUME NEW q \in Reqs, ServeRequest(q) PROVE IInv'
  <2>1. used' = used
    BY <1>6 DEF ServeRequest
  <2>2. sock' \in [Socks -> SockState]
    BY <1>6 DEF ServeRequest, TypeOK
  <2>3. req' \in [Reqs -> ReqState] /\ mail' \in [Reqs -> MailState]
    BY <1>6 DEF ServeRequest, TypeOK, MailState
  <2>4. /\ known' \subseteq Nodes /\ alive' \subseteq Nodes /\ late' \subseteq Socks
        /\ removal' \in [Nodes -> Seq({"delete", "close"})]
        /\ reg' \in [Nodes -> Socks \cup {None}] /\ conn' \in [Nodes -> Socks \cup {None}]
    BY <1>6 DEF ServeRequest, TypeOK, fleet
  <2>5. Linked'
    BY <1>6 DEF TypeOK, Linked, ServeRequest
  <2>6. RemovalShape' /\ OnlyItsOwn' /\ RevokedClosed'
    <3>1. RemovalShape'
      BY <1>6 DEF RemovalShape, fleet, requests, ServeRequest
    <3>2. OnlyItsOwn'
      BY <1>6 DEF OnlyItsOwn, fleet, ServeRequest
    <3>3. RevokedClosed'
      BY <1>6 DEF RevokedClosed, fleet, ServeRequest
    <3>4. QED
      BY <3>1, <3>2, <3>3
  <2>7. Handshakes' /\ Addressed' /\ LateHandshakes'
    <3>1. Handshakes'
      BY <1>6 DEF Handshakes, ServeRequest
    <3>2. Addressed'
      BY <1>6 DEF Addressed, ServeRequest
    <3>3. LateHandshakes'
      BY <1>6 DEF LateHandshakes, fleet, ServeRequest
    <3>4. QED
      BY <3>1, <3>2, <3>3
  <2>8. QED
    BY <2>1, <2>2, <2>3, <2>4, <2>5, <2>6, <2>7 DEF TypeOK
<1>7. ASSUME NEW q \in Reqs, SendResponse(q) PROVE IInv'
  <2>1. used' = used
    BY <1>7 DEF SendResponse
  <2>2. sock' \in [Socks -> SockState]
    BY <1>7 DEF SendResponse, TypeOK
  <2>3. req' \in [Reqs -> ReqState] /\ mail' \in [Reqs -> MailState]
    BY <1>7 DEF SendResponse, NoMail, TypeOK, MailState, Addressed
  <2>4. /\ known' \subseteq Nodes /\ alive' \subseteq Nodes /\ late' \subseteq Socks
        /\ removal' \in [Nodes -> Seq({"delete", "close"})]
        /\ reg' \in [Nodes -> Socks \cup {None}] /\ conn' \in [Nodes -> Socks \cup {None}]
    BY <1>7 DEF SendResponse, TypeOK, fleet
  <2>5. Linked'
    BY <1>7 DEF TypeOK, Linked, SendResponse
  <2>6. RemovalShape' /\ OnlyItsOwn' /\ RevokedClosed'
    <3>1. RemovalShape'
      BY <1>7 DEF RemovalShape, fleet, requests, SendResponse
    <3>2. OnlyItsOwn'
      BY <1>7 DEF OnlyItsOwn, fleet, SendResponse
    <3>3. RevokedClosed'
      BY <1>7 DEF RevokedClosed, fleet, SendResponse
    <3>4. QED
      BY <3>1, <3>2, <3>3
  <2>7. Handshakes' /\ Addressed' /\ LateHandshakes'
    <3>1. Handshakes'
      BY <1>7 DEF Handshakes, SendResponse
    <3>2. Addressed'
      BY <1>7 DEF Addressed, SendResponse
    <3>3. LateHandshakes'
      BY <1>7 DEF LateHandshakes, fleet, SendResponse
    <3>4. QED
      BY <3>1, <3>2, <3>3
  <2>8. QED
    BY <2>1, <2>2, <2>3, <2>4, <2>5, <2>6, <2>7 DEF TypeOK
<1>8. ASSUME NEW n \in Nodes, AgentRestart(n) PROVE IInv'
  <2>1. used' \subseteq Events \X Nat /\ IsFiniteSet(used')
    BY <1>8, SpendTypes DEF AgentRestart, TypeOK
  <2>2. sock' \in [Socks -> SockState]
    BY <1>8, SockWrites, Constants DEF AgentRestart, AgentGone
  <2>3. req' \in [Reqs -> ReqState] /\ mail' \in [Reqs -> MailState]
    BY <1>8 DEF AgentRestart, AgentGone, NoMail, TypeOK, MailState
  <2>4. /\ known' \subseteq Nodes /\ alive' \subseteq Nodes /\ late' \subseteq Socks
        /\ removal' \in [Nodes -> Seq({"delete", "close"})]
        /\ reg' \in [Nodes -> Socks \cup {None}] /\ conn' \in [Nodes -> Socks \cup {None}]
    BY <1>8 DEF AgentRestart, AgentGone, TypeOK, fleet
  <2>5. Linked'
    BY <1>8 DEF TypeOK, Linked, AgentRestart, AgentGone, OfNode
  <2>6. RemovalShape' /\ OnlyItsOwn' /\ RevokedClosed'
    <3>1. RemovalShape'
      BY <1>8 DEF RemovalShape, fleet, requests, AgentRestart
    <3>2. OnlyItsOwn'
      BY <1>8 DEF OnlyItsOwn, fleet, AgentRestart
    <3>3. RevokedClosed'
      BY <1>8 DEF RevokedClosed, fleet, AgentRestart
    <3>4. QED
      BY <3>1, <3>2, <3>3
  <2>7. Handshakes' /\ Addressed' /\ LateHandshakes'
    <3>1. Handshakes'
      BY <1>8 DEF Handshakes, AgentRestart, AgentGone
    <3>2. Addressed'
      BY <1>8 DEF Addressed, AgentRestart, AgentGone
    <3>3. LateHandshakes'
      BY <1>8 DEF LateHandshakes, fleet, AgentRestart, AgentGone
    <3>4. QED
      BY <3>1, <3>2, <3>3
  <2>8. QED
    BY <2>1, <2>2, <2>3, <2>4, <2>5, <2>6, <2>7 DEF TypeOK
<1>9. ASSUME NEW n \in Nodes, PowerOff(n) PROVE IInv'
  <2>1. used' \subseteq Events \X Nat /\ IsFiniteSet(used')
    BY <1>9, SpendTypes DEF PowerOff, TypeOK
  <2>2. sock' \in [Socks -> SockState]
    <3>1. ASSUME NEW s \in Socks
          PROVE  [sock[s] EXCEPT !.client = "closed", !.link = FALSE] \in SockState
      BY SockWrites, Constants DEF SockState
    <3>2. \A s \in Socks : sock[s] \in SockState
      BY DEF TypeOK
    <3>3. QED
      BY <1>9, <3>1, <3>2 DEF PowerOff
  <2>3. req' \in [Reqs -> ReqState] /\ mail' \in [Reqs -> MailState]
    BY <1>9 DEF PowerOff, NoMail, TypeOK, MailState
  <2>4. /\ known' \subseteq Nodes /\ alive' \subseteq Nodes /\ late' \subseteq Socks
        /\ removal' \in [Nodes -> Seq({"delete", "close"})]
        /\ reg' \in [Nodes -> Socks \cup {None}] /\ conn' \in [Nodes -> Socks \cup {None}]
    BY <1>9 DEF PowerOff, TypeOK
  <2>5. Linked'
    <3>1. \A t \in Socks : sock'[t].node = sock[t].node
      BY <1>9 DEF PowerOff, TypeOK, SockState
    <3>2. \A t \in Socks : sock[t].node # n => sock'[t] = sock[t]
      BY <1>9 DEF PowerOff, OfNode
    <3>3. reg' = reg /\ conn' = [conn EXCEPT ![n] = None]
      BY <1>9 DEF PowerOff
    <3>4. \A m \in Nodes : conn'[m] # None => m # n
      BY <3>3 DEF TypeOK
    <3>5. QED
      BY <3>1, <3>2, <3>3, LinkedKept DEF Linked, TypeOK
  <2>6. RemovalShape' /\ OnlyItsOwn' /\ RevokedClosed'
    <3>1. RemovalShape'
      BY <1>9 DEF RemovalShape, fleet, requests, PowerOff
    <3>2. OnlyItsOwn'
      BY <1>9 DEF OnlyItsOwn, PowerOff
    <3>3. RevokedClosed'
      BY <1>9 DEF RevokedClosed, PowerOff
    <3>4. QED
      BY <3>1, <3>2, <3>3
  <2>7. Handshakes' /\ Addressed' /\ LateHandshakes'
    <3>1. \A t \in Socks : /\ sock'[t].node = sock[t].node /\ sock'[t].server = sock[t].server
                         /\ sock'[t].client \in {sock[t].client, "closed"}
      <4>1. TAKE t \in Socks
      <4>2. sock[t] \in SockState
        BY DEF TypeOK
      <4>3. CASE sock'[t] = sock[t]
        BY <4>3
      <4>4. CASE sock'[t] = [sock[t] EXCEPT !.client = "closed", !.link = FALSE]
        BY <4>4 DEF SockState
      <4>5. QED
        BY <1>9, <4>4 DEF PowerOff
    <3>2. Handshakes' /\ LateHandshakes'
      <4>1. known' = known /\ removal' = removal /\ late' = late
        BY <1>9 DEF PowerOff
      <4>2. Handshakes'
        BY <3>1 DEF Handshakes
      <4>3. LateHandshakes'
        BY <3>1, <4>1 DEF LateHandshakes
      <4>4. QED
        BY <4>2, <4>3
    <3>3. Addressed'
      BY <1>9 DEF PowerOff, Addressed
    <3>4. QED
      BY <3>2, <3>3
  <2>8. QED
    BY <2>1, <2>2, <2>3, <2>4, <2>5, <2>6, <2>7 DEF TypeOK
<1>10. ASSUME NEW n \in Nodes, PowerOn(n) PROVE IInv'
  <2>1. used' = used
    BY <1>10 DEF PowerOn
  <2>2. sock' \in [Socks -> SockState]
    BY <1>10 DEF PowerOn, TypeOK
  <2>3. req' \in [Reqs -> ReqState] /\ mail' \in [Reqs -> MailState]
    BY <1>10 DEF PowerOn, TypeOK, requests
  <2>4. /\ known' \subseteq Nodes /\ alive' \subseteq Nodes /\ late' \subseteq Socks
        /\ removal' \in [Nodes -> Seq({"delete", "close"})]
        /\ reg' \in [Nodes -> Socks \cup {None}] /\ conn' \in [Nodes -> Socks \cup {None}]
    BY <1>10 DEF PowerOn, TypeOK
  <2>5. Linked'
    BY <1>10 DEF TypeOK, Linked, PowerOn
  <2>6. RemovalShape' /\ OnlyItsOwn' /\ RevokedClosed'
    <3>1. RemovalShape'
      BY <1>10 DEF RemovalShape, fleet, PowerOn
    <3>2. OnlyItsOwn'
      BY <1>10 DEF OnlyItsOwn, requests, PowerOn
    <3>3. RevokedClosed'
      BY <1>10 DEF RevokedClosed, PowerOn
    <3>4. QED
      BY <3>1, <3>2, <3>3
  <2>7. Handshakes' /\ Addressed' /\ LateHandshakes'
    <3>1. Handshakes'
      BY <1>10 DEF Handshakes, PowerOn
    <3>2. Addressed'
      BY <1>10 DEF Addressed, requests, PowerOn
    <3>3. LateHandshakes'
      BY <1>10 DEF LateHandshakes, PowerOn
    <3>4. QED
      BY <3>1, <3>2, <3>3
  <2>8. QED
    BY <2>1, <2>2, <2>3, <2>4, <2>5, <2>6, <2>7 DEF TypeOK
<1>11. ASSUME NEW n \in Nodes, AgentStops(n) PROVE IInv'
  <2>1. used' = used
    BY <1>11 DEF AgentStops
  <2>2. sock' \in [Socks -> SockState]
    BY <1>11, SockWrites, Constants DEF AgentStops, AgentGone
  <2>3. req' \in [Reqs -> ReqState] /\ mail' \in [Reqs -> MailState]
    BY <1>11 DEF AgentStops, AgentGone, NoMail, TypeOK, MailState
  <2>4. /\ known' \subseteq Nodes /\ alive' \subseteq Nodes /\ late' \subseteq Socks
        /\ removal' \in [Nodes -> Seq({"delete", "close"})]
        /\ reg' \in [Nodes -> Socks \cup {None}] /\ conn' \in [Nodes -> Socks \cup {None}]
    BY <1>11 DEF AgentStops, AgentGone, TypeOK
  <2>5. Linked'
    BY <1>11 DEF TypeOK, Linked, AgentStops, AgentGone, OfNode
  <2>6. RemovalShape' /\ OnlyItsOwn' /\ RevokedClosed'
    <3>1. RemovalShape'
      BY <1>11 DEF RemovalShape, fleet, requests, AgentStops
    <3>2. OnlyItsOwn'
      BY <1>11 DEF OnlyItsOwn, AgentStops
    <3>3. RevokedClosed'
      BY <1>11 DEF RevokedClosed, AgentStops
    <3>4. QED
      BY <3>1, <3>2, <3>3
  <2>7. Handshakes' /\ Addressed' /\ LateHandshakes'
    <3>1. Handshakes'
      BY <1>11 DEF Handshakes, AgentStops, AgentGone
    <3>2. Addressed'
      BY <1>11 DEF Addressed, AgentStops, AgentGone
    <3>3. LateHandshakes'
      BY <1>11 DEF LateHandshakes, AgentStops, AgentGone
    <3>4. QED
      BY <3>1, <3>2, <3>3
  <2>8. QED
    BY <2>1, <2>2, <2>3, <2>4, <2>5, <2>6, <2>7 DEF TypeOK
<1>12. ASSUME NEW s \in Socks, Authenticate(s) PROVE IInv'
  <2>1. used' = used
    BY <1>12 DEF Authenticate
  <2>2. sock' \in [Socks -> SockState]
    BY <1>12, SockWrites, Constants DEF Authenticate
  <2>3. req' \in [Reqs -> ReqState] /\ mail' \in [Reqs -> MailState]
    BY <1>12 DEF Authenticate, TypeOK, requests
  <2>4. /\ known' \subseteq Nodes /\ alive' \subseteq Nodes /\ late' \subseteq Socks
        /\ removal' \in [Nodes -> Seq({"delete", "close"})]
        /\ reg' \in [Nodes -> Socks \cup {None}] /\ conn' \in [Nodes -> Socks \cup {None}]
    BY <1>12 DEF Authenticate, ServerEnd, ClientEnd, TypeOK, fleet
  <2>5. Linked'
    BY <1>12 DEF TypeOK, Linked, Handshakes, Authenticate
  <2>6. RemovalShape' /\ OnlyItsOwn' /\ RevokedClosed'
    <3>1. RemovalShape'
      BY <1>12 DEF RemovalShape, fleet, Authenticate
    <3>2. OnlyItsOwn'
      BY <1>12 DEF OnlyItsOwn, fleet, requests, Authenticate
    <3>3. RevokedClosed'
      BY <1>12 DEF RevokedClosed, fleet, Authenticate
    <3>4. QED
      BY <3>1, <3>2, <3>3
  <2>7. Handshakes' /\ Addressed' /\ LateHandshakes'
    <3>1. Handshakes'
      BY <1>12 DEF Handshakes, TypeOK, Authenticate
    <3>2. Addressed'
      BY <1>12 DEF Addressed, requests, Authenticate
    <3>3. LateHandshakes'
      BY <1>12 DEF LateHandshakes, TypeOK, fleet, Authenticate
    <3>4. QED
      BY <3>1, <3>2, <3>3
  <2>8. QED
    BY <2>1, <2>2, <2>3, <2>4, <2>5, <2>6, <2>7 DEF TypeOK
<1>13. ASSUME NEW s \in Socks, Register(s) PROVE IInv'
  <2>1. used' = used
    BY <1>13 DEF Register
  <2>2. sock' \in [Socks -> SockState]
    BY <1>13, SockWrites, Constants DEF Register
  <2>3. req' \in [Reqs -> ReqState] /\ mail' \in [Reqs -> MailState]
    BY <1>13 DEF Register, TypeOK, requests
  <2>4. /\ known' \subseteq Nodes /\ alive' \subseteq Nodes /\ late' \subseteq Socks
        /\ removal' \in [Nodes -> Seq({"delete", "close"})]
        /\ reg' \in [Nodes -> Socks \cup {None}] /\ conn' \in [Nodes -> Socks \cup {None}]
    BY <1>13 DEF Register, ServerEnd, ClientEnd, TypeOK, fleet
  <2>5. Linked'
    <3>1. \A t \in Socks : sock'[t].node = sock[t].node /\ sock'[t].client = sock[t].client
      BY <1>13 DEF Register
    <3>2. \A n \in Nodes : reg'[n] \in {reg[n], s}
      BY <1>13 DEF Register
    <3>3. \A n \in Nodes : reg'[n] # reg[n] => n = sock[s].node
      BY <1>13 DEF Register
    <3>4. conn' = conn
      BY <1>13 DEF Register
    <3>5. ASSUME NEW n \in Nodes, reg'[n] # None PROVE sock'[reg'[n]].node = n
      <4>1. CASE reg'[n] = reg[n]
        <5>1. reg[n] # None /\ reg[n] \in Socks /\ Linked
          BY <3>5, <4>1 DEF TypeOK
        <5>2. QED
          BY <3>1, <4>1, <5>1 DEF Linked
      <4>2. CASE reg'[n] # reg[n]
        BY <3>1, <3>2, <3>3, <4>2
      <4>3. QED
        BY <4>1, <4>2
    <3>6. QED
      BY <3>1, <3>4, <3>5 DEF Linked, TypeOK
  <2>6. RemovalShape' /\ OnlyItsOwn' /\ RevokedClosed'
    <3>1. RemovalShape'
      BY <1>13 DEF RemovalShape, fleet, Register
    <3>2. OnlyItsOwn'
      BY <1>13 DEF OnlyItsOwn, fleet, requests, Register
    <3>3. RevokedClosed'
      BY <1>13 DEF RevokedClosed, LateHandshakes, fleet, Register
    <3>4. QED
      BY <3>1, <3>2, <3>3
  <2>7. Handshakes' /\ Addressed' /\ LateHandshakes'
    <3>1. Handshakes'
      BY <1>13 DEF Handshakes, Register
    <3>2. Addressed'
      BY <1>13 DEF Addressed, requests, Register
    <3>3. LateHandshakes'
      BY <1>13 DEF LateHandshakes, fleet, Register
    <3>4. QED
      BY <3>1, <3>2, <3>3
  <2>8. QED
    BY <2>1, <2>2, <2>3, <2>4, <2>5, <2>6, <2>7 DEF TypeOK
<1>14. ASSUME NEW s \in Socks, Closed(s) PROVE IInv'
  <2>1. used' = used
    BY <1>14 DEF Closed
  <2>2. sock' \in [Socks -> SockState]
    BY <1>14, SockWrites, Constants DEF Closed
  <2>3. req' \in [Reqs -> ReqState] /\ mail' \in [Reqs -> MailState]
    BY <1>14 DEF Closed, TypeOK, requests
  <2>4. /\ known' \subseteq Nodes /\ alive' \subseteq Nodes /\ late' \subseteq Socks
        /\ removal' \in [Nodes -> Seq({"delete", "close"})]
        /\ reg' \in [Nodes -> Socks \cup {None}] /\ conn' \in [Nodes -> Socks \cup {None}]
    BY <1>14 DEF Closed, Deregister, ServerEnd, ClientEnd, TypeOK, fleet
  <2>5. Linked'
    <3>1. \A t \in Socks : sock'[t].node = sock[t].node /\ sock'[t].client = sock[t].client
      BY <1>14 DEF Closed
    <3>2. \A n \in Nodes : reg'[n] \in {reg[n], None} /\ conn'[n] \in {conn[n], None}
      BY <1>14 DEF Closed, Deregister
    <3>3. QED
      BY <3>1, <3>2, LinkedKept DEF TypeOK
  <2>6. RemovalShape' /\ OnlyItsOwn' /\ RevokedClosed'
    <3>1. RemovalShape'
      BY <1>14 DEF RemovalShape, fleet, Closed
    <3>2. OnlyItsOwn'
      BY <1>14 DEF OnlyItsOwn, fleet, requests, Closed
    <3>3. RevokedClosed'
      BY <1>14 DEF RevokedClosed, fleet, Closed, Deregister
    <3>4. QED
      BY <3>1, <3>2, <3>3
  <2>7. Handshakes' /\ Addressed' /\ LateHandshakes'
    <3>1. Handshakes'
      BY <1>14 DEF Handshakes, Closed
    <3>2. Addressed'
      BY <1>14 DEF Addressed, requests, Closed
    <3>3. LateHandshakes'
      BY <1>14 DEF LateHandshakes, fleet, Closed
    <3>4. QED
      BY <3>1, <3>2, <3>3
  <2>8. QED
    BY <2>1, <2>2, <2>3, <2>4, <2>5, <2>6, <2>7 DEF TypeOK
<1>15. ASSUME NEW s \in Socks, Ping(s) PROVE IInv'
  <2>1. used' = used
    BY <1>15 DEF Ping
  <2>2. sock' \in [Socks -> SockState]
    BY <1>15, SockWrites DEF Ping
  <2>3. req' \in [Reqs -> ReqState] /\ mail' \in [Reqs -> MailState]
    BY <1>15 DEF Ping, TypeOK, requests
  <2>4. /\ known' \subseteq Nodes /\ alive' \subseteq Nodes /\ late' \subseteq Socks
        /\ removal' \in [Nodes -> Seq({"delete", "close"})]
        /\ reg' \in [Nodes -> Socks \cup {None}] /\ conn' \in [Nodes -> Socks \cup {None}]
    BY <1>15 DEF Ping, ServerEnd, ClientEnd, TypeOK, fleet
  <2>5. Linked'
    BY <1>15 DEF TypeOK, Linked, Ping
  <2>6. RemovalShape' /\ OnlyItsOwn' /\ RevokedClosed'
    <3>1. RemovalShape'
      BY <1>15 DEF RemovalShape, fleet, Ping
    <3>2. OnlyItsOwn'
      BY <1>15 DEF OnlyItsOwn, fleet, requests, Ping
    <3>3. RevokedClosed'
      BY <1>15 DEF RevokedClosed, fleet, Ping
    <3>4. QED
      BY <3>1, <3>2, <3>3
  <2>7. Handshakes' /\ Addressed' /\ LateHandshakes'
    <3>1. Handshakes'
      BY <1>15 DEF Handshakes, Ping
    <3>2. Addressed'
      BY <1>15 DEF Addressed, requests, Ping
    <3>3. LateHandshakes'
      BY <1>15 DEF LateHandshakes, fleet, Ping
    <3>4. QED
      BY <3>1, <3>2, <3>3
  <2>8. QED
    BY <2>1, <2>2, <2>3, <2>4, <2>5, <2>6, <2>7 DEF TypeOK
<1>16. ASSUME NEW s \in Socks, Terminate(s) PROVE IInv'
  <2>1. used' = used
    BY <1>16 DEF Terminate
  <2>2. sock' \in [Socks -> SockState]
    BY <1>16, SockWrites, Constants DEF Terminate
  <2>3. req' \in [Reqs -> ReqState] /\ mail' \in [Reqs -> MailState]
    BY <1>16 DEF Terminate, TypeOK, requests
  <2>4. /\ known' \subseteq Nodes /\ alive' \subseteq Nodes /\ late' \subseteq Socks
        /\ removal' \in [Nodes -> Seq({"delete", "close"})]
        /\ reg' \in [Nodes -> Socks \cup {None}] /\ conn' \in [Nodes -> Socks \cup {None}]
    BY <1>16 DEF Terminate, Deregister, ServerEnd, ClientEnd, TypeOK, fleet
  <2>5. Linked'
    <3>1. \A t \in Socks : sock'[t].node = sock[t].node /\ sock'[t].client = sock[t].client
      BY <1>16 DEF Terminate
    <3>2. \A n \in Nodes : reg'[n] \in {reg[n], None} /\ conn'[n] \in {conn[n], None}
      BY <1>16 DEF Terminate, Deregister
    <3>3. QED
      BY <3>1, <3>2, LinkedKept DEF TypeOK
  <2>6. RemovalShape' /\ OnlyItsOwn' /\ RevokedClosed'
    <3>1. RemovalShape'
      BY <1>16 DEF RemovalShape, fleet, Terminate
    <3>2. OnlyItsOwn'
      BY <1>16 DEF OnlyItsOwn, fleet, requests, Terminate
    <3>3. RevokedClosed'
      BY <1>16 DEF RevokedClosed, fleet, Terminate, Deregister
    <3>4. QED
      BY <3>1, <3>2, <3>3
  <2>7. Handshakes' /\ Addressed' /\ LateHandshakes'
    <3>1. Handshakes'
      BY <1>16 DEF Handshakes, Terminate
    <3>2. Addressed'
      BY <1>16 DEF Addressed, requests, Terminate
    <3>3. LateHandshakes'
      BY <1>16 DEF LateHandshakes, fleet, Terminate
    <3>4. QED
      BY <3>1, <3>2, <3>3
  <2>8. QED
    BY <2>1, <2>2, <2>3, <2>4, <2>5, <2>6, <2>7 DEF TypeOK
<1>17. ASSUME NEW q \in Reqs, NEW n \in Nodes, Begin(q, n) PROVE IInv'
  <2>1. used' = used
    BY <1>17 DEF Begin
  <2>2. sock' \in [Socks -> SockState]
    BY <1>17 DEF Begin, TypeOK
  <2>3. req' \in [Reqs -> ReqState] /\ mail' \in [Reqs -> MailState]
    BY <1>17 DEF Begin, TypeOK, ReqState
  <2>4. /\ known' \subseteq Nodes /\ alive' \subseteq Nodes /\ late' \subseteq Socks
        /\ removal' \in [Nodes -> Seq({"delete", "close"})]
        /\ reg' \in [Nodes -> Socks \cup {None}] /\ conn' \in [Nodes -> Socks \cup {None}]
    BY <1>17 DEF Begin, TypeOK, fleet
  <2>5. Linked'
    BY <1>17 DEF TypeOK, Linked, Begin
  <2>6. RemovalShape' /\ OnlyItsOwn' /\ RevokedClosed'
    <3>1. RemovalShape'
      BY <1>17 DEF RemovalShape, fleet, requests, Begin
    <3>2. OnlyItsOwn'
      BY <1>17 DEF OnlyItsOwn, fleet, Begin
    <3>3. RevokedClosed'
      BY <1>17 DEF RevokedClosed, fleet, Begin
    <3>4. QED
      BY <3>1, <3>2, <3>3
  <2>7. Handshakes' /\ Addressed' /\ LateHandshakes'
    <3>1. Handshakes'
      BY <1>17 DEF Handshakes, Begin
    <3>2. Addressed'
      BY <1>17 DEF Addressed, Begin
    <3>3. LateHandshakes'
      BY <1>17 DEF LateHandshakes, fleet, Begin
    <3>4. QED
      BY <3>1, <3>2, <3>3
  <2>8. QED
    BY <2>1, <2>2, <2>3, <2>4, <2>5, <2>6, <2>7 DEF TypeOK
<1>18. ASSUME NEW q \in Reqs, Forward(q) PROVE IInv'
  <2>1. used' = used
    BY <1>18 DEF Forward
  <2>2. sock' \in [Socks -> SockState]
    BY <1>18 DEF Forward, TypeOK
  <2>3. req' \in [Reqs -> ReqState] /\ mail' \in [Reqs -> MailState]
    <3>1. \A r \in Reqs : req[r] \in ReqState /\ mail[r] \in MailState
      BY DEF TypeOK
    <3>2. [req EXCEPT ![q].pc = "waiting"] \in [Reqs -> ReqState] /\ [req EXCEPT ![q].pc = "refused"] \in [Reqs -> ReqState]
      BY Constants DEF TypeOK, ReqState
    <3>3. req[q].node \in Nodes
      BY <1>18 DEF Forward, Addressed
    <3>4. [at |-> "down", on |-> reg[req[q].node]] \in MailState
      BY <3>3 DEF TypeOK, MailState
    <3>5. req' \in [Reqs -> ReqState]
      <4>1. CASE Has(req[q].node)
        BY <1>18, <3>2 DEF Forward
      <4>2. CASE ~Has(req[q].node)
        BY <1>18, <3>2 DEF Forward
      <4>3. QED
        BY <4>1, <4>2
    <3>6. mail' \in [Reqs -> MailState]
      <4>1. CASE Has(req[q].node)
        BY <1>18, <3>4 DEF Forward, TypeOK
      <4>2. CASE ~Has(req[q].node)
        BY <1>18, <4>2 DEF Forward, TypeOK
      <4>3. QED
        BY <4>1, <4>2
    <3>7. QED
      BY <3>5, <3>6
  <2>4. /\ known' \subseteq Nodes /\ alive' \subseteq Nodes /\ late' \subseteq Socks
        /\ removal' \in [Nodes -> Seq({"delete", "close"})]
        /\ reg' \in [Nodes -> Socks \cup {None}] /\ conn' \in [Nodes -> Socks \cup {None}]
    BY <1>18 DEF Forward, Ended, NoMail, TypeOK, fleet
  <2>5. Linked'
    BY <1>18 DEF TypeOK, Linked, Forward
  <2>c. \A r \in Reqs : /\ req'[r].node = req[r].node /\ (r # q => req'[r] = req[r] /\ mail'[r] = mail[r])
                       /\ req'[q].pc # "removed" /\ req[q].node \in Nodes
    <3>1. req[q].node \in Nodes
      BY <1>18 DEF Forward, Addressed
    <3>2. CASE Has(req[q].node)
      BY <1>18, <3>1 DEF Forward, TypeOK, ReqState
    <3>3. CASE ~Has(req[q].node)
      BY <1>18, <3>1 DEF Forward, TypeOK, ReqState
    <3>4. QED
      BY <3>2, <3>3
  <2>6. RemovalShape' /\ OnlyItsOwn' /\ RevokedClosed'
    BY <1>18, <2>c DEF Forward, RemovalShape, OnlyItsOwn, RevokedClosed, fleet
  <2>7. Handshakes' /\ Addressed' /\ LateHandshakes'
    <3>1. Handshakes' /\ LateHandshakes'
      BY <1>18 DEF Forward, Handshakes, LateHandshakes, fleet
    <3>2. Addressed'
      BY <2>c DEF Addressed
    <3>3. QED
      BY <3>1, <3>2
  <2>8. QED
    BY <2>1, <2>2, <2>3, <2>4, <2>5, <2>6, <2>7 DEF TypeOK
<1>19. ASSUME NEW q \in Reqs, Resolve(q) PROVE IInv'
  <2>1. used' = used
    BY <1>19 DEF Resolve
  <2>2. sock' \in [Socks -> SockState]
    BY <1>19 DEF Resolve, TypeOK
  <2>3. req' \in [Reqs -> ReqState] /\ mail' \in [Reqs -> MailState]
    BY <1>19, ReqWrites DEF Resolve, Ended, NoMail, TypeOK, MailState
  <2>4. /\ known' \subseteq Nodes /\ alive' \subseteq Nodes /\ late' \subseteq Socks
        /\ removal' \in [Nodes -> Seq({"delete", "close"})]
        /\ reg' \in [Nodes -> Socks \cup {None}] /\ conn' \in [Nodes -> Socks \cup {None}]
    BY <1>19 DEF Resolve, Ended, TypeOK, fleet
  <2>5. Linked'
    BY <1>19 DEF TypeOK, Linked, Resolve
  <2>6. RemovalShape' /\ OnlyItsOwn' /\ RevokedClosed'
    <3>1. RemovalShape'
      BY <1>19 DEF RemovalShape, fleet, requests, Resolve, Ended
    <3>2. OnlyItsOwn'
      BY <1>19 DEF OnlyItsOwn, fleet, Resolve
    <3>3. RevokedClosed'
      BY <1>19 DEF RevokedClosed, fleet, Resolve
    <3>4. QED
      BY <3>1, <3>2, <3>3
  <2>7. Handshakes' /\ Addressed' /\ LateHandshakes'
    <3>1. Handshakes'
      BY <1>19 DEF Handshakes, Resolve
    <3>2. Addressed'
      BY <1>19 DEF Addressed, Resolve
    <3>3. LateHandshakes'
      BY <1>19 DEF LateHandshakes, fleet, Resolve
    <3>4. QED
      BY <3>1, <3>2, <3>3
  <2>8. QED
    BY <2>1, <2>2, <2>3, <2>4, <2>5, <2>6, <2>7 DEF TypeOK
<1>20. ASSUME NEW q \in Reqs, Lost(q) PROVE IInv'
  <2>1. used' = used
    BY <1>20 DEF Lost
  <2>2. sock' \in [Socks -> SockState]
    BY <1>20 DEF Lost, TypeOK
  <2>3. req' \in [Reqs -> ReqState] /\ mail' \in [Reqs -> MailState]
    BY <1>20 DEF Lost, NoMail, TypeOK, MailState
  <2>4. /\ known' \subseteq Nodes /\ alive' \subseteq Nodes /\ late' \subseteq Socks
        /\ removal' \in [Nodes -> Seq({"delete", "close"})]
        /\ reg' \in [Nodes -> Socks \cup {None}] /\ conn' \in [Nodes -> Socks \cup {None}]
    BY <1>20 DEF Lost, TypeOK, fleet
  <2>5. Linked'
    BY <1>20 DEF TypeOK, Linked, Lost
  <2>6. RemovalShape' /\ OnlyItsOwn' /\ RevokedClosed'
    <3>1. RemovalShape'
      BY <1>20 DEF RemovalShape, fleet, requests, Lost
    <3>2. OnlyItsOwn'
      BY <1>20 DEF OnlyItsOwn, fleet, Lost
    <3>3. RevokedClosed'
      BY <1>20 DEF RevokedClosed, fleet, Lost
    <3>4. QED
      BY <3>1, <3>2, <3>3
  <2>7. Handshakes' /\ Addressed' /\ LateHandshakes'
    <3>1. Handshakes'
      BY <1>20 DEF Handshakes, Lost
    <3>2. Addressed'
      BY <1>20 DEF Addressed, Lost, NoMail
    <3>3. LateHandshakes'
      BY <1>20 DEF LateHandshakes, fleet, Lost
    <3>4. QED
      BY <3>1, <3>2, <3>3
  <2>8. QED
    BY <2>1, <2>2, <2>3, <2>4, <2>5, <2>6, <2>7 DEF TypeOK
<1>21. ASSUME NEW q \in Reqs, TimeOut(q) PROVE IInv'
  <2>1. used' = used
    BY <1>21 DEF TimeOut
  <2>2. sock' \in [Socks -> SockState]
    BY <1>21 DEF TimeOut, TypeOK
  <2>3. req' \in [Reqs -> ReqState] /\ mail' \in [Reqs -> MailState]
    BY <1>21, ReqWrites DEF TimeOut, Ended, TypeOK
  <2>4. /\ known' \subseteq Nodes /\ alive' \subseteq Nodes /\ late' \subseteq Socks
        /\ removal' \in [Nodes -> Seq({"delete", "close"})]
        /\ reg' \in [Nodes -> Socks \cup {None}] /\ conn' \in [Nodes -> Socks \cup {None}]
    BY <1>21 DEF TimeOut, Ended, TypeOK, fleet
  <2>5. Linked'
    BY <1>21 DEF TypeOK, Linked, TimeOut
  <2>6. RemovalShape' /\ OnlyItsOwn' /\ RevokedClosed'
    <3>1. RemovalShape'
      BY <1>21 DEF RemovalShape, fleet, requests, TimeOut, Ended
    <3>2. OnlyItsOwn'
      BY <1>21 DEF OnlyItsOwn, fleet, TimeOut
    <3>3. RevokedClosed'
      BY <1>21 DEF RevokedClosed, fleet, TimeOut
    <3>4. QED
      BY <3>1, <3>2, <3>3
  <2>7. Handshakes' /\ Addressed' /\ LateHandshakes'
    <3>1. Handshakes'
      BY <1>21 DEF Handshakes, TimeOut
    <3>2. Addressed'
      BY <1>21 DEF Addressed, TimeOut
    <3>3. LateHandshakes'
      BY <1>21 DEF LateHandshakes, fleet, TimeOut
    <3>4. QED
      BY <3>1, <3>2, <3>3
  <2>8. QED
    BY <2>1, <2>2, <2>3, <2>4, <2>5, <2>6, <2>7 DEF TypeOK
<1>22. ASSUME NEW n \in Nodes, Remove(n) PROVE IInv'
  <2>1. used' \subseteq Events \X Nat /\ IsFiniteSet(used')
    BY <1>22, SpendTypes DEF Remove, TypeOK
  <2>2. sock' \in [Socks -> SockState]
    BY <1>22 DEF Remove, TypeOK
  <2>3. req' \in [Reqs -> ReqState] /\ mail' \in [Reqs -> MailState]
    BY <1>22 DEF Remove, TypeOK, requests
  <2>4. /\ known' \subseteq Nodes /\ alive' \subseteq Nodes /\ late' \subseteq Socks
        /\ removal' \in [Nodes -> Seq({"delete", "close"})]
        /\ reg' \in [Nodes -> Socks \cup {None}] /\ conn' \in [Nodes -> Socks \cup {None}]
    BY <1>22 DEF Remove, RemovalSteps, TypeOK
  <2>5. Linked'
    BY <1>22 DEF TypeOK, Linked, Remove
  <2>6. RemovalShape' /\ OnlyItsOwn' /\ RevokedClosed'
    <3>1. RemovalShape'
      BY <1>22 DEF RemovalShape, fleet, Remove, RemovalSteps
    <3>2. OnlyItsOwn'
      BY <1>22 DEF OnlyItsOwn, requests, Remove
    <3>3. RevokedClosed'
      BY <1>22 DEF RevokedClosed, Remove
    <3>4. QED
      BY <3>1, <3>2, <3>3
  <2>7. Handshakes' /\ Addressed' /\ LateHandshakes'
    <3>1. Handshakes'
      BY <1>22 DEF Handshakes, Remove
    <3>2. Addressed'
      BY <1>22 DEF Addressed, requests, Remove
    <3>3. LateHandshakes'
      BY <1>22 DEF LateHandshakes, Remove
    <3>4. QED
      BY <3>1, <3>2, <3>3
  <2>8. QED
    BY <2>1, <2>2, <2>3, <2>4, <2>5, <2>6, <2>7 DEF TypeOK
<1>23. ASSUME NEW n \in Nodes, DeleteRow(n) PROVE IInv'
  <2>1. used' = used
    BY <1>23 DEF DeleteRow
  <2>2. sock' \in [Socks -> SockState]
    BY <1>23 DEF DeleteRow, TypeOK
  <2>3. req' \in [Reqs -> ReqState] /\ mail' \in [Reqs -> MailState]
    BY <1>23 DEF DeleteRow, TypeOK, requests
  <2>4. /\ known' \subseteq Nodes /\ alive' \subseteq Nodes /\ late' \subseteq Socks
        /\ removal' \in [Nodes -> Seq({"delete", "close"})]
        /\ reg' \in [Nodes -> Socks \cup {None}] /\ conn' \in [Nodes -> Socks \cup {None}]
    BY <1>23 DEF DeleteRow, TypeOK
  <2>5. Linked'
    BY <1>23 DEF TypeOK, Linked, DeleteRow
  <2>6. RemovalShape' /\ OnlyItsOwn' /\ RevokedClosed'
    <3>1. RemovalShape'
      <4>1. removal[n] = <<"delete", "close">>
        BY <1>23 DEF DeleteRow, RemovalShape
      <4>2. removal' = [removal EXCEPT ![n] = <<"close">>] /\ known' = known \ {n}
        BY <1>23, <4>1 DEF DeleteRow
      <4>3. QED
        BY <4>2 DEF RemovalShape
    <3>2. OnlyItsOwn'
      BY <1>23 DEF OnlyItsOwn, requests, DeleteRow
    <3>3. RevokedClosed'
      BY <1>23, Sequences DEF RevokedClosed, RemovalShape, TypeOK, DeleteRow
    <3>4. QED
      BY <3>1, <3>2, <3>3
  <2>7. Handshakes' /\ Addressed' /\ LateHandshakes'
    <3>1. Handshakes'
      BY <1>23 DEF Handshakes, DeleteRow
    <3>2. Addressed'
      BY <1>23 DEF Addressed, requests, DeleteRow
    <3>3. LateHandshakes'
      BY <1>23, Sequences DEF LateHandshakes, RemovalShape, requests, DeleteRow
    <3>4. QED
      BY <3>1, <3>2, <3>3
  <2>8. QED
    BY <2>1, <2>2, <2>3, <2>4, <2>5, <2>6, <2>7 DEF TypeOK
<1>24. ASSUME NEW n \in Nodes, CloseTunnel(n) PROVE IInv'
  <2>1. used' = used
    BY <1>24 DEF CloseTunnel
  <2>2. sock' \in [Socks -> SockState]
    BY <1>24, SockWrites, Constants DEF CloseTunnel, TypeOK
  <2>3. req' \in [Reqs -> ReqState] /\ mail' \in [Reqs -> MailState]
    BY <1>24, Constants DEF CloseTunnel, FailOwn, Ended, TypeOK, ReqState, MailState
  <2>4. /\ known' \subseteq Nodes /\ alive' \subseteq Nodes /\ late' \subseteq Socks
        /\ removal' \in [Nodes -> Seq({"delete", "close"})]
        /\ reg' \in [Nodes -> Socks \cup {None}] /\ conn' \in [Nodes -> Socks \cup {None}]
    BY <1>24 DEF CloseTunnel, OfNode, TypeOK
  <2>5. Linked'
    <3>1. \A t \in Socks : sock'[t].node = sock[t].node /\ sock'[t].client = sock[t].client
      BY <1>24 DEF CloseTunnel
    <3>2. \A m \in Nodes : reg'[m] \in {reg[m], None} /\ conn'[m] \in {conn[m], None}
      BY <1>24 DEF CloseTunnel
    <3>3. QED
      BY <3>1, <3>2, LinkedKept DEF TypeOK
  <2>6. RemovalShape' /\ OnlyItsOwn' /\ RevokedClosed'
    <3>1. removal[n] = <<"close">> /\ n \notin known
      BY <1>24 DEF CloseTunnel, RemovalShape
    <3>2. removal' = [removal EXCEPT ![n] = <<>>] /\ reg' = [reg EXCEPT ![n] = None] /\ known' = known
      BY <1>24, <3>1 DEF CloseTunnel
    <3>3. RemovalShape'
      BY <3>2 DEF RemovalShape
    <3>4. RevokedClosed'
      BY <1>24 DEF RevokedClosed, TypeOK, CloseTunnel
    <3>5. req' = FailOwn(n) \/ req' = req
      BY <1>24 DEF CloseTunnel
    <3>6. OnlyItsOwn'
      <4>1. CASE req' = req
        BY <3>2, <4>1 DEF OnlyItsOwn
      <4>2. CASE req' = FailOwn(n)
        <5>1. SUFFICES ASSUME NEW q \in Reqs, req'[q].pc = "removed" PROVE req'[q].node \notin known
          BY <3>2 DEF OnlyItsOwn
        <5>2. req[q] \in ReqState
          BY DEF TypeOK
        <5>3. CASE req'[q] = req[q]
          BY <5>1, <5>3 DEF OnlyItsOwn
        <5>4. CASE req[q].node = n /\ req'[q] = [req[q] EXCEPT !.pc = "removed"]
          BY <3>1, <5>4
        <5>5. QED
          BY <4>2, <5>3, <5>4 DEF FailOwn
      <4>3. QED
        BY <3>5, <4>1, <4>2
    <3>7. QED
      BY <3>3, <3>4, <3>6
  <2>7. Handshakes' /\ Addressed' /\ LateHandshakes'
    <3>1. Handshakes'
      BY <1>24 DEF Handshakes, CloseTunnel
    <3>2. Addressed'
      BY <1>24 DEF Addressed, CloseTunnel, FailOwn
    <3>3. LateHandshakes'
      BY <1>24 DEF LateHandshakes, CloseTunnel, OfNode
    <3>4. QED
      BY <3>1, <3>2, <3>3
  <2>8. QED
    BY <2>1, <2>2, <2>3, <2>4, <2>5, <2>6, <2>7 DEF TypeOK
<1>25. ASSUME Restart PROVE IInv'
  <2>1. used' \subseteq Events \X Nat /\ IsFiniteSet(used')
    BY <1>25, SpendTypes DEF Restart, TypeOK
  <2>2. sock' \in [Socks -> SockState]
    BY <1>25, SockWrites, Constants DEF Restart
  <2>3. req' \in [Reqs -> ReqState] /\ mail' \in [Reqs -> MailState]
    BY <1>25, Constants DEF Restart, Ended, ClientEnd, TypeOK, ReqState, MailState
  <2>4. /\ known' \subseteq Nodes /\ alive' \subseteq Nodes /\ late' \subseteq Socks
        /\ removal' \in [Nodes -> Seq({"delete", "close"})]
        /\ reg' \in [Nodes -> Socks \cup {None}] /\ conn' \in [Nodes -> Socks \cup {None}]
    BY <1>25 DEF Restart, TypeOK
  <2>5. Linked'
    <3>1. \A t \in Socks : sock'[t].node = sock[t].node /\ sock'[t].client = sock[t].client
      BY <1>25 DEF Restart
    <3>2. \A n \in Nodes : reg'[n] \in {reg[n], None} /\ conn'[n] \in {conn[n], None}
      BY <1>25 DEF Restart
    <3>3. QED
      BY <3>1, <3>2, LinkedKept DEF TypeOK
  <2>6. RemovalShape' /\ OnlyItsOwn' /\ RevokedClosed'
    <3>1. RemovalShape'
      BY <1>25 DEF RemovalShape, fleet, requests, Restart
    <3>2. OnlyItsOwn'
      BY <1>25 DEF OnlyItsOwn, Restart
    <3>3. RevokedClosed'
      BY <1>25 DEF RevokedClosed, Restart
    <3>4. QED
      BY <3>1, <3>2, <3>3
  <2>7. Handshakes' /\ Addressed' /\ LateHandshakes'
    <3>1. Handshakes'
      BY <1>25 DEF Handshakes, Restart
    <3>2. Addressed'
      BY <1>25 DEF Addressed, Restart, Ended
    <3>3. LateHandshakes'
      BY <1>25 DEF LateHandshakes, Restart
    <3>4. QED
      BY <3>1, <3>2, <3>3
  <2>8. QED
    BY <2>1, <2>2, <2>3, <2>4, <2>5, <2>6, <2>7 DEF TypeOK
<1>26. ASSUME NEW s \in Socks, Break(s) PROVE IInv'
  <2>1. used' \subseteq Events \X Nat /\ IsFiniteSet(used')
    BY <1>26, SpendTypes DEF Break, TypeOK
  <2>2. sock' \in [Socks -> SockState]
    BY <1>26, SockWrites DEF Break
  <2>3. req' \in [Reqs -> ReqState] /\ mail' \in [Reqs -> MailState]
    BY <1>26 DEF Break, TypeOK, requests
  <2>4. /\ known' \subseteq Nodes /\ alive' \subseteq Nodes /\ late' \subseteq Socks
        /\ removal' \in [Nodes -> Seq({"delete", "close"})]
        /\ reg' \in [Nodes -> Socks \cup {None}] /\ conn' \in [Nodes -> Socks \cup {None}]
    BY <1>26 DEF Break, ServerEnd, ClientEnd, TypeOK, fleet
  <2>5. Linked'
    BY <1>26 DEF TypeOK, Linked, Break
  <2>6. RemovalShape' /\ OnlyItsOwn' /\ RevokedClosed'
    <3>1. RemovalShape'
      BY <1>26 DEF RemovalShape, fleet, Break
    <3>2. OnlyItsOwn'
      BY <1>26 DEF OnlyItsOwn, fleet, requests, Break
    <3>3. RevokedClosed'
      BY <1>26 DEF RevokedClosed, fleet, Break
    <3>4. QED
      BY <3>1, <3>2, <3>3
  <2>7. Handshakes' /\ Addressed' /\ LateHandshakes'
    <3>1. Handshakes'
      BY <1>26 DEF Handshakes, Break
    <3>2. Addressed'
      BY <1>26 DEF Addressed, requests, Break
    <3>3. LateHandshakes'
      BY <1>26 DEF LateHandshakes, fleet, Break
    <3>4. QED
      BY <3>1, <3>2, <3>3
  <2>8. QED
    BY <2>1, <2>2, <2>3, <2>4, <2>5, <2>6, <2>7 DEF TypeOK
<1>27. CASE UNCHANGED vars
  BY <1>27
  DEF vars, TypeOK, Linked, RemovalShape, Handshakes, Addressed, LateHandshakes, OnlyItsOwn,
     RevokedClosed
<1>28. QED
  BY <1>1, <1>2, <1>3, <1>4, <1>5, <1>6, <1>7, <1>8, <1>9, <1>10, <1>11, <1>12, <1>13,
     <1>14, <1>15, <1>16, <1>17, <1>18, <1>19, <1>20, <1>21, <1>22, <1>23, <1>24, <1>25,
     <1>26, <1>27
  DEF Next, Agent, Server, Request, Removal, OfNode

\* Every reachable state is well typed, and the links of the two ends agree.
THEOREM TunnelTypes == Spec => []TypeOK
<1>1. IInv => TypeOK
  BY DEF IInv
<1>2. QED
  BY <1>1, TunnelAssumption, InitHolds, NextHolds, PTL DEF Spec

\* Only the requests of a node that was removed are failed by a removal, however often
\* nodes reconnect and whatever the timers do.
THEOREM OnlyOwn == Spec => []OnlyItsOwn
<1>1. IInv => OnlyItsOwn
  BY DEF IInv
<1>2. QED
  BY <1>1, TunnelAssumption, InitHolds, NextHolds, PTL DEF Spec

\* A node that was removed is reached through nothing but the handshake that was under way.
THEOREM Revoked == Spec => []RevokedClosed
<1>1. IInv => RevokedClosed
  BY DEF IInv
<1>2. QED
  BY <1>1, TunnelAssumption, InitHolds, NextHolds, PTL DEF Spec

\* The steps that open no socket, and leave what is open registered, keep it.
LEMMA OpenKept ==
  ASSUME OpenIsRegistered,
         \A s \in Socks : sock'[s].server = "open" =>
               /\ sock[s].server = "open" /\ sock'[s].node = sock[s].node
               /\ reg'[sock[s].node] = reg[sock[s].node]
  PROVE  OpenIsRegistered'
  BY DEF OpenIsRegistered

\* And every step does.
LEMMA OpenNext == TunnelAssumption /\ IInv /\ OpenIsRegistered /\ [Next]_vars => OpenIsRegistered'
<1> SUFFICES ASSUME TunnelAssumption, IInv, OpenIsRegistered, [Next]_vars
             PROVE  OpenIsRegistered'
  OBVIOUS
<1>t. sock \in [Socks -> SockState] /\ reg \in [Nodes -> Socks \cup {None}]
  BY DEF IInv, TypeOK
<1>n. \A s \in Socks : sock[s].server = "open" => sock[s].node \in Nodes /\ reg[sock[s].node] = s
  BY DEF IInv, Handshakes, OpenIsRegistered
<1>1. ASSUME NEW n \in Nodes, Dial(n) PROVE OpenIsRegistered'
  <2>1. PICK s \in Free :
           sock' = [sock EXCEPT ![s] = [NoSock EXCEPT !.node = n, !.server = "dialed",
                                                      !.client = "dialing", !.link = TRUE]]
    BY <1>1 DEF Dial
  <2>2. sock'[s].server # "open" /\ \A t \in Socks \ {s} : sock'[t] = sock[t]
    BY <2>1, <1>t DEF Free, NoSock
  <2>3. QED
    BY <1>1, <2>2, OpenKept DEF Dial
<1>2. ASSUME NEW s \in Socks,
             Connected(s) \/ DialFails(s) \/ HandshakeTimeout(s) \/ ReadFails(s) \/ Ping(s) \/ Break(s)
      PROVE  OpenIsRegistered'
  <2>1. reg' = reg /\ \A t \in Socks : sock'[t].server = sock[t].server /\ sock'[t].node = sock[t].node
    BY <1>2, <1>t DEF Connected, DialFails, HandshakeTimeout, ReadFails, Ping, Break, SockState
  <2>2. QED
    BY <2>1, OpenKept
<1>3. ASSUME NEW n \in Nodes, AgentRestart(n) \/ PowerOff(n) \/ AgentStops(n)
      PROVE  OpenIsRegistered'
  <2>1. reg' = reg /\ \A t \in Socks : sock'[t].server = sock[t].server /\ sock'[t].node = sock[t].node
    <3>1. ASSUME NEW t \in Socks
          PROVE  sock'[t] = IF t \in OfNode(n) /\ sock[t].client # "none"
                            THEN [sock[t] EXCEPT !.client = "closed", !.link = sock'[t].link]
                            ELSE sock[t]
      <4>1. sock[t] \in SockState
        BY <1>t
      <4>2. CASE AgentGone(n)
        BY <4>1, <4>2 DEF AgentGone, SockState
      <4>3. CASE PowerOff(n)
        BY <4>1, <4>3 DEF PowerOff, SockState
      <4>4. QED
        BY <1>3, <4>2, <4>3 DEF AgentRestart, AgentStops
    <3>2. reg' = reg
      BY <1>3 DEF AgentRestart, PowerOff, AgentStops
    <3>3. QED
      BY <3>1, <3>2, <1>t DEF SockState
  <2>2. QED
    BY <2>1, OpenKept
<1>4. ASSUME NEW n \in Nodes, PowerOn(n) \/ Remove(n) \/ DeleteRow(n) PROVE OpenIsRegistered'
  BY <1>4 DEF PowerOn, Remove, DeleteRow, OpenIsRegistered
<1>5. ASSUME NEW q \in Reqs, Request(q) \/ \E n \in Nodes : Begin(q, n) PROVE OpenIsRegistered'
  BY <1>5
  DEF Request, Forward, Resolve, Lost, ServeRequest, SendResponse, TimeOut, Begin, fleet,
      OpenIsRegistered
<1>6. ASSUME NEW s \in Socks, Authenticate(s) PROVE OpenIsRegistered'
  <2>1. /\ reg' = reg /\ sock'[s].server # "open"
        /\ \A t \in Socks \ {s} : sock'[t] = sock[t]
    BY <1>6, <1>t DEF Authenticate, SockState
  <2>2. QED
    BY <2>1, OpenKept
<1>7. ASSUME NEW s \in Socks, Register(s) PROVE OpenIsRegistered'
  <2> DEFINE n == sock[s].node
  <2>1. n \in Nodes /\ sock[s].server = "authenticated"
    BY <1>7 DEF Register, IInv, Handshakes
  <2>2. reg' = [reg EXCEPT ![n] = s]
    BY <1>7 DEF Register
  <2>3. sock' = [t \in Socks |->
                   IF t = s THEN [sock[t] EXCEPT !.server = "open"]
                   ELSE IF t = reg[n] /\ sock[t].server = "open"
                        THEN [sock[t] EXCEPT !.server = "closing"]
                   ELSE sock[t]]
    BY <1>7 DEF Register
  <2>4. ASSUME NEW t \in Socks, sock'[t].server = "open" PROVE reg'[sock'[t].node] = t
    <3>1. CASE t = s
      <4>1. sock'[t].node = n
        BY <2>3, <3>1, <1>t DEF SockState
      <4>2. QED
        BY <4>1, <2>1, <2>2, <3>1, <1>t
    <3>2. CASE t # s
      <4>1. sock'[t] = sock[t] /\ sock[t].server = "open" /\ t # reg[n]
        BY <2>3, <2>4, <3>2, <1>t DEF SockState
      <4>2. sock[t].node # n
        BY <4>1, <1>n
      <4>3. QED
        BY <4>1, <4>2, <2>1, <2>2, <1>n, <1>t
    <3>3. QED
      BY <3>1, <3>2
  <2>5. QED
    BY <2>4 DEF OpenIsRegistered
<1>8. ASSUME NEW s \in Socks, Closed(s) \/ Terminate(s) PROVE OpenIsRegistered'
  <2>1. reg' = Deregister(s) /\ sock' = [sock EXCEPT ![s].server = "closed"]
    BY <1>8 DEF Closed, Terminate
  <2>2. sock'[s].server # "open" /\ \A t \in Socks \ {s} : sock'[t] = sock[t]
    BY <2>1, <1>t DEF SockState
  <2>3. \A t \in Socks \ {s} : sock[t].server = "open" => reg'[sock[t].node] = reg[sock[t].node]
    BY <2>1, <1>n DEF Deregister
  <2>4. QED
    BY <2>2, <2>3, OpenKept
<1>9. ASSUME NEW n \in Nodes, CloseTunnel(n) PROVE OpenIsRegistered'
  <2> DEFINE s == reg[n]
  <2>1. /\ sock' = IF s # None /\ sock[s].server = "open"
                   THEN [sock EXCEPT ![s].server = "closing"] ELSE sock
        /\ reg' = [reg EXCEPT ![n] = None]
    BY <1>9 DEF CloseTunnel
  <2>2. ASSUME NEW t \in Socks, sock'[t].server = "open"
        PROVE  sock'[t] = sock[t] /\ t # s
    BY <2>1, <2>2, <1>t, TunnelAssumption DEF SockState, TunnelAssumption
  <2>3. \A t \in Socks : sock'[t].server = "open" => sock[t].node # n
    BY <2>2, <1>n
  <2>4. \A t \in Socks : sock'[t].server = "open" => reg'[sock[t].node] = reg[sock[t].node]
    BY <2>1, <2>2, <2>3, <1>n, <1>t
  <2>5. QED
    BY <2>2, <2>4, OpenKept
<1>10. ASSUME Restart PROVE OpenIsRegistered'
  <2>1. \A t \in Socks : sock'[t].server # "open"
    BY <1>10, <1>t DEF Restart, SockState
  <2>2. QED
    BY <2>1 DEF OpenIsRegistered
<1>11. CASE UNCHANGED vars
  BY <1>11 DEF vars, OpenIsRegistered
<1>12. QED
  BY <1>1, <1>2, <1>3, <1>4, <1>5, <1>6, <1>7, <1>8, <1>9, <1>10, <1>11
  DEF Next, Agent, Server, Removal, OfNode

\* However sockets are dialled, replaced, lost and closed, the control plane has none
\* open that it does not know a node by.
THEOREM OpenRegistered == Spec => []OpenIsRegistered
<1>1. Init => OpenIsRegistered
  BY DEF Init, OpenIsRegistered, NoSock
<1>2. QED
  BY <1>1, TunnelAssumption, InitHolds, NextHolds, OpenNext, PTL DEF Spec
=============================================================================
