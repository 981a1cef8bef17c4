------------------------------- MODULE Tunnel -------------------------------
(***************************************************************************)
(* The reverse tunnel: the agent's client, which dials the control plane   *)
(* and serves requests (agent/internal/tunnel/client.go), the registry of  *)
(* one socket per node (tunnel/registry.ts), ingress, which forwards down  *)
(* it and waits (ingress/proxy.ts), and the removal of a node, which must  *)
(* take its tunnel away (api/fleets.routes.ts).                            *)
(*                                                                         *)
(* A socket has two ends that need not agree, and a link that can die      *)
(* without either noticing.  Time is what timers may do next: a peer that  *)
(* can answer a ping does so within the period.                            *)
(***************************************************************************)
EXTENDS Naturals, FiniteSets, Sequences

CONSTANTS
    Nodes,    \* the nodes, each with its agent
    Socks,    \* identities of sockets
    Reqs,     \* identities of requests at the edge
    None,     \* no socket, no node
    Allowed,  \* the kinds of event a behaviour may contain
    Budget    \* and how many of them in all

Events == {"removals", "breaks", "timeouts", "crashes", "outages", "restarts"}

ASSUME TunnelAssumption ==
    /\ None \notin Nodes \cup Socks
    /\ Allowed \subseteq Events /\ Budget \in Nat

VARIABLES
    known,    \* nodes whose row and credentials exist
    alive,    \* nodes whose agent process runs
    removal,  \* what the removal of each node has still to do
    late,     \* sockets authenticated but not upgraded when their node's tunnel was closed
    sock,     \* both ends of every socket
    reg,      \* TunnelRegistry.sockets
    conn,     \* Client.conn of each agent
    req,      \* requests through a tunnel: TunnelRegistry.pending, and how each ended
    mail,     \* where each request's message or answer is
    used      \* the events that have happened

vars == <<known, alive, removal, late, sock, reg, conn, req, mail, used>>
fleet == <<known, alive, removal, late>>
requests == <<req, mail>>

ServerEnd == {"none", "dialed", "authenticated", "open", "closing", "closed"}

ClientEnd == {"none", "dialing", "open", "closed"}

NoSock == [node |-> None, server |-> "none", client |-> "none", link |-> FALSE,
           awaiting |-> FALSE]

Ended == {"idle", "answered", "timed_out", "refused", "removed"}

NoMail == [at |-> "nowhere", on |-> None]

SockState == [node : Nodes \cup {None}, server : ServerEnd, client : ClientEnd,
              link : BOOLEAN, awaiting : BOOLEAN]

ReqState == [pc : Ended \cup {"body", "waiting"}, node : Nodes \cup {None}]

MailState == [at : {"nowhere", "down", "agent", "up"}, on : Socks \cup {None}]

\* The sockets that a node is known by are its own, and its client has its open.
Linked ==
    \A n \in Nodes :
        /\ reg[n] # None => sock[reg[n]].node = n
        /\ conn[n] # None => sock[conn[n]].node = n /\ sock[conn[n]].client = "open"

TypeOK ==
    /\ known \subseteq Nodes /\ alive \subseteq Nodes /\ late \subseteq Socks
    /\ removal \in [Nodes -> Seq({"delete", "close"})]
    /\ sock \in [Socks -> SockState]
    /\ reg \in [Nodes -> Socks \cup {None}] /\ conn \in [Nodes -> Socks \cup {None}]
    /\ Linked
    /\ req \in [Reqs -> ReqState] /\ mail \in [Reqs -> MailState]
    /\ used \subseteq Events \X Nat

\* At most Budget events, each of an allowed kind; which ones is remembered.
Spend(kind) ==
    /\ kind \in Allowed /\ Cardinality(used) < Budget
    /\ used' = used \cup {<<kind, Cardinality({u \in used : u[1] = kind})>>}

-----------------------------------------------------------------------------
\* TunnelRegistry.has
Has(n) == reg[n] # None /\ sock[reg[n]].server = "open"

\* The two ends can talk.
Sound(s) == sock[s].link /\ sock[s].server = "open" /\ sock[s].client = "open"

OfNode(n) == {s \in Socks : sock[s].node = n}

\* A socket closed at both ends, with nothing on it, is forgotten.
Free ==
    {s \in Socks : /\ sock[s].server \in {"none", "closed"}
                   /\ sock[s].client \in {"none", "closed"}}
        \ ({reg[n] : n \in Nodes} \cup {mail[q].on : q \in Reqs})

DeregisterNode(s) == [reg EXCEPT ![sock[s].node] = None]   \* seeded bug: whichever socket is registered

\* The `close` and `error` handlers: only a socket that is still the node's own.
Deregister(s) == [n \in Nodes |-> IF reg[n] = s THEN None ELSE reg[n]]

(***************************************************************************)
(* The agent's client                                                      *)
(***************************************************************************)
\* connectAndServe, three seconds after the last attempt ended.
Dial(n) ==
    /\ n \in alive /\ conn[n] = None
    /\ \A s \in OfNode(n) : sock[s].client # "dialing"
    /\ \E s \in Free :
          /\ s = CHOOSE t \in Free : TRUE
          /\ sock' = [sock EXCEPT ![s] = [NoSock EXCEPT !.node = n, !.server = "dialed",
                                                        !.client = "dialing", !.link = TRUE]]
          /\ late' = late \ {s}
    /\ UNCHANGED <<known, alive, removal, reg, conn, requests, used>>

\* The upgrade is answered; the read loop starts.
Connected(s) ==
    /\ sock[s].client = "dialing" /\ sock[s].server \in {"open", "closing", "closed"}
    /\ sock[s].link
    /\ sock' = [sock EXCEPT ![s].client = "open"]
    /\ conn' = [conn EXCEPT ![sock[s].node] = s]
    /\ UNCHANGED <<fleet, reg, requests, used>>

\* A dial over a link that has died.
DialFails(s) ==
    /\ sock[s].client = "dialing" /\ ~sock[s].link
    /\ sock' = [sock EXCEPT ![s].client = "closed"]
    /\ UNCHANGED <<fleet, reg, conn, requests, used>>

\* The client gives up on a handshake that the server is still to finish.
HandshakeTimeout(s) ==
    /\ sock[s].client = "dialing" /\ sock[s].link /\ Spend("timeouts")
    /\ sock' = [sock EXCEPT ![s].client = "closed"]
    /\ UNCHANGED <<fleet, reg, conn, requests>>

ReadFailsHeld(s) ==     \* seeded bug: the client keeps the connection it has left
    /\ sock[s].client = "open"
    /\ ~sock[s].link \/ sock[s].server \in {"closing", "closed"}
    /\ sock' = [sock EXCEPT ![s].client = "closed"]
    /\ UNCHANGED <<fleet, reg, conn, requests, used>>

\* ReadMessage fails: the other end is gone, or the read deadline passes in silence.
ReadFails(s) ==
    /\ sock[s].client = "open"
    /\ ~sock[s].link \/ sock[s].server \in {"closing", "closed"}
    /\ sock' = [sock EXCEPT ![s].client = "closed"]
    /\ conn' = [n \in Nodes |-> IF conn[n] = s THEN None ELSE conn[n]]
    /\ UNCHANGED <<fleet, reg, requests, used>>

ServeRequest(q) ==
    /\ mail[q].at = "down" /\ sock[mail[q].on].link /\ sock[mail[q].on].client = "open"
    /\ mail' = [mail EXCEPT ![q] = [at |-> "agent", on |-> None]]
    /\ UNCHANGED <<fleet, sock, reg, conn, req, used>>

\* sendResponse, on whatever connection the client has by now; without one the
\* answer is dropped.
SendResponse(q) ==
    /\ mail[q].at = "agent"
    /\ LET s == conn[req[q].node] IN
       mail' = [mail EXCEPT ![q] = IF s = None THEN NoMail ELSE [at |-> "up", on |-> s]]
    /\ UNCHANGED <<fleet, sock, reg, conn, req, used>>

\* The process ends: what it held of sockets and requests is gone.
AgentGone(n) ==
    /\ sock' = [s \in Socks |-> IF s \in OfNode(n) /\ sock[s].client # "none"
                                THEN [sock[s] EXCEPT !.client = "closed"] ELSE sock[s]]
    /\ conn' = [conn EXCEPT ![n] = None]
    /\ mail' = [q \in Reqs |-> IF mail[q].at = "agent" /\ req[q].node = n THEN NoMail
                               ELSE mail[q]]

AgentRestart(n) ==
    /\ n \in alive /\ Spend("crashes")
    /\ AgentGone(n)
    /\ UNCHANGED <<fleet, reg, req>>

\* The machine loses power: nobody is told.
PowerOff(n) ==
    /\ n \in alive /\ Spend("outages")
    /\ alive' = alive \ {n}
    /\ conn' = [conn EXCEPT ![n] = None]
    /\ sock' = [s \in Socks |-> IF s \in OfNode(n) /\ sock[s].client # "none"
                                THEN [sock[s] EXCEPT !.client = "closed", !.link = FALSE]
                                ELSE sock[s]]
    /\ mail' = [q \in Reqs |-> IF mail[q].at = "agent" /\ req[q].node = n THEN NoMail
                               ELSE mail[q]]
    /\ UNCHANGED <<known, removal, late, reg, req>>

PowerOn(n) ==
    /\ n \in known \ alive
    /\ alive' = alive \cup {n}
    /\ UNCHANGED <<known, removal, late, sock, reg, conn, requests, used>>

\* The heartbeat of a removed node is refused and its agent exits.
AgentStops(n) ==
    /\ n \in alive \ known
    /\ AgentGone(n)
    /\ alive' = alive \ {n}
    /\ UNCHANGED <<known, removal, late, reg, req, used>>

(***************************************************************************)
(* The registry                                                            *)
(***************************************************************************)
\* The upgrade handler reads the node's row by its token.
Authenticate(s) ==
    /\ sock[s].server = "dialed"
    /\ sock' = IF sock[s].node \in known
               THEN [sock EXCEPT ![s].server = "authenticated"]
               ELSE [sock EXCEPT ![s].server = "closed", ![s].client = "closed"]
    /\ UNCHANGED <<fleet, reg, conn, requests, used>>

RegisterBeside(s) ==     \* seeded bug: the socket it replaces is left open
    /\ sock[s].server = "authenticated"
    /\ sock' = [sock EXCEPT ![s].server = "open"]
    /\ reg' = [reg EXCEPT ![sock[s].node] = s]
    /\ UNCHANGED <<fleet, conn, requests, used>>

\* handleUpgrade and register: the socket replaces the node's, which is closed.
Register(s) ==
    /\ sock[s].server = "authenticated"
    /\ LET existing == reg[sock[s].node] IN
       sock' = [t \in Socks |->
                  IF t = s THEN [sock[t] EXCEPT !.server = "open"]
                  ELSE IF t = existing /\ sock[t].server = "open"
                       THEN [sock[t] EXCEPT !.server = "closing"]
                  ELSE sock[t]]
    /\ reg' = [reg EXCEPT ![sock[s].node] = s]
    /\ UNCHANGED <<fleet, conn, requests, used>>

\* The close event: of a close that ended, or of a peer that went and said so.
Closed(s) ==
    /\ \/ sock[s].server = "closing"
       \/ sock[s].server = "open" /\ sock[s].client = "closed" /\ sock[s].link
    /\ sock' = [sock EXCEPT ![s].server = "closed"]
    /\ reg' = Deregister(s)
    /\ UNCHANGED <<fleet, conn, requests, used>>

\* A ping is not answered; one that is leaves no trace.
Ping(s) ==
    /\ sock[s].server = "open" /\ ~sock[s].awaiting
    /\ ~sock[s].link
    /\ sock' = [sock EXCEPT ![s].awaiting = TRUE]
    /\ UNCHANGED <<fleet, reg, conn, requests, used>>

TerminateNobody(s) ==     \* seeded bug: a missing pong is only logged
    /\ sock[s].server = "open" /\ sock[s].awaiting
    /\ UNCHANGED vars

\* The next tick of startKeepalive finds the pong missing.
Terminate(s) ==
    /\ sock[s].server = "open" /\ sock[s].awaiting
    /\ sock' = [sock EXCEPT ![s].server = "closed"]
    /\ reg' = Deregister(s)
    /\ UNCHANGED <<fleet, conn, requests, used>>

(***************************************************************************)
(* Ingress                                                                 *)
(***************************************************************************)
\* A request for a node with a tunnel; its body is read before it is forwarded.
Begin(q, n) ==
    /\ req[q].pc \in Ended /\ mail[q] = NoMail
    /\ Has(n)
    /\ req' = [req EXCEPT ![q] = [pc |-> "body", node |-> n]]
    /\ UNCHANGED <<fleet, sock, reg, conn, mail, used>>

\* forwardHttpRequest: refused if the tunnel has gone meanwhile.
Forward(q) ==
    /\ req[q].pc = "body"
    /\ LET n == req[q].node IN
       IF Has(n)
       THEN /\ req' = [req EXCEPT ![q].pc = "waiting"]
            /\ mail' = [mail EXCEPT ![q] = [at |-> "down", on |-> reg[n]]]
       ELSE req' = [req EXCEPT ![q].pc = "refused"] /\ UNCHANGED mail
    /\ UNCHANGED <<fleet, sock, reg, conn, used>>

\* The answer is for the pending entry of its id, whichever socket it comes by;
\* without an entry it is ignored.
Resolve(q) ==
    /\ mail[q].at = "up" /\ sock[mail[q].on].link
    /\ sock[mail[q].on].server \in {"open", "closing"}
    /\ req' = IF req[q].pc = "waiting" THEN [req EXCEPT ![q].pc = "answered"] ELSE req
    /\ mail' = [mail EXCEPT ![q] = NoMail]
    /\ UNCHANGED <<fleet, sock, reg, conn, used>>

\* What is on a socket goes with it.
Lost(q) ==
    /\ mail[q].on # None
    /\ LET s == sock[mail[q].on] IN
       \/ ~s.link
       \/ mail[q].at = "down" /\ s.client = "closed"
       \/ mail[q].at = "up" /\ s.server = "closed"
    /\ mail' = [mail EXCEPT ![q] = NoMail]
    /\ UNCHANGED <<fleet, sock, reg, conn, req, used>>

TimeOutOpen(q) ==     \* seeded bug: the timer goes with the socket
    /\ req[q].pc = "waiting" /\ Has(req[q].node)
    /\ req' = [req EXCEPT ![q].pc = "timed_out"]
    /\ UNCHANGED <<fleet, sock, reg, conn, mail, used>>

\* The timer of thirty seconds, set with every entry.
TimeOut(q) ==
    /\ req[q].pc = "waiting"
    /\ req' = [req EXCEPT ![q].pc = "timed_out"]
    /\ UNCHANGED <<fleet, sock, reg, conn, mail, used>>

(***************************************************************************)
(* Removal of a node, restarts, and the network                            *)
(***************************************************************************)
RemovalStepsReversed == <<"close", "delete">>   \* seeded bug: closed while it can still dial in

\* The row goes first, then the tunnel that was opened with it.
RemovalSteps == <<"delete", "close">>

Remove(n) ==
    /\ n \in known /\ removal[n] = <<>> /\ Spend("removals")
    /\ removal' = [removal EXCEPT ![n] = RemovalSteps]
    /\ UNCHANGED <<known, alive, late, sock, reg, conn, requests>>

DeleteRow(n) ==
    /\ removal[n] # <<>> /\ Head(removal[n]) = "delete"
    /\ known' = known \ {n}
    /\ removal' = [removal EXCEPT ![n] = Tail(removal[n])]
    /\ UNCHANGED <<alive, late, sock, reg, conn, requests, used>>

FailAll(n) ==     \* seeded bug: the pending map is shared, and emptied
    [q \in Reqs |-> IF req[q].pc = "waiting" THEN [req[q] EXCEPT !.pc = "removed"] ELSE req[q]]

\* Requests that wait for this node, and only those, fail at once.
FailOwn(n) ==
    [q \in Reqs |-> IF req[q].pc = "waiting" /\ req[q].node = n
                    THEN [req[q] EXCEPT !.pc = "removed"] ELSE req[q]]

\* TunnelRegistry.close
CloseTunnel(n) ==
    /\ removal[n] # <<>> /\ Head(removal[n]) = "close"
    /\ LET s == reg[n] IN
       /\ sock' = IF s # None /\ sock[s].server = "open"
                  THEN [sock EXCEPT ![s].server = "closing"] ELSE sock
       /\ req' = IF s # None THEN FailOwn(n) ELSE req
    /\ reg' = [reg EXCEPT ![n] = None]
    /\ late' = late \cup {s \in OfNode(n) : sock[s].server = "authenticated"}
    /\ removal' = [removal EXCEPT ![n] = Tail(removal[n])]
    /\ UNCHANGED <<known, alive, conn, mail, used>>

\* A control plane that stops takes its ends, its registry and its requests along.
Restart ==
    /\ Spend("restarts")
    /\ sock' = [s \in Socks |-> IF sock[s].server = "none" THEN sock[s]
                                ELSE [sock[s] EXCEPT !.server = "closed"]]
    /\ reg' = [n \in Nodes |-> None]
    /\ req' = [q \in Reqs |-> IF req[q].pc \in Ended THEN req[q]
                              ELSE [req[q] EXCEPT !.pc = "refused"]]
    /\ removal' = [n \in Nodes |-> <<>>]
    /\ UNCHANGED <<known, alive, late, conn, mail>>

\* A NAT forgets a mapping: both ends stay as they are.
Break(s) ==
    /\ sock[s].link /\ Spend("breaks")
    /\ sock[s].server # "closed" \/ sock[s].client # "closed"
    /\ sock' = [sock EXCEPT ![s].link = FALSE]
    /\ UNCHANGED <<fleet, reg, conn, requests>>

-----------------------------------------------------------------------------
Init ==
    /\ known = Nodes /\ alive = Nodes /\ removal = [n \in Nodes |-> <<>>] /\ late = {}
    /\ sock = [s \in Socks |-> NoSock]
    /\ reg = [n \in Nodes |-> None] /\ conn = [n \in Nodes |-> None]
    /\ req = [q \in Reqs |-> [pc |-> "idle", node |-> None]]
    /\ mail = [q \in Reqs |-> NoMail] /\ used = {}

Agent(n) ==
    Dial(n) \/ AgentStops(n)
    \/ \E s \in OfNode(n) : Connected(s) \/ ReadFails(s) \/ DialFails(s)

Server(s) == Authenticate(s) \/ Register(s) \/ Closed(s) \/ Ping(s) \/ Terminate(s)

Request(q) ==
    Forward(q) \/ Resolve(q) \/ Lost(q) \/ ServeRequest(q) \/ SendResponse(q) \/ TimeOut(q)

Removal(n) == DeleteRow(n) \/ CloseTunnel(n)

Next ==
    \/ \E n \in Nodes : Agent(n) \/ Removal(n) \/ Remove(n)
                          \/ AgentRestart(n) \/ PowerOff(n) \/ PowerOn(n)
    \/ \E s \in Socks : Server(s) \/ HandshakeTimeout(s) \/ Break(s)
    \/ \E q \in Reqs : Request(q)
    \/ \E q \in Reqs, n \in Nodes : Begin(q, n)
    \/ Restart

Spec == Init /\ [][Next]_vars

\* Loops go on, timers fire and handlers are answered; no request need ever come.
Fairness ==
    /\ \A n \in Nodes : WF_vars(Agent(n)) /\ WF_vars(Removal(n))
    /\ \A s \in Socks : WF_vars(Server(s))
    /\ \A q \in Reqs : WF_vars(Request(q))

FairSpec == Spec /\ Fairness

-----------------------------------------------------------------------------
(***************************************************************************)
(* Properties                                                              *)
(***************************************************************************)

\* Every request that chose the tunnel ends, although nothing tells it that the
\* socket it went down has died (forwardHttpRequest's timer, close's rejection).
RequestsEnd == \A q \in Reqs : req[q].pc \notin Ended ~> req[q].pc \in Ended

\* After whatever breaks, times out and restarts, a node that runs is reached again
\* through a socket that both ends hold: the death of a socket that has been replaced
\* does not deregister its successor, and a dead one is not kept.
TunnelRestored ==
    \A n \in Nodes : <>[](n \in known \cap alive)
                      => <>[](Has(n) /\ Sound(reg[n]) /\ conn[n] = reg[n])

\* Ingress does not choose a tunnel that swallows everything for ever ("the
\* keepalive is what makes this answer trustworthy", registry.ts).
DeadDropped ==
    \A n \in Nodes, s \in Socks : (reg[n] = s /\ ~sock[s].link) ~> reg[n] # s

\* Removing a node fails the requests that wait for it and no others.
OnlyItsOwn == \A q \in Reqs : req[q].pc = "removed" => req[q].node \notin known

\* "Revoking a node must also close its tunnel, not only its credentials" (ADR
\* 0001): the only socket a removed node can be reached by is one whose handshake
\* was authenticated before the row went and finished after the tunnel was closed.
RevokedClosed ==
    \A n \in Nodes \ known : removal[n] = <<>> /\ reg[n] # None => reg[n] \in late

\* What the control plane holds open is what it knows the node by: no socket is left
\* open that ingress would not use and a removal would not close, while the agent at
\* its other end takes itself for connected and does not dial again (register and
\* close shut what they displace; the close handlers look before they deregister).
OpenIsRegistered == \A s \in Socks : sock[s].server = "open" => reg[sock[s].node] = s
=============================================================================
