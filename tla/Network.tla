------------------------------ MODULE Network ------------------------------
(* The network of the nodes, p2p2: each node has a loop that takes commands  *)
(* and the events of its libp2p swarm one at a time, a table of connected    *)
(* peers for broadcasts, and the whitelist of addresses.                     *)
(*                                                                           *)
(* libp2p itself is external: connections open and close, several may be     *)
(* open between two nodes, and a request or its response is lost at any      *)
(* time. The address of a node is the node.                                  *)
EXTENDS Naturals, Sequences, SequencesExt

CONSTANTS Nodes,
          Peers,       \* Peers[n]: config.p2p.dial of n
          Whitelist,   \* Whitelist[n]: whitelisted_ips of n
          MaxConns,    \* bound: connections ever opened
          MaxEvents    \* bound: events sent or broadcast

VARIABLES
  conns,       \* open connections: [id, dialer, listener]
  opened,      \* number of connections so far
  dialing,     \* swarm.dial in progress: [from, to, by]
  toDial,      \* toDial[n]: peers Node::run of n has still to dial
  swarm,       \* swarm[n]: events select_next_some will return
  netout,      \* netout[n]: commands for the loop
  requests,    \* requests[n]: the requests whose sender waits
  connected,   \* connected[n]: connected_peers
  wire,        \* requests and responses on their way
  netin,       \* netin[n]: received events that nobody has taken yet
  heard,       \* history: heard[n], events taken by next
  notified,    \* history: requests whose sender was notified
  sentEvents,  \* number of events so far
  closed       \* history: closed[n], peers of which n saw a connection close

netVars == <<conns, opened, dialing, toDial, swarm, netout, requests, connected, wire, netin,
             heard, notified, sentEvents, closed>>

Open(n) ==
  {m \in Nodes : \E c \in conns : {c.dialer, c.listener} = {n, m}} \ {n}

Received(n) == heard[n] \o netin[n]

Emit(n, e) == [swarm EXCEPT ![n] = Append(@, e)]

Connection(kind, peer) == [kind |-> kind, peer |-> peer]

NetworkInit ==
  /\ conns = {}
  /\ opened = 0
  \* Network::new dials every address, and Node::run dials it again
  /\ dialing = UNION {{[from |-> n, to |-> m, by |-> "new"] : m \in Peers[n]} : n \in Nodes}
  /\ toDial = Peers
  /\ swarm = [n \in Nodes |-> << >>]
  /\ netout = [n \in Nodes |-> << >>]
  /\ requests = [n \in Nodes |-> {}]
  /\ connected = [n \in Nodes |-> {}]
  /\ wire = {}
  /\ netin = [n \in Nodes |-> << >>]
  /\ heard = [n \in Nodes |-> << >>]
  /\ notified = {}
  /\ sentEvents = 0
  /\ closed = [n \in Nodes |-> {}]

-----------------------------------------------------------------------------
(* libp2p.                                                                   *)

(* handle_established_inbound_connection, which only a whitelist that is     *)
(* not empty takes part in.                                                  *)
Allowed(n, ip) == Whitelist[n] = {} \/ ip \in Whitelist[n]

(* A dial succeeds. A listener that denies it closes the connection the      *)
(* dialer has already seen.                                                  *)
Establish(d) ==
  /\ dialing' = dialing \ {d}
  /\ IF Allowed(d.to, d.from)
       THEN /\ opened < MaxConns
            /\ opened' = opened + 1
            /\ conns' = conns \cup {[id |-> opened', dialer |-> d.from, listener |-> d.to]}
            /\ swarm' = [swarm EXCEPT ![d.from] = Append(@, Connection("established", d.to)),
                                      ![d.to] = Append(@, Connection("established", d.from))]
       ELSE /\ swarm' = [swarm EXCEPT ![d.from] = @ \o <<Connection("established", d.to),
                                                         Connection("closed", d.to)>>]
            /\ UNCHANGED <<conns, opened>>
  /\ UNCHANGED <<toDial, netout, requests, connected, wire, netin, heard, notified,
                 sentEvents, closed>>

Close(c) ==
  /\ conns' = conns \ {c}
  /\ swarm' = [swarm EXCEPT ![c.dialer] = Append(@, Connection("closed", c.listener)),
                            ![c.listener] = Append(@, Connection("closed", c.dialer))]
  /\ UNCHANGED <<opened, dialing, toDial, netout, requests, connected, wire, netin, heard,
                 notified, sentEvents, closed>>

(* A request or a response arrives ...                                       *)
Arrive(w) ==
  /\ w.from \in Open(w.to)
  /\ wire' = wire \ {w}
  /\ swarm' = Emit(w.to, w)
  /\ UNCHANGED <<conns, opened, dialing, toDial, netout, requests, connected, netin, heard,
                 notified, sentEvents, closed>>

(* ... or is lost, and the node that waits for the response is told of the   *)
(* failure.                                                                  *)
Lose(w) ==
  /\ wire' = wire \ {w}
  /\ swarm' = Emit(IF w.kind = "request" THEN w.from ELSE w.to, [kind |-> "failure"])
  /\ UNCHANGED <<conns, opened, dialing, toDial, netout, requests, connected, netin, heard,
                 notified, sentEvents, closed>>

-----------------------------------------------------------------------------
(* Operations of the Network.                                                *)

Request(n, m) == [kind |-> "request", from |-> n, to |-> m, event |-> sentEvents + 1]

SendCommand(n, m) == [cmd |-> "send", request |-> Request(n, m)]

(* dial.                                                                     *)
DialCommand(m) == [cmd |-> "dial", peer |-> m]

(* Node::run dials its peers one after the other, and waits for each.        *)
Dial(n, m) ==
  /\ m \in toDial[n]
  /\ \A i \in DOMAIN netout[n] : netout[n][i].cmd # "dial"
  /\ netout' = [netout EXCEPT ![n] = Append(@, DialCommand(m))]
  /\ toDial' = [toDial EXCEPT ![n] = @ \ {m}]
  /\ UNCHANGED <<conns, opened, dialing, swarm, requests, connected, wire, netin, heard,
                 notified, sentEvents, closed>>

(* send: not to itself.                                                      *)
Send(n, m) ==
  /\ sentEvents < MaxEvents
  /\ sentEvents' = sentEvents + 1
  /\ netout' = IF n = m THEN netout
               ELSE [netout EXCEPT ![n] = Append(@, SendCommand(n, m))]
  /\ UNCHANGED <<conns, opened, dialing, toDial, swarm, requests, connected, wire, netin, heard,
                 notified, closed>>

(* send_all: to the peers of the table, in any order.                        *)
SendAll(n) ==
  /\ sentEvents < MaxEvents
  /\ sentEvents' = sentEvents + 1
  /\ \E order \in SetToSeqs(connected[n] \ {n}) :
       netout' = [netout EXCEPT ![n] = @ \o [i \in DOMAIN order |-> SendCommand(n, order[i])]]
  /\ UNCHANGED <<conns, opened, dialing, toDial, swarm, requests, connected, wire, netin, heard,
                 notified, closed>>

(* next.                                                                     *)
TakeEvent(n) ==
  /\ netin[n] # << >>
  /\ heard' = [heard EXCEPT ![n] = Append(@, Head(netin[n]))]
  /\ netin' = [netin EXCEPT ![n] = Tail(@)]
  /\ UNCHANGED <<conns, opened, dialing, toDial, swarm, netout, requests, connected, wire,
                 notified, sentEvents, closed>>

-----------------------------------------------------------------------------
(* The loop.                                                                 *)

(* A command. A request to a peer without a connection fails: libp2p knows   *)
(* no address of it.                                                         *)
RunCommand(n) ==
  /\ netout[n] # << >>
  /\ netout' = [netout EXCEPT ![n] = Tail(@)]
  /\ LET c == Head(netout[n])
     IN \/ /\ c.cmd = "send"
           /\ requests' = [requests EXCEPT ![n] = @ \cup {c.request}]
           /\ IF c.request.to \in Open(n)
                THEN wire' = wire \cup {c.request} /\ UNCHANGED swarm
                ELSE swarm' = Emit(n, [kind |-> "failure"]) /\ UNCHANGED wire
           /\ UNCHANGED dialing
        \/ /\ c.cmd = "dial"
           /\ dialing' = dialing \cup {[from |-> n, to |-> c.peer, by |-> "run"]}
           /\ UNCHANGED <<requests, wire, swarm>>
  /\ UNCHANGED <<conns, opened, toDial, connected, netin, heard, notified, sentEvents, closed>>

add_peer(n, peer) == connected' = [connected EXCEPT ![n] = @ \cup {peer}]

(* Mutant: a peer stays in the table.                                        *)
keep_peer(n, peer) == UNCHANGED connected

remove_peer(n, peer) == connected' = [connected EXCEPT ![n] = @ \ {peer}]

ConnectionEstablished(n, e) ==
  /\ e.kind = "established"
  /\ add_peer(n, e.peer)
  /\ UNCHANGED <<requests, notified, netin, wire, closed>>

ConnectionClosed(n, e) ==
  /\ e.kind = "closed"
  /\ remove_peer(n, e.peer)
  /\ closed' = [closed EXCEPT ![n] = @ \cup {e.peer}]
  /\ UNCHANGED <<requests, notified, netin, wire>>

(* The event is handed on and the response sent, if there is a connection.   *)
ReceiveRequest(n, e) ==
  /\ e.kind = "request"
  /\ netin' = [netin EXCEPT ![n] = Append(@, [from |-> e.from, event |-> e.event])]
  /\ wire' = IF e.from \in Open(n)
               THEN wire \cup {[e EXCEPT !.kind = "response", !.from = n, !.to = e.from]}
               ELSE wire
  /\ UNCHANGED <<requests, notified, connected, closed>>

ReceiveResponse(n, e) ==
  /\ e.kind = "response"
  /\ LET waiting == {r \in requests[n] : r.event = e.event /\ r.to = e.from}
     IN /\ requests' = [requests EXCEPT ![n] = @ \ waiting]
        /\ notified' = notified \cup waiting
  /\ UNCHANGED <<connected, netin, wire, closed>>

(* Every other event is only logged, a failed request too: its sender stays  *)
(* in requests.                                                              *)
OtherEvent(n, e) ==
  /\ e.kind = "failure"
  /\ UNCHANGED <<requests, notified, netin, wire, connected, closed>>

HandleEvent(n) ==
  /\ swarm[n] # << >>
  /\ swarm' = [swarm EXCEPT ![n] = Tail(@)]
  /\ LET e == Head(swarm[n])
     IN \/ ConnectionEstablished(n, e) \/ ConnectionClosed(n, e)
        \/ ReceiveRequest(n, e) \/ ReceiveResponse(n, e) \/ OtherEvent(n, e)
  /\ UNCHANGED <<conns, opened, dialing, toDial, netout, heard, sentEvents>>

NetworkNext ==
  \/ \E d \in dialing : Establish(d)
  \/ \E n, m \in Nodes : Dial(n, m) \/ Send(n, m)
  \/ \E c \in conns : Close(c)
  \/ \E w \in wire : Arrive(w) \/ Lose(w)
  \/ \E n \in Nodes : SendAll(n) \/ TakeEvent(n) \/ RunCommand(n) \/ HandleEvent(n)

NetworkSpec == NetworkInit /\ [][NetworkNext]_netVars

-----------------------------------------------------------------------------
(* Once a node has handled its connection events, its table of peers names   *)
(* only peers it is connected to, so that no broadcast waits for a peer      *)
(* that is gone; and it misses a peer only after one of the connections      *)
(* with that peer was closed: ConnectionClosed removes the peer even if      *)
(* another connection stays open.                                            *)
TableOfPeers ==
  \A n \in Nodes :
    (\A i \in DOMAIN swarm[n] : swarm[n][i].kind \notin {"established", "closed"}) =>
      /\ connected[n] \subseteq Open(n)
      /\ Open(n) \ connected[n] \subseteq closed[n]

(* An event reaches a peer at most once and only the peer it was sent to,    *)
(* never its sender; and who is told that a request is complete knows that   *)
(* the event was handed to the peer.                                         *)
HeardOnce ==
  /\ \A n \in Nodes : LET r == Received(n) IN
       /\ IsInjective(r)
       /\ \A i \in DOMAIN r : r[i].from # n
  /\ \A q \in notified : [from |-> q.from, event |-> q.event] \in ToSet(Received(q.to))

(* With a whitelist a node hears only from the addresses on it and from      *)
(* those it dials itself.                                                    *)
AdmittedOnly ==
  \A n \in Nodes : \A i \in DOMAIN Received(n) :
    LET from == Received(n)[i].from
    IN Whitelist[n] = {} \/ from \in Whitelist[n] \/ from \in Peers[n]
=============================================================================
