----------------------------- MODULE SocketPool -----------------------------
(***************************************************************************)
(* Pools of sockets (socket_pool.c): how the ids that peers know each      *)
(* other by become addresses of datagrams, and back.                       *)
(*                                                                         *)
(* A pool is an array of nodes: the sockets opened in it, and the remote   *)
(* addresses met so far.  An id is a place in the array.  The place of a   *)
(* pool on the network is the pool itself; ports are never given twice.    *)
(* Peers may share a pool, as those of socket_pool.test.c do.              *)
(*                                                                         *)
(* A tick goes through its loops one iteration at a time.  Two ticks do    *)
(* not overlap: peers that share a pool run in one thread, and others      *)
(* share only the datagrams, which a tick reads before it sends any.       *)
(*                                                                         *)
(* Of a peer there is what decides where its packets come from and go to;  *)
(* what they carry is in PeerSystem.  A datagram that was sent may be      *)
(* received at any later time, any number of times, or never.              *)
(***************************************************************************)
EXTENDS Naturals, Sequences, FiniteSets, FiniteSetsExt

CONSTANTS
  Host, Clients, \* the peers
  Pools,         \* pools, which are places on the network
  PoolOf,        \* the pool that a peer's functions are called with
  MaxSlots,      \* how many slots a peer may open
  Counts,        \* how many it may open at once
  Moves,         \* TRUE when an array that grows may move, and the memory
                 \* it leaves be used again at once
  Junk, Nowhere  \* what such memory holds; no address

Peers == {Host} \cup Clients

ASSUME PoolAssumption ==
  /\ Host \notin Clients
  /\ PoolOf \in [Peers -> Pools]
  /\ MaxSlots \in [Peers -> Nat]
  /\ Counts \in [Peers -> SUBSET (Nat \ {0})]
  /\ Moves \in BOOLEAN
  /\ Junk # Nowhere /\ {Junk, Nowhere} \cap Pools = {}

VARIABLES
  nodes,   \* pool->nodes
  slots,   \* peer->slots
  wire,    \* the datagrams sent
  ports,   \* how many ports the systems gave
  closed,  \* the pools destroyed
  tick     \* the call of peer_pool_tick under way

vars == <<nodes, slots, wire, ports, closed, tick>>

AnyPort   == 0
Undefined == 0   \* PEER_UNDEFINED; ids count from 1 here

(* peer_node_t: INVALID_SOCKET goes with PEER_ANY_PORT as the local port *)
SocketNode(port) == [local |-> port, remote |-> AnyPort, at |-> Nowhere]

RemoteNode(name) == [local |-> AnyPort, remote |-> name.port, at |-> name.at]

NoName == [at |-> Nowhere, port |-> AnyPort]

(* Where the datagrams for a remote node go, and where a socket's are from. *)
RemoteName(list, id) == [at |-> list[id].at, port |-> list[id].remote]

LocalName(q, list, id) == [at |-> q, port |-> list[id].local]

(* peer_slot_t, its local and remote address: "named" is                   *)
(* remote.is_address_resolved, "resolved" is remote.is_id_resolved, an     *)
(* address of the size 3 is a name with no place                           *)
NewSlot(id) ==
  [local |-> id, known |-> FALSE, remote |-> Undefined, named |-> FALSE,
   resolved |-> FALSE, addr |-> NoName, state |-> "empty"]

Idle == [phase |-> "idle", peer |-> Host, at |-> 0, packets |-> <<>>]

Init ==
  /\ nodes = [q \in Pools |-> <<>>]
  /\ slots = [p \in Peers |-> <<>>]
  /\ wire = {}
  /\ ports = 0
  /\ closed = {}
  /\ tick = Idle

---------------------------------------------------------------------------
(* find_pool_node *)

(* A mutant: a node with the address and another port is taken for it. *)
MatchesPlace(list, name) ==
  {k \in DOMAIN list : list[k].local = AnyPort /\ list[k].at = name.at}

(* A mutant: the local port of a node is compared, which remote nodes lack. *)
MatchesLocal(list, name) ==
  {k \in DOMAIN list : list[k].local = name.port /\ list[k].at = name.at}

Matches(list, name) ==
  {k \in DOMAIN list : /\ list[k].local = AnyPort
                       /\ list[k].remote = name.port
                       /\ list[k].at = name.at}

(* A mutant: the id of a new node is counted after it is appended. *)
NodeIdPast(list, name) ==
  IF Matches(list, name) = {} THEN Len(list) + 2 ELSE Min(Matches(list, name))

NodeId(list, name) ==
  IF Matches(list, name) = {} THEN Len(list) + 1 ELSE Min(Matches(list, name))

(* The nodes after the search for name; copied is what a new one gets. *)
WithNode(list, name, copied) ==
  IF Matches(list, name) = {} THEN Append(list, RemoteNode(copied)) ELSE list

---------------------------------------------------------------------------
(* peer_pool_open, peer_pool_connect and peer_pool_destroy.  A peer_pool_open *)
(* that fails gives back the nodes it took: it changes nothing.            *)

Runs(p) == tick.phase = "idle" /\ PoolOf[p] \notin closed

Sockets(count) == [k \in 1..count |-> SocketNode(ports + k)]

NewSlots(n, count) == [k \in 1..count |-> NewSlot(n + k)]

PoolOpen(p, count) ==
  LET q == PoolOf[p] IN
  /\ Runs(p)
  /\ Len(slots[p]) + count <= MaxSlots[p]
  /\ nodes' = [nodes EXCEPT ![q] = @ \o Sockets(count)]
  /\ slots' = [slots EXCEPT ![p] = @ \o NewSlots(Len(nodes[q]), count)]
  /\ ports' = ports + count
  /\ UNCHANGED <<wire, closed, tick>>

(* peer_connect: the first slot with no remote id takes the server's. *)
FreeSlots(list) == {i \in DOMAIN list : list[i].remote = Undefined}

Connected(list, id) ==
  [list EXCEPT ![Min(FreeSlots(list))].remote = id,
               ![Min(FreeSlots(list))].resolved = TRUE,
               ![Min(FreeSlots(list))].addr = NoName]

(* What is asked of a client: to connect once, to the first socket of a    *)
(* host that has opened its sockets.                                       *)
MayConnect(c) ==
  /\ Runs(c)
  /\ PoolOf[Host] \notin closed
  /\ slots[Host] # <<>>
  /\ \A i \in DOMAIN slots[c] : slots[c][i].remote = Undefined

HostName ==
  LocalName(PoolOf[Host], nodes[PoolOf[Host]], slots[Host][1].local)

PoolConnect(c) ==
  LET q     == PoolOf[c]
      found == WithNode(nodes[q], HostName, HostName)
      id    == NodeId(nodes[q], HostName)
  IN  /\ MayConnect(c)
      /\ FreeSlots(slots[c]) # {}
      /\ nodes' = [nodes EXCEPT ![q] = found]
      /\ slots' = [slots EXCEPT ![c] = Connected(@, id)]
      /\ UNCHANGED <<wire, ports, closed, tick>>

(* No slot is free: a socket is opened for one. *)
PoolConnectOpen(c) ==
  LET q     == PoolOf[c]
      found == WithNode(nodes[q], HostName, HostName)
      id    == NodeId(nodes[q], HostName)
  IN  /\ MayConnect(c)
      /\ FreeSlots(slots[c]) = {}
      /\ nodes' = [nodes EXCEPT ![q] = found \o Sockets(1)]
      /\ slots' = [slots EXCEPT
                     ![c] = Connected(@ \o NewSlots(Len(found), 1), id)]
      /\ ports' = ports + 1
      /\ UNCHANGED <<wire, closed, tick>>

(* The socket cannot be opened: the node of the server stays. *)
PoolConnectFails(c) ==
  /\ MayConnect(c)
  /\ FreeSlots(slots[c]) = {}
  /\ nodes' = [nodes EXCEPT ![PoolOf[c]] = WithNode(@, HostName, HostName)]
  /\ UNCHANGED <<slots, wire, ports, closed, tick>>

(* The peers of the pool are destroyed before it. *)
PoolDestroy(q) ==
  /\ tick.phase = "idle"
  /\ q \notin closed
  /\ closed' = closed \cup {q}
  /\ nodes' = [nodes EXCEPT ![q] = <<>>]
  /\ slots' = [p \in Peers |-> IF PoolOf[p] = q THEN <<>> ELSE slots[p]]
  /\ UNCHANGED <<wire, ports, tick>>

---------------------------------------------------------------------------
(* peer_pool_tick *)

TickBegin(p) ==
  /\ Runs(p)
  /\ tick' = [phase |-> "resolve", peer |-> p, at |-> 1, packets |-> <<>>]
  /\ UNCHANGED <<nodes, slots, wire, ports, closed>>

(* The peer of the tick, its pool, and the slot or node whose turn it is. *)
Pool == PoolOf[tick.peer]

List == nodes[Pool]

Ours == slots[tick.peer]

Step == [tick EXCEPT !.at = @ + 1]

Phase(name) == [tick EXCEPT !.phase = name, !.at = 1]

(* resolve_address_and_id: "Get local port by id", "Get remote address and *)
(* port by id"                                                             *)
Addressed(s) ==
  LET known == [s EXCEPT !.known = TRUE]
  IN  IF ~s.named /\ s.remote # Undefined
      THEN [known EXCEPT !.addr = RemoteName(List, s.remote), !.named = TRUE]
      ELSE known

(* "Get remote id by port and previous id" *)
ByPreviousId(s) ==
  ~s.resolved /\ s.addr.at = Nowhere /\ s.addr # NoName /\ s.remote # Undefined

(* "Get remote id by address and port" *)
ByAddress(s) == ~s.resolved /\ s.addr.at # Nowhere

(* A mutant: the id is looked for by the previous id's port. *)
WantedOld(s) == RemoteName(List, s.remote)

Wanted(s) ==
  IF ByPreviousId(s) THEN [s.addr EXCEPT !.at = List[s.remote].at] ELSE s.addr

(* What memcpy may copy into a new node: the address it is given is that   *)
(* of the previous id's node, in the array that has just grown.            *)
Copied(s) ==
  IF ByPreviousId(s) /\ Moves
  THEN {Wanted(s), [Wanted(s) EXCEPT !.at = Junk]}
  ELSE {Wanted(s)}

ResolveSlot ==
  /\ tick.phase = "resolve" /\ tick.at <= Len(Ours)
  /\ LET s == Addressed(Ours[tick.at])
     IN  IF ByPreviousId(s) \/ ByAddress(s)
         THEN \E copied \in Copied(s) :
                /\ nodes' = [nodes EXCEPT
                               ![Pool] = WithNode(@, Wanted(s), copied)]
                /\ slots' = [slots EXCEPT
                     ![tick.peer][tick.at] =
                        [s EXCEPT !.remote = NodeId(List, Wanted(s)),
                                  !.resolved = TRUE]]
         ELSE /\ slots' = [slots EXCEPT ![tick.peer][tick.at] = s]
              /\ UNCHANGED nodes
  /\ tick' = Step
  /\ UNCHANGED <<wire, ports, closed>>

Resolved ==
  /\ tick.phase = "resolve" /\ tick.at > Len(Ours)
  /\ tick' = Phase("receive")
  /\ UNCHANGED <<nodes, slots, wire, ports, closed>>

(* A node that is no socket, or a socket with nothing to receive *)
NothingReceived ==
  /\ tick.phase = "receive" /\ tick.at <= Len(List)
  /\ tick' = Step
  /\ UNCHANGED <<nodes, slots, wire, ports, closed>>

(* One datagram is received from a socket, whichever peer opened it. *)
Receive(d) ==
  /\ tick.phase = "receive" /\ tick.at <= Len(List)
  /\ List[tick.at].local # AnyPort
  /\ d.to = LocalName(Pool, List, tick.at)
  /\ nodes' = [nodes EXCEPT ![Pool] = WithNode(@, d.from, d.from)]
  /\ tick' = [Step EXCEPT !.packets =
                Append(@, [src |-> NodeId(List, d.from), dst |-> tick.at,
                           response |-> d.response])]
  /\ UNCHANGED <<slots, wire, ports, closed>>

Received ==
  /\ tick.phase = "receive" /\ tick.at > Len(List)
  /\ tick' = Phase("input")
  /\ UNCHANGED <<nodes, slots, wire, ports, closed>>

(* peer_input, of one packet *)

(* The slots a packet belongs to, and those the host has for a new client. *)
Addressees(packet) ==
  {i \in DOMAIN Ours : /\ Ours[i].local = packet.dst
                       /\ Ours[i].remote = packet.src}

Intended(packet) == \E i \in DOMAIN Ours : Ours[i].local = packet.dst

Assignable ==
  {i \in FreeSlots(Ours) \ {1} : Ours[i].known}

(* The first slot of a host that no client has is there for new clients:   *)
(* it is not connected.                                                    *)
Accepts(packet) ==
  /\ tick.peer = Host /\ Addressees(packet) = {} /\ Intended(packet)
  /\ Ours[1].remote = Undefined /\ Assignable # {}

Answers(packet) ==
  /\ tick.peer # Host /\ Addressees(packet) # {}
  /\ packet.response # AnyPort

Assign(packet) ==
  LET i == Min(Assignable)
  IN  [Ours EXCEPT ![i].state = "request",
                   ![i].remote = packet.src,
                   ![i].resolved = TRUE]

SessionResponse(packet) ==
  LET i == Min(Addressees(packet))
  IN  [Ours EXCEPT ![i].resolved = FALSE,
                   ![i].addr = [at |-> Nowhere, port |-> packet.response]]

Input ==
  /\ tick.phase = "input" /\ tick.packets # <<>>
  /\ LET packet == Head(tick.packets)
     IN  slots' = [slots EXCEPT
                     ![tick.peer] = IF Accepts(packet) THEN Assign(packet)
                                    ELSE IF Answers(packet)
                                         THEN SessionResponse(packet)
                                         ELSE @]
  /\ tick' = [tick EXCEPT !.packets = Tail(@)]
  /\ UNCHANGED <<nodes, wire, ports, closed>>

InputDone ==
  /\ tick.phase = "input" /\ tick.packets = <<>>
  /\ tick' = Phase("send")
  /\ UNCHANGED <<nodes, slots, wire, ports, closed>>

(* peer_tick, and the loop that gives its packets to sendto *)

(* A mutant: the response tells the port it is sent from. *)
ResponseAlone(s) ==
  [from |-> LocalName(Pool, List, Ours[1].local),
   to |-> RemoteName(List, s.remote), response |-> List[Ours[1].local].local]

(* The session response comes from the first socket. *)
Response(s) ==
  [from |-> LocalName(Pool, List, Ours[1].local),
   to |-> RemoteName(List, s.remote), response |-> List[s.local].local]

(* Messages or a heartbeat *)
Data(s) ==
  [from |-> LocalName(Pool, List, s.local),
   to |-> RemoteName(List, s.remote), response |-> AnyPort]

Sending == tick.phase = "send" /\ tick.at <= Len(Ours)

SendResponse ==
  /\ Sending
  /\ tick.peer = Host /\ Ours[tick.at].state = "request"
  /\ wire' = wire \cup {Response(Ours[tick.at])}
  /\ slots' = [slots EXCEPT ![Host][tick.at].state = "ready"]
  /\ tick' = Step
  /\ UNCHANGED <<nodes, ports, closed>>

(* A client sends from its first slot, whose remote id may be undefined. *)
Sends(s) ==
  IF tick.peer = Host THEN s.state = "ready"
                      ELSE tick.at = 1 /\ s.remote # Undefined

SendData ==
  /\ Sending
  /\ Sends(Ours[tick.at])
  /\ wire' = wire \cup {Data(Ours[tick.at])}
  /\ tick' = Step
  /\ UNCHANGED <<nodes, slots, ports, closed>>

(* Nothing to send before the next heartbeat, or a packet to the id -1,    *)
(* which is dropped.                                                       *)
NothingSent ==
  /\ Sending
  /\ Ours[tick.at].state # "request"
  /\ tick' = Step
  /\ UNCHANGED <<nodes, slots, wire, ports, closed>>

TickEnd ==
  /\ tick.phase = "send" /\ tick.at > Len(Ours)
  /\ tick' = Idle
  /\ UNCHANGED <<nodes, slots, wire, ports, closed>>

---------------------------------------------------------------------------
Next ==
  \/ \E p \in Peers : \E count \in Counts[p] : PoolOpen(p, count)
  \/ \E c \in Clients : PoolConnect(c)
  \/ \E c \in Clients : PoolConnectOpen(c)
  \/ \E c \in Clients : PoolConnectFails(c)
  \/ \E q \in Pools : PoolDestroy(q)
  \/ \E p \in Peers : TickBegin(p)
  \/ ResolveSlot \/ Resolved
  \/ NothingReceived \/ (\E d \in wire : Receive(d)) \/ Received
  \/ Input \/ InputDone
  \/ SendResponse \/ SendData \/ NothingSent \/ TickEnd

Spec == Init /\ [][Next]_vars

---------------------------------------------------------------------------
Places == Pools \cup {Junk, Nowhere}

Name == [at : Places, port : Nat]

Node == [local : Nat, remote : Nat, at : Places]

Slot == [local : Nat, known : BOOLEAN, remote : Nat, named : BOOLEAN,
         resolved : BOOLEAN, addr : Name, state : {"empty", "request", "ready"}]

Datagram == [from : Name, to : Name, response : Nat]

Packet == [src : Nat, dst : Nat, response : Nat]

TypeOK ==
  /\ nodes \in [Pools -> Seq(Node)]
  /\ slots \in [Peers -> Seq(Slot)]
  /\ wire \subseteq Datagram
  /\ ports \in Nat
  /\ closed \subseteq Pools
  /\ tick \in [phase : {"idle", "resolve", "receive", "input", "send"},
               peer : Peers, at : Nat, packets : Seq(Packet)]

IsSocket(list, id) == id \in DOMAIN list /\ list[id].local # AnyPort

IsRemote(list, id) == id \in DOMAIN list /\ list[id].local = AnyPort

(* What the assertions on ids say in resolve_address_and_id and where      *)
(* packets are sent: the ids of slots, and of the packets given to         *)
(* peer_input, are places in the array of the peer's pool, and stand for   *)
(* sockets and remote addresses, never one for the other, whatever a pool  *)
(* shared with other peers has gone through.                               *)
IdsValid ==
  /\ \A p \in Peers : \A i \in DOMAIN slots[p] :
       /\ IsSocket(nodes[PoolOf[p]], slots[p][i].local)
       /\ \/ slots[p][i].remote = Undefined
          \/ IsRemote(nodes[PoolOf[p]], slots[p][i].remote)
  /\ \A n \in DOMAIN tick.packets :
       /\ IsSocket(List, tick.packets[n].dst)
       /\ IsRemote(List, tick.packets[n].src)

(* An address has one id in a pool.  peer_input tells clients apart by     *)
(* their ids: with two of them a client would be taken for a new one at    *)
(* each datagram that came in under the other, and use up the slots.       *)
NodesDistinct ==
  \A q \in Pools : \A k, l \in DOMAIN nodes[q] :
    nodes[q][k] = nodes[q][l] => k = l

(* The names of a slot's own socket and of the peer at its other end. *)
Own(p, s) == LocalName(PoolOf[p], nodes[PoolOf[p]], s.local)

Other(p, s) == RemoteName(nodes[PoolOf[p]], s.remote)

Taken(p) ==
  {slots[p][i] : i \in {j \in DOMAIN slots[p] :
                          slots[p][j].remote # Undefined}}

Answered(s) == s.resolved /\ s.addr.at = Nowhere /\ s.addr # NoName

(* Once a client has found the id for the port it was told in the session  *)
(* response, it and the host agree, in ids of two different arrays: it     *)
(* sends to the socket of a slot of the host, and that slot sends to the   *)
(* client's socket.  No slot of the host is given to anything but a        *)
(* client's socket.                                                        *)
Routed ==
  /\ \A c \in Clients : PoolOf[Host] \notin closed =>
       \A s \in Taken(c) : Answered(s) =>
         \E h \in Taken(Host) : /\ Own(Host, h) = Other(c, s)
                                /\ Other(Host, h) = Own(c, s)
  /\ (\A q \in Pools : q \notin closed) =>
       \A h \in Taken(Host) : \E c \in Clients : \E s \in Taken(c) :
         Other(Host, h) = Own(c, s)

(* "Get remote id by port and previous id": the id that a slot has         *)
(* resolved stands for the place of the previous id and the port told in   *)
(* the session response.                                                   *)
ResolvedByPreviousId ==
  [][\A p \in Peers : \A i \in DOMAIN slots[p] \cap DOMAIN slots'[p] :
       LET s == slots[p][i] IN
       (~s.resolved /\ s.remote # Undefined /\ slots'[p][i].resolved)
          => RemoteName(nodes'[PoolOf[p]], slots'[p][i].remote) =
               [at |-> nodes[PoolOf[p]][s.remote].at, port |-> s.addr.port]]_vars

===========================================================================
