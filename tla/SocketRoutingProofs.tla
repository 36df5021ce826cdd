------------------------ MODULE SocketRoutingProofs ------------------------
(***************************************************************************)
(* A client and the host agree on the sockets they use, each in the ids of *)
(* its own pool: the answer of the host, which names a port, leads the     *)
(* client to the socket of the slot that the host has given it.            *)
(***************************************************************************)
EXTENDS SocketPoolProofs

(* The host has given a slot, with a socket of this port, to a client. *)
HostSlotFor(port, name) ==
  \E j \in DOMAIN slots[Host] :
    /\ slots[Host][j].remote # Undefined
    /\ Own(Host, slots[Host][j]).port = port
    /\ Other(Host, slots[Host][j]) = name

(* The name of the socket of a client that has connected. *)
ClientSocket(name) ==
  \E c \in Clients : \E j \in DOMAIN slots[c] :
    /\ slots[c][j].remote # Undefined
    /\ Own(c, slots[c][j]) = name

HostOpen == PoolOf[Host] \notin closed

(* What tells one socket of a pool from another is its port. *)
Shaped(list) ==
  \A k \in DOMAIN list :
    list[k].local # AnyPort => list[k].remote = AnyPort /\ list[k].at = Nowhere

SocketNodes == \A q \in Pools : Shaped(nodes[q])

(* Peers that share a pool share no socket. *)
Apart ==
  \A p, r \in Peers : p # r /\ PoolOf[p] = PoolOf[r] =>
    \A i \in DOMAIN slots[p], j \in DOMAIN slots[r] :
      slots[p][i].local # slots[r][j].local

(* The id of a client, once given to a slot of the host, is not looked up. *)
Given(h) ==
  h.remote # Undefined => /\ h.resolved
                          /\ closed = {} => ClientSocket(Other(Host, h))

HostSlots == \A j \in DOMAIN slots[Host] : Given(slots[Host][j])

(* A client sends to the host's place, and a port it was told is that of   *)
(* a slot the host has given it.                                           *)
Bound(c, s) ==
  s.remote # Undefined =>
    /\ Other(c, s).at = PoolOf[Host]
    /\ HostOpen /\ Told(s) => /\ HostSlotFor(s.addr.port, Own(c, s))
                              /\ s.resolved => Other(c, s).port = s.addr.port

ClientSlots ==
  \A c \in Clients : \A j \in DOMAIN slots[c] : Bound(c, slots[c][j])

(* Datagrams that are still to be received, or received again. *)
Lawful(d) ==
  /\ HostOpen /\ d.response # AnyPort => HostSlotFor(d.response, d.to)
  /\ closed = {} => ClientSocket(d.from) \/ ClientSocket(d.to)

WireOK == \A d \in wire : Lawful(d)

(* A packet in hand is a datagram, by the ids of the pool. *)
Carries(x, d) ==
  /\ d.to = LocalName(Pool, List, x.dst)
  /\ d.from = RemoteName(List, x.src)
  /\ d.response = x.response

HandOK ==
  \A n \in DOMAIN tick.packets : \E d \in wire : Carries(tick.packets[n], d)

WInv ==
  /\ SocketNodes
  /\ Apart
  /\ HostSlots
  /\ ClientSlots
  /\ WireOK
  /\ HandOK

FInv == IInv /\ DInv /\ RInv /\ WInv

---------------------------------------------------------------------------
(* Steps that destroy nothing *)

SlotKept(p, s, t) ==
  /\ t.local = s.local
  /\ s.remote # Undefined => /\ t.remote # Undefined
                             /\ p = Host => t.remote = s.remote

Keeps ==
  /\ Growth
  /\ UNCHANGED closed
  /\ wire \subseteq wire'
  /\ \A p \in Peers :
       /\ DOMAIN slots[p] \subseteq DOMAIN slots'[p]
       /\ \A i \in DOMAIN slots[p] : SlotKept(p, slots[p][i], slots'[p][i])

LEMMA SlotTyped ==
  ASSUME IInv, NEW p \in Peers, NEW i \in DOMAIN slots[p]
  PROVE  /\ slots[p][i] \in Slot
         /\ SlotOK(nodes[PoolOf[p]], slots[p][i])
         /\ nodes[PoolOf[p]] \in Seq(Node)
<1>1. TypeOK /\ SlotsOK
  BY DEF IInv
<1>2. slots[p] \in Seq(Slot)
  BY <1>1 DEF TypeOK
<1>. QED
  BY <1>1, <1>2, PoolOfPeer DEF TypeOK, SlotsOK

(* A name means the same while arrays grow. *)
LEMMA NamesKept ==
  ASSUME IInv, Growth, NEW p \in Peers, NEW s, SlotOK(nodes[PoolOf[p]], s),
         NEW t
  PROVE  /\ t.local = s.local => Own(p, t)' = Own(p, s)
         /\ s.remote # Undefined /\ t.remote = s.remote =>
              Other(p, t)' = Other(p, s)
<1>. DEFINE q == PoolOf[p]
<1>1. q \in Pools /\ nodes[q] \in Seq(Node)
  BY PoolOfPeer DEF IInv, TypeOK
<1>2. /\ s.local \in 1..Len(nodes[q])
      /\ s.remote # Undefined => s.remote \in 1..Len(nodes[q])
  BY <1>1 DEF SlotOK, IsSocket, IsRemote
<1>3. \A k \in 1..Len(nodes[q]) : nodes'[q][k] = nodes[q][k]
  BY <1>1 DEF Growth, Grown
<1>. QED
  BY <1>2, <1>3 DEF Own, Other, LocalName, RemoteName

LEMMA HostSlotForKept ==
  ASSUME IInv, Keeps, NEW port, NEW name, HostSlotFor(port, name)
  PROVE  HostSlotFor(port, name)'
<1>1. Host \in Peers
  BY DEF Peers
<1>2. PICK j \in DOMAIN slots[Host] :
        /\ slots[Host][j].remote # Undefined
        /\ Own(Host, slots[Host][j]).port = port
        /\ Other(Host, slots[Host][j]) = name
  BY DEF HostSlotFor
<1>3. PICK s : s = slots[Host][j]
  OBVIOUS
<1>4. PICK t : t = slots'[Host][j]
  OBVIOUS
<1>5. /\ j \in DOMAIN slots'[Host]
      /\ t.local = s.local /\ t.remote = s.remote /\ t.remote # Undefined
  BY <1>1, <1>2, <1>3, <1>4 DEF Keeps, SlotKept
<1>6. Own(Host, t)' = Own(Host, s) /\ Other(Host, t)' = Other(Host, s)
  <2>1. SlotOK(nodes[PoolOf[Host]], s) /\ Growth
    BY <1>1, <1>2, <1>3, SlotTyped DEF Keeps
  <2>. QED
    BY <1>1, <1>2, <1>3, <1>5, <2>1, NamesKept
<1>. QED
  BY <1>2, <1>3, <1>4, <1>5, <1>6 DEF HostSlotFor

LEMMA ClientSocketKept ==
  ASSUME IInv, Keeps, NEW name, ClientSocket(name)
  PROVE  ClientSocket(name)'
<1>1. PICK c \in Clients : \E j \in DOMAIN slots[c] :
        slots[c][j].remote # Undefined /\ Own(c, slots[c][j]) = name
  BY DEF ClientSocket
<1>2. PICK j \in DOMAIN slots[c] :
        slots[c][j].remote # Undefined /\ Own(c, slots[c][j]) = name
  BY <1>1
<1>3. PICK s : s = slots[c][j]
  OBVIOUS
<1>4. PICK t : t = slots'[c][j]
  OBVIOUS
<1>5. c \in Peers
  BY DEF Peers
<1>6. /\ j \in DOMAIN slots'[c]
      /\ t.local = s.local /\ t.remote # Undefined
  BY <1>2, <1>3, <1>4, <1>5 DEF Keeps, SlotKept
<1>7. Own(c, t)' = Own(c, s)
  <2>1. SlotOK(nodes[PoolOf[c]], s) /\ Growth
    BY <1>2, <1>3, <1>5, SlotTyped DEF Keeps
  <2>. QED
    BY <1>5, <1>6, <2>1, NamesKept
<1>. QED
  BY <1>2, <1>3, <1>4, <1>6, <1>7 DEF ClientSocket

LEMMA LawfulKept ==
  ASSUME IInv, Keeps, NEW d, Lawful(d)
  PROVE  Lawful(d)'
<1>1. HostOpen' <=> HostOpen
  BY DEF Keeps, HostOpen
<1>2. PICK port : port = d.response
  OBVIOUS
<1>3. PICK a : a = d.to
  OBVIOUS
<1>4. PICK b : b = d.from
  OBVIOUS
<1>5. /\ HostSlotFor(port, a) => HostSlotFor(port, a)'
      /\ ClientSocket(a) => ClientSocket(a)'
      /\ ClientSocket(b) => ClientSocket(b)'
  BY HostSlotForKept, ClientSocketKept
<1>. QED
  BY <1>1, <1>2, <1>3, <1>4, <1>5 DEF Lawful, Keeps

(* A packet in hand keeps its meaning while the same tick goes on. *)
LEMMA CarriesKept ==
  ASSUME IInv, Growth, tick'.peer = tick.peer, NEW x, PacketOK(List, x),
         NEW d, Carries(x, d)
  PROVE  Carries(x, d)'
<1>1. Pool \in Pools /\ List \in Seq(Node) /\ List = nodes[Pool]
  BY TickTyped DEF IInv, List
<1>2. Pool' = Pool /\ List' = nodes'[Pool]
  BY DEF Pool, List
<1>3. x.dst \in 1..Len(List) /\ x.src \in 1..Len(List)
  BY <1>1 DEF PacketOK, IsSocket, IsRemote
<1>4. \A k \in 1..Len(List) : nodes'[Pool][k] = List[k]
  BY <1>1 DEF Growth, Grown
<1>. QED
  BY <1>2, <1>3, <1>4 DEF Carries, LocalName, RemoteName

LEMMA HandKept ==
  ASSUME IInv, HandOK, Growth, wire \subseteq wire',
         \/ tick'.packets = <<>>
         \/ tick'.peer = tick.peer /\ tick'.packets = tick.packets
  PROVE  HandOK'
<1>1. CASE tick'.packets = <<>>
  BY <1>1 DEF HandOK
<1>2. CASE tick'.peer = tick.peer /\ tick'.packets = tick.packets
  <2>1. ASSUME NEW n \in DOMAIN tick.packets
        PROVE  \E d \in wire' : Carries(tick.packets[n], d)'
    <3>1. PICK x : x = tick.packets[n]
      OBVIOUS
    <3>2. PacketOK(List, x)
      BY <2>1, <3>1 DEF IInv, PacketsOK
    <3>3. PICK d \in wire : Carries(x, d)
      BY <2>1, <3>1 DEF HandOK
    <3>4. Carries(x, d)'
      BY <1>2, <3>2, <3>3, CarriesKept
    <3>. QED
      BY <1>2, <3>1, <3>3, <3>4 DEF Carries
  <2>. QED
    BY <1>2, <2>1 DEF HandOK
<1>. QED
  BY <1>1, <1>2

---------------------------------------------------------------------------
(* The parts of the invariant, over a step *)

LEMMA GivenKept ==
  ASSUME IInv, Keeps, NEW s, SlotOK(nodes[PoolOf[Host]], s), Given(s),
         NEW t, t.remote = s.remote, t.resolved = s.resolved
  PROVE  Given(t)'
<1>1. Growth /\ closed' = closed /\ Host \in Peers
  BY DEF Keeps, Peers
<1>2. s.remote # Undefined => Other(Host, t)' = Other(Host, s)
  BY <1>1, NamesKept
<1>3. PICK a : a = Other(Host, s)
  OBVIOUS
<1>4. ClientSocket(a) => ClientSocket(a)'
  BY ClientSocketKept
<1>. QED
  BY <1>1, <1>2, <1>3, <1>4 DEF Given

LEMMA BoundKept ==
  ASSUME IInv, Keeps, NEW c \in Clients, NEW s, SlotOK(nodes[PoolOf[c]], s),
         Bound(c, s), NEW t, t.local = s.local, t.remote = s.remote,
         Told(t) => t.addr = s.addr /\ t.resolved = s.resolved
  PROVE  Bound(c, t)'
<1>1. Growth /\ (HostOpen' <=> HostOpen) /\ c \in Peers
  BY DEF Keeps, HostOpen, Peers
<1>2. /\ Own(c, t)' = Own(c, s)
      /\ s.remote # Undefined => Other(c, t)' = Other(c, s)
  BY <1>1, NamesKept
<1>3. Told(t)' <=> Told(t)
  BY DEF Told
<1>4. PICK a : a = Own(c, s)
  OBVIOUS
<1>5. PICK port : port = s.addr.port
  OBVIOUS
<1>6. HostSlotFor(port, a) => HostSlotFor(port, a)'
  BY HostSlotForKept
<1>7. Told(t) => Told(s)
  BY DEF Told
<1>. QED
  BY <1>1, <1>2, <1>3, <1>4, <1>5, <1>6, <1>7 DEF Bound

LEMMA SlotsFrame ==
  ASSUME FInv, Keeps, NEW p \in Peers,
         \A r \in Peers : r # p => slots'[r] = slots[r],
         p = Host => \A j \in DOMAIN slots'[p] : Given(slots[p][j])',
         p # Host => \A j \in DOMAIN slots'[p] : Bound(p, slots[p][j])'
  PROVE  HostSlots' /\ ClientSlots'
<1>1. IInv /\ HostSlots /\ ClientSlots /\ Host \in Peers /\ Host \notin Clients
  BY PoolAssumption DEF FInv, WInv, Peers
<1>2. HostSlots'
  <2>1. ASSUME p # Host, NEW j \in DOMAIN slots'[Host]
        PROVE  Given(slots[Host][j])'
    <3>1. slots'[Host] = slots[Host]
      BY <1>1, <2>1
    <3>2. PICK s : s = slots[Host][j]
      OBVIOUS
    <3>3. Given(s) /\ SlotOK(nodes[PoolOf[Host]], s)
      BY <1>1, <2>1, <3>1, <3>2, SlotTyped DEF HostSlots
    <3>4. Given(s)'
      BY <1>1, <3>3, GivenKept
    <3>. QED
      BY <3>1, <3>2, <3>4
  <2>. QED
    BY <2>1 DEF HostSlots
<1>3. ClientSlots'
  <2>1. ASSUME NEW c \in Clients, c # p, NEW j \in DOMAIN slots'[c]
        PROVE  Bound(c, slots[c][j])'
    <3>1. slots'[c] = slots[c] /\ c \in Peers
      BY <2>1 DEF Peers
    <3>2. PICK s : s = slots[c][j]
      OBVIOUS
    <3>3. Bound(c, s) /\ SlotOK(nodes[PoolOf[c]], s)
      BY <1>1, <2>1, <3>1, <3>2, SlotTyped DEF ClientSlots
    <3>4. Bound(c, s)'
      BY <1>1, <3>3, BoundKept
    <3>. QED
      BY <3>1, <3>2, <3>4
  <2>2. ASSUME NEW c \in Clients, c = p, NEW j \in DOMAIN slots'[c]
        PROVE  Bound(c, slots[c][j])'
    BY <1>1, <2>2
  <2>. QED
    BY <2>1, <2>2 DEF ClientSlots
<1>. QED
  BY <1>2, <1>3

LEMMA SlotsUnchanged ==
  ASSUME FInv, Keeps, UNCHANGED slots
  PROVE  HostSlots' /\ ClientSlots'
<1>1. Host \in Peers /\ IInv /\ HostSlots
  BY DEF Peers, FInv, WInv
<1>2. ASSUME NEW j \in DOMAIN slots'[Host]
      PROVE  Given(slots[Host][j])'
  <2>1. PICK s : s = slots[Host][j]
    OBVIOUS
  <2>2. Given(s) /\ SlotOK(nodes[PoolOf[Host]], s)
    BY <1>1, <1>2, <2>1, SlotTyped DEF HostSlots
  <2>3. Given(s)'
    BY <1>1, <2>2, GivenKept
  <2>. QED
    BY <2>1, <2>3
<1>. QED
  BY <1>1, <1>2, SlotsFrame

(* New slots have sockets that no other slot has. *)
LEMMA ApartKept ==
  ASSUME IInv, Apart, Keeps, NEW p \in Peers,
         \A r \in Peers : r # p => slots'[r] = slots[r],
         \A j \in DOMAIN slots'[p] \ DOMAIN slots[p] :
           slots'[p][j].local > Len(nodes[PoolOf[p]])
  PROVE  Apart'
<1>1. ASSUME NEW r \in Peers, r # p, PoolOf[r] = PoolOf[p],
             NEW i \in DOMAIN slots'[p], NEW j \in DOMAIN slots'[r]
      PROVE  slots'[p][i].local # slots'[r][j].local
  <2>1. slots'[r] = slots[r] /\ j \in DOMAIN slots[r]
    BY <1>1
  <2>2. CASE i \in DOMAIN slots[p]
    <3>1. slots'[p][i].local = slots[p][i].local
      BY <2>2 DEF Keeps, SlotKept
    <3>. QED
      BY <1>1, <2>1, <2>2, <3>1 DEF Apart
  <2>3. CASE i \notin DOMAIN slots[p]
    <3>1. slots'[p][i].local > Len(nodes[PoolOf[p]])
      BY <2>3
    <3>2. slots[r][j].local \in 1..Len(nodes[PoolOf[p]])
      BY <1>1, <2>1, SlotTyped DEF SlotOK, IsSocket
    <3>3. Len(nodes[PoolOf[p]]) \in Nat
      BY <1>1, <2>1, SlotTyped
    <3>. QED
      BY <2>1, <3>1, <3>2, <3>3
  <2>. QED
    BY <2>2, <2>3
<1>. QED
  BY <1>1 DEF Apart

LEMMA WithNodeShaped ==
  ASSUME NEW list \in Seq(Node), Shaped(list), NEW name \in Name
  PROVE  Shaped(WithNode(list, name, name))
<1>1. RemoteNode(name) \in Node /\ RemoteNode(name).local = AnyPort
  BY DEF RemoteNode, Node, Name, AnyPort
<1>. QED
  BY <1>1 DEF WithNode, Shaped

LEMMA SocketsShaped ==
  ASSUME NEW list \in Seq(Node), Shaped(list), ports \in Nat, NEW count \in Nat
  PROVE  Shaped(list \o Sockets(count))
<1>1. /\ Sockets(count) \in Seq(Node) /\ Len(Sockets(count)) = count
      /\ \A k \in 1..count : Sockets(count)[k] = SocketNode(ports + k)
  <2>1. \A k \in 1..count : SocketNode(ports + k) \in Node
    BY DEF SocketNode, Node, Places, AnyPort
  <2>. QED
    BY <2>1 DEF Sockets
<1>. DEFINE new == Sockets(count)
<1>. HIDE DEF new
<1>2. /\ list \o new \in Seq(Node)
      /\ Len(list \o new) = Len(list) + count
      /\ \A k \in 1..(Len(list) + count) :
           (list \o new)[k] = IF k <= Len(list) THEN list[k]
                                               ELSE new[k - Len(list)]
  <2>1. new \in Seq(Node) /\ Len(new) = count
    BY <1>1 DEF new
  <2>. QED
    BY <2>1, ConcatProperties
<1>3. \A k \in 1..count : new[k].remote = AnyPort /\ new[k].at = Nowhere
  BY <1>1 DEF new, SocketNode
<1>4. ASSUME NEW k \in 1..(Len(list) + count), (list \o new)[k].local # AnyPort
      PROVE  (list \o new)[k].remote = AnyPort /\ (list \o new)[k].at = Nowhere
  <2>1. CASE k <= Len(list)
    BY <1>2, <1>4, <2>1 DEF Shaped
  <2>2. CASE ~(k <= Len(list))
    <3>1. k - Len(list) \in 1..count
      BY <2>2
    <3>. QED
      BY <1>2, <1>3, <2>2, <3>1
  <2>. QED
    BY <2>1, <2>2
<1>5. Shaped(list \o new)
  BY <1>2, <1>4 DEF Shaped
<1>. QED
  BY <1>5 DEF new

LEMMA OnePoolShaped ==
  ASSUME TypeOK, SocketNodes, NEW q \in Pools, NEW new, Shaped(new),
         nodes' = [nodes EXCEPT ![q] = new]
  PROVE  SocketNodes'
<1>1. ASSUME NEW r \in Pools
      PROVE  nodes'[r] = IF r = q THEN new ELSE nodes[r]
  BY DEF TypeOK
<1>2. ASSUME NEW r \in Pools PROVE Shaped(nodes'[r])
  BY <1>1 DEF SocketNodes
<1>. QED
  BY <1>2 DEF SocketNodes, Shaped

LEMMA WireKept ==
  ASSUME FInv, Keeps, \A d \in wire' \ wire : Lawful(d)'
  PROVE  WireOK'
<1>1. ASSUME NEW d \in wire PROVE Lawful(d)'
  BY <1>1, LawfulKept DEF FInv, WInv, WireOK
<1>. QED
  BY <1>1 DEF WireOK

---------------------------------------------------------------------------
(* The steps outside a tick *)

(* A step of a tick that looks at nothing and changes nothing but the      *)
(* place it is at.                                                         *)
LEMMA QuietStep ==
  ASSUME FInv, UNCHANGED <<nodes, slots, wire, closed>>,
         \/ tick'.packets = <<>>
         \/ tick'.peer = tick.peer /\ tick'.packets = tick.packets
  PROVE  WInv'
<1>1. IInv /\ TypeOK /\ WInv
  BY DEF FInv, IInv
<1>2. Keeps
  BY <1>1, NodesKept DEF Keeps, SlotKept
<1>3. SocketNodes' /\ Apart'
  BY <1>1 DEF WInv, SocketNodes, Shaped, Apart
<1>4. HostSlots' /\ ClientSlots' /\ WireOK'
  BY <1>2, SlotsUnchanged, WireKept
<1>5. HandOK'
  BY <1>1, <1>2, HandKept DEF WInv, Keeps
<1>. QED
  BY <1>3, <1>4, <1>5 DEF WInv

(* A slot that has no remote id is bound to nothing. *)
LEMMA Unbound ==
  ASSUME NEW t, t.remote = Undefined
  PROVE  Given(t)' /\ \A c : Bound(c, t)'
BY DEF Given, Bound

LEMMA OnePeerKeeps ==
  ASSUME TypeOK, Growth, UNCHANGED closed, wire \subseteq wire',
         NEW p \in Peers, NEW list, slots' = [slots EXCEPT ![p] = list],
         DOMAIN slots[p] \subseteq DOMAIN list,
         \A i \in DOMAIN slots[p] : SlotKept(p, slots[p][i], list[i])
  PROVE  /\ Keeps
         /\ slots'[p] = list
         /\ \A r \in Peers : r # p => slots'[r] = slots[r]
<1>1. /\ slots'[p] = list
      /\ \A r \in Peers : r # p => slots'[r] = slots[r]
  BY DEF TypeOK
<1>2. ASSUME NEW r \in Peers
      PROVE  /\ DOMAIN slots[r] \subseteq DOMAIN slots'[r]
             /\ \A i \in DOMAIN slots[r] : SlotKept(r, slots[r][i], slots'[r][i])
  <2>1. CASE r = p
    BY <1>1, <2>1
  <2>2. CASE r # p
    BY <1>1, <2>2 DEF SlotKept
  <2>. QED
    BY <2>1, <2>2
<1>. QED
  BY <1>1, <1>2 DEF Keeps

(* Opened slots come after the others and are bound to nothing. *)
Opening(a, n, count) == a \o NewSlots(n, count)

LEMMA OpeningAt ==
  ASSUME NEW a \in Seq(Slot), NEW n \in Nat, NEW count \in Nat
  PROVE  /\ Opening(a, n, count) \in Seq(Slot)
         /\ Len(Opening(a, n, count)) = Len(a) + count
         /\ \A k \in 1..Len(a) : Opening(a, n, count)[k] = a[k]
         /\ \A k \in 1..count :
              Opening(a, n, count)[Len(a) + k] = NewSlot(n + k)
<1>. DEFINE new == NewSlots(n, count)
<1>1. /\ new \in Seq(Slot) /\ Len(new) = count
      /\ \A k \in 1..count : new[k] = NewSlot(n + k)
  BY NewSlotsTyped
<1>. HIDE DEF new
<1>2. /\ a \o new \in Seq(Slot) /\ Len(a \o new) = Len(a) + count
      /\ \A k \in 1..(Len(a) + count) :
           (a \o new)[k] = IF k <= Len(a) THEN a[k] ELSE new[k - Len(a)]
  BY <1>1, JoinedAt
<1>3. \A k \in 1..count : (a \o new)[Len(a) + k] = new[k]
  BY <1>1, <1>2
<1>4. \A k \in 1..Len(a) : (a \o new)[k] = a[k]
  BY <1>2
<1>5. Opening(a, n, count) = a \o new
  BY DEF Opening, new
<1>. QED
  BY <1>1, <1>2, <1>3, <1>4, <1>5

LEMMA SlotsOpened ==
  ASSUME NEW a \in Seq(Slot), NEW n \in Nat, NEW count \in Nat,
         NEW b, b = Opening(a, n, count)
  PROVE  b \in Seq(Slot) /\ \A i \in DOMAIN a : i \in DOMAIN b /\ b[i] = a[i]
<1>1. b \in Seq(Slot) /\ Len(b) = Len(a) + count /\ Len(a) \in Nat
  BY OpeningAt
<1>2. \A k \in 1..Len(a) : b[k] = a[k]
  BY OpeningAt
<1>. QED
  BY <1>1, <1>2

LEMMA NewSlotsFree ==
  ASSUME NEW a \in Seq(Slot), NEW n \in Nat, NEW count \in Nat,
         NEW b, b = Opening(a, n, count),
         NEW i \in DOMAIN b, i \notin DOMAIN a
  PROVE  b[i].remote = Undefined /\ b[i].local > n
<1>1. b \in Seq(Slot) /\ Len(b) = Len(a) + count /\ Len(a) \in Nat
  BY OpeningAt
<1>2. PICK k \in 1..count : i = Len(a) + k
  <2>1. i \in 1..(Len(a) + count) /\ i \notin 1..Len(a)
    BY <1>1
  <2>2. i - Len(a) \in 1..count /\ i = Len(a) + (i - Len(a))
    BY <1>1, <2>1
  <2>. QED
    BY <2>2
<1>3. b[i] = NewSlot(n + k)
  BY <1>2, OpeningAt
<1>4. NewSlot(n + k).remote = Undefined /\ NewSlot(n + k).local = n + k
  BY DEF NewSlot
<1>5. n + k > n
  OBVIOUS
<1>. QED
  BY <1>3, <1>4, <1>5

LEMMA PoolOpenRouted ==
  ASSUME FInv, NEW p \in Peers, NEW count \in Counts[p], PoolOpen(p, count)
  PROVE  WInv'
<1>. DEFINE q == PoolOf[p]
            new == nodes[q] \o Sockets(count)
<1>1. IInv /\ TypeOK /\ WInv
  BY DEF FInv, IInv
<1>2. /\ count \in Nat /\ q \in Pools /\ nodes[q] \in Seq(Node)
      /\ slots[p] \in Seq(Slot) /\ ports \in Nat /\ Len(nodes[q]) \in Nat
  BY <1>1, PoolAssumption, PoolOfPeer DEF TypeOK
<1>3. PICK list : list = Opening(slots[p], Len(nodes[q]), count)
  OBVIOUS
<1>4. /\ nodes' = [nodes EXCEPT ![q] = new]
      /\ slots' = [slots EXCEPT ![p] = list]
      /\ UNCHANGED <<wire, closed, tick>>
  BY <1>3 DEF PoolOpen, Opening
<1>5. Grown(nodes[q], new) /\ Shaped(new)
  BY <1>1, <1>2, SocketsGrow, SocketsShaped DEF WInv, SocketNodes
<1>. HIDE DEF new
<1>6. Growth /\ SocketNodes'
  BY <1>1, <1>2, <1>4, <1>5, OnePoolGrows, OnePoolShaped DEF WInv
<1>7. /\ DOMAIN slots[p] \subseteq DOMAIN list
      /\ \A i \in DOMAIN slots[p] : list[i] = slots[p][i]
      /\ \A i \in DOMAIN list \ DOMAIN slots[p] :
           list[i].remote = Undefined /\ list[i].local > Len(nodes[q])
  <2>1. PICK n \in Nat : n = Len(nodes[q])
    BY <1>2
  <2>2. PICK a \in Seq(Slot) : a = slots[p]
    BY <1>2
  <2>3. count \in Nat /\ list = Opening(a, n, count)
    BY <1>2, <1>3, <2>1, <2>2
  <2>4. \A i \in DOMAIN a : i \in DOMAIN list /\ list[i] = a[i]
    BY <2>3, SlotsOpened
  <2>5. \A i \in DOMAIN list :
          i \notin DOMAIN a => list[i].remote = Undefined /\ list[i].local > n
    BY <2>3, NewSlotsFree
  <2>. QED
    BY <2>1, <2>2, <2>4, <2>5
<1>8. /\ Keeps
      /\ slots'[p] = list
      /\ \A r \in Peers : r # p => slots'[r] = slots[r]
  <2>1. \A i \in DOMAIN slots[p] : SlotKept(p, slots[p][i], list[i])
    BY <1>7 DEF SlotKept
  <2>. QED
    BY <1>1, <1>4, <1>6, <1>7, <2>1, OnePeerKeeps
<1>9. Apart'
  BY <1>1, <1>7, <1>8, ApartKept DEF WInv
<1>10. ASSUME NEW j \in DOMAIN slots'[p]
       PROVE  /\ p = Host => Given(slots[p][j])'
              /\ p # Host => Bound(p, slots[p][j])'
  <2>1. PICK t : t = list[j]
    OBVIOUS
  <2>2. CASE j \in DOMAIN slots[p]
    <3>1. t = slots[p][j] /\ SlotOK(nodes[q], t)
      BY <1>1, <1>7, <2>1, <2>2, SlotTyped
    <3>2. CASE p = Host
      <4>1. Given(t)
        BY <1>1, <2>2, <3>1, <3>2 DEF WInv, HostSlots
      <4>2. Given(t)'
        BY <1>1, <1>8, <3>1, <3>2, <4>1, GivenKept
      <4>. QED
        BY <1>8, <2>1, <3>2, <4>2
    <3>3. CASE p # Host
      <4>1. p \in Clients /\ Bound(p, t)
        BY <1>1, <2>2, <3>1, <3>3 DEF WInv, ClientSlots, Peers
      <4>2. Bound(p, t)'
        BY <1>1, <1>8, <3>1, <4>1, BoundKept
      <4>. QED
        BY <1>8, <2>1, <3>3, <4>2
    <3>. QED
      BY <3>2, <3>3
  <2>3. CASE j \notin DOMAIN slots[p]
    <3>1. t.remote = Undefined
      BY <1>7, <1>8, <2>1, <2>3
    <3>2. Given(t)' /\ Bound(p, t)'
      BY <3>1, Unbound
    <3>. QED
      BY <1>8, <2>1, <3>2
  <2>. QED
    BY <2>2, <2>3
<1>11. HostSlots' /\ ClientSlots'
  BY <1>8, <1>10, SlotsFrame
<1>12. WireOK' /\ HandOK'
  BY <1>1, <1>4, <1>8, WireKept, HandKept DEF WInv, Keeps
<1>. QED
  BY <1>6, <1>9, <1>11, <1>12 DEF WInv

LEMMA PoolConnectFailsRouted ==
  ASSUME FInv, NEW c \in Clients, PoolConnectFails(c)
  PROVE  WInv'
<1>. DEFINE q == PoolOf[c]
            new == WithNode(nodes[q], HostName, HostName)
<1>1. IInv /\ TypeOK /\ SlotsOK /\ WInv
  BY DEF FInv, IInv
<1>2. HostName \in Name /\ q \in Pools /\ nodes[q] \in Seq(Node) /\ c \in Peers
  BY <1>1, HostNamed, PoolOfPeer DEF Peers, PoolConnectFails, MayConnect, TypeOK
<1>3. /\ nodes' = [nodes EXCEPT ![q] = new]
      /\ UNCHANGED <<slots, wire, closed, tick>>
  BY DEF PoolConnectFails
<1>4. Grown(nodes[q], new) /\ Shaped(new)
  BY <1>1, <1>2, WithNodeGrows, WithNodeShaped DEF WInv, SocketNodes
<1>. HIDE DEF new
<1>5. Growth /\ SocketNodes'
  BY <1>1, <1>2, <1>3, <1>4, OnePoolGrows, OnePoolShaped DEF WInv
<1>6. Keeps
  BY <1>3, <1>5 DEF Keeps, SlotKept
<1>7. Apart' /\ HostSlots' /\ ClientSlots' /\ WireOK' /\ HandOK'
  <2>1. Apart'
    BY <1>1, <1>3 DEF WInv, Apart
  <2>. QED
    BY <1>1, <1>3, <1>5, <1>6, <2>1, SlotsUnchanged, WireKept, HandKept DEF WInv
<1>. QED
  BY <1>5, <1>7 DEF WInv

LEMMA ConnectedAt ==
  ASSUME NEW a \in Seq(Slot), NEW id, FreeSlots(a) # {}
  PROVE  /\ DOMAIN Connected(a, id) = DOMAIN a
         /\ \A i \in DOMAIN a :
              LET t == Connected(a, id)[i]
              IN  /\ t.local = a[i].local
                  /\ t = a[i] \/ (t.remote = id /\ t.addr = NoName)
<1>. DEFINE j == Min(FreeSlots(a))
<1>1. FreeSlots(a) \subseteq DOMAIN a /\ FreeSlots(a) \subseteq Nat
  BY DEF FreeSlots
<1>2. j \in DOMAIN a
  BY <1>1, MinIn
<1>3. DOMAIN Connected(a, id) = DOMAIN a
  BY DEF Connected
<1>4. /\ Connected(a, id)[j].local = a[j].local
      /\ Connected(a, id)[j].remote = id
      /\ Connected(a, id)[j].addr = NoName
      /\ \A i \in DOMAIN a : i # j => Connected(a, id)[i] = a[i]
  <2>. HIDE DEF j
  <2>1. a[j] \in Slot
    BY <1>2
  <2>. QED
    BY <1>2, <2>1 DEF Connected, Slot, j
<1>. HIDE DEF j
<1>. QED
  BY <1>3, <1>4

(* A client that connects is bound to the host, and was told no port. *)
LEMMA ConnectRouted ==
  ASSUME FInv, NEW c \in Clients, Growth, SocketNodes',
         UNCHANGED <<wire, closed, tick>>,
         \A i \in DOMAIN slots[c] : slots[c][i].remote = Undefined,
         NEW a \in Seq(Slot), FreeSlots(a) # {},
         \A i \in DOMAIN slots[c] : i \in DOMAIN a /\ a[i] = slots[c][i],
         \A i \in DOMAIN a :
           i \notin DOMAIN slots[c] =>
             a[i].remote = Undefined /\ a[i].local > Len(nodes[PoolOf[c]]),
         NEW id, RemoteName(nodes'[PoolOf[c]], id).at = PoolOf[Host],
         slots' = [slots EXCEPT ![c] = Connected(a, id)]
  PROVE  WInv'
<1>1. IInv /\ TypeOK /\ WInv /\ c \in Peers /\ c # Host
  BY PoolAssumption DEF FInv, IInv, Peers
<1>2. PICK list : list = Connected(a, id)
  OBVIOUS
<1>3. /\ DOMAIN list = DOMAIN a
      /\ \A i \in DOMAIN a :
           /\ list[i].local = a[i].local
           /\ list[i] = a[i] \/ (list[i].remote = id /\ list[i].addr = NoName)
  BY <1>2, ConnectedAt
<1>4. /\ Keeps
      /\ slots'[c] = list
      /\ \A r \in Peers : r # c => slots'[r] = slots[r]
  <2>1. \A i \in DOMAIN slots[c] : SlotKept(c, slots[c][i], list[i])
    BY <1>3 DEF SlotKept
  <2>. QED
    BY <1>1, <1>2, <1>3, <2>1, OnePeerKeeps
<1>5. Apart'
  <2>1. \A i \in DOMAIN slots'[c] \ DOMAIN slots[c] :
          slots'[c][i].local > Len(nodes[PoolOf[c]])
    BY <1>3, <1>4
  <2>. QED
    BY <1>1, <1>4, <2>1, ApartKept DEF WInv
<1>6. ASSUME NEW j \in DOMAIN slots'[c]
      PROVE  Bound(c, slots[c][j])'
  <2>1. PICK t : t = list[j]
    OBVIOUS
  <2>2. Bound(c, t)'
    <3>1. CASE t.remote = Undefined
      BY <3>1, Unbound
    <3>2. CASE t.remote # Undefined
      <4>1. t.remote = id /\ t.addr = NoName
        <5>1. a[j].remote = Undefined
          BY <1>3, <1>4, <1>6
        <5>. QED
          BY <1>3, <1>4, <1>6, <2>1, <3>2, <5>1
      <4>2. Other(c, t)'.at = PoolOf[Host]
        BY <4>1 DEF Other
      <4>3. ~Told(t)'
        BY <4>1 DEF Told
      <4>. QED
        BY <4>2, <4>3 DEF Bound
    <3>. QED
      BY <3>1, <3>2
  <2>. QED
    BY <1>4, <2>1, <2>2
<1>7. HostSlots' /\ ClientSlots'
  BY <1>1, <1>4, <1>6, SlotsFrame
<1>8. WireOK' /\ HandOK'
  BY <1>1, <1>4, WireKept, HandKept DEF WInv, Keeps
<1>. QED
  BY <1>5, <1>7, <1>8 DEF WInv

LEMMA PoolConnectRouted ==
  ASSUME FInv, NEW c \in Clients, PoolConnect(c)
  PROVE  WInv'
<1>. DEFINE q == PoolOf[c]
            new == WithNode(nodes[q], HostName, HostName)
            id == NodeId(nodes[q], HostName)
<1>1. IInv /\ TypeOK /\ SlotsOK /\ WInv
  BY DEF FInv, IInv
<1>2. /\ HostName \in Name /\ q \in Pools /\ nodes[q] \in Seq(Node)
      /\ c \in Peers /\ slots[c] \in Seq(Slot)
  BY <1>1, HostNamed, PoolOfPeer DEF Peers, PoolConnect, MayConnect, TypeOK
<1>3. /\ nodes' = [nodes EXCEPT ![q] = new]
      /\ slots' = [slots EXCEPT ![c] = Connected(slots[c], id)]
      /\ FreeSlots(slots[c]) # {}
      /\ \A i \in DOMAIN slots[c] : slots[c][i].remote = Undefined
      /\ UNCHANGED <<wire, closed, tick>>
  BY DEF PoolConnect, MayConnect
<1>4. /\ Grown(nodes[q], new) /\ Shaped(new)
      /\ RemoteName(new, id) = HostName
  BY <1>1, <1>2, WithNodeGrows, WithNodeShaped, NodeFound DEF WInv, SocketNodes
<1>5. HostName.at = PoolOf[Host]
  BY DEF HostName, LocalName
<1>. HIDE DEF new, id
<1>6. Growth /\ SocketNodes' /\ nodes'[q] = new
  BY <1>1, <1>2, <1>3, <1>4, OnePoolGrows, OnePoolShaped DEF WInv
<1>. QED
  BY <1>2, <1>3, <1>4, <1>5, <1>6, ConnectRouted

LEMMA PoolConnectOpenRouted ==
  ASSUME FInv, NEW c \in Clients, PoolConnectOpen(c)
  PROVE  WInv'
<1>. DEFINE q == PoolOf[c]
            found == WithNode(nodes[q], HostName, HostName)
            new == found \o Sockets(1)
            id == NodeId(nodes[q], HostName)
<1>1. IInv /\ TypeOK /\ SlotsOK /\ WInv
  BY DEF FInv, IInv
<1>2. /\ HostName \in Name /\ q \in Pools /\ nodes[q] \in Seq(Node)
      /\ c \in Peers /\ slots[c] \in Seq(Slot) /\ ports \in Nat
  BY <1>1, HostNamed, PoolOfPeer DEF Peers, PoolConnectOpen, MayConnect, TypeOK
<1>3. PICK a : a = Opening(slots[c], Len(found), 1)
  OBVIOUS
<1>4. /\ nodes' = [nodes EXCEPT ![q] = new]
      /\ slots' = [slots EXCEPT ![c] = Connected(a, id)]
      /\ \A i \in DOMAIN slots[c] : slots[c][i].remote = Undefined
      /\ UNCHANGED <<wire, closed, tick>>
  BY <1>3 DEF PoolConnectOpen, MayConnect, Opening
<1>5. /\ Grown(nodes[q], found) /\ Shaped(found) /\ IsRemote(found, id)
      /\ RemoteName(found, id) = HostName
  BY <1>1, <1>2, WithNodeGrows, WithNodeShaped, NodeFound DEF WInv, SocketNodes
<1>6. HostName.at = PoolOf[Host]
  BY DEF HostName, LocalName
<1>. HIDE DEF found, id
<1>7. found \in Seq(Node) /\ Len(found) \in Nat /\ Len(nodes[q]) <= Len(found)
  BY <1>5 DEF Grown
<1>8. Grown(found, new) /\ Shaped(new)
  BY <1>2, <1>5, <1>7, SocketsGrow, SocketsShaped
<1>. HIDE DEF new
<1>9. Grown(nodes[q], new) /\ RemoteName(new, id) = HostName
  <2>1. Grown(nodes[q], new)
    BY <1>2, <1>5, <1>7, <1>8 DEF Grown
  <2>2. new[id] = found[id]
    BY <1>5, <1>7, <1>8 DEF Grown, IsRemote
  <2>. QED
    BY <1>5, <2>1, <2>2 DEF RemoteName
<1>10. Growth /\ SocketNodes' /\ nodes'[q] = new
  BY <1>1, <1>2, <1>4, <1>8, <1>9, OnePoolGrows, OnePoolShaped DEF WInv
<1>11. PICK n \in Nat : n = Len(found)
  BY <1>7
<1>12. PICK old \in Seq(Slot) : old = slots[c]
  BY <1>2
<1>13. a = Opening(old, n, 1)
  BY <1>3, <1>11, <1>12
<1>14. a \in Seq(Slot) /\ \A i \in DOMAIN old : i \in DOMAIN a /\ a[i] = old[i]
  BY <1>13, SlotsOpened
<1>15. \A i \in DOMAIN a :
         i \notin DOMAIN old => a[i].remote = Undefined /\ a[i].local > n
  BY <1>13, NewSlotsFree
<1>16. \A i \in DOMAIN a :
         i \notin DOMAIN slots[c] =>
           a[i].remote = Undefined /\ a[i].local > Len(nodes[q])
  <2>1. Len(nodes[q]) \in Nat
    BY <1>2
  <2>2. \A i \in DOMAIN a : a[i].local \in Nat
    <3>1. \A i \in DOMAIN a : a[i] \in Slot
      BY <1>14
    <3>. QED
      BY <3>1 DEF Slot
  <2>3. ASSUME NEW i \in DOMAIN a, i \notin DOMAIN slots[c]
        PROVE  a[i].remote = Undefined /\ a[i].local > Len(nodes[q])
    <3>1. a[i].remote = Undefined /\ a[i].local > n
      BY <1>12, <1>15, <2>3
    <3>2. a[i].local \in Nat
      BY <2>2
    <3>. QED
      BY <1>7, <1>11, <2>1, <3>1, <3>2
  <2>. QED
    BY <2>3
<1>17. FreeSlots(a) # {}
  <2>1. Len(a) = Len(old) + 1 /\ Len(old) \in Nat
    BY <1>13, OpeningAt
  <2>2. Len(old) + 1 \in DOMAIN a /\ Len(old) + 1 \notin DOMAIN old
    BY <1>14, <2>1
  <2>. QED
    BY <1>15, <2>2 DEF FreeSlots
<1>. QED
  BY <1>4, <1>6, <1>9, <1>10, <1>12, <1>14, <1>16, <1>17, ConnectRouted

(* Datagrams to and from a pool that is destroyed stay on their way. *)
LEMMA PoolDestroyRouted ==
  ASSUME FInv, NEW q \in Pools, PoolDestroy(q)
  PROVE  WInv'
<1>1. IInv /\ TypeOK /\ WInv /\ TickOK /\ Host \in Peers
  BY DEF FInv, IInv, Peers
<1>2. /\ tick.phase = "idle" /\ closed' = closed \cup {q}
      /\ nodes' = [nodes EXCEPT ![q] = <<>>]
      /\ slots' = [p \in Peers |-> IF PoolOf[p] = q THEN <<>> ELSE slots[p]]
      /\ UNCHANGED <<wire, tick>>
  BY DEF PoolDestroy
<1>3. ASSUME NEW p \in Peers
      PROVE  /\ PoolOf[p] = q => slots'[p] = <<>>
             /\ PoolOf[p] # q => /\ slots'[p] = slots[p]
                                 /\ nodes'[PoolOf[p]] = nodes[PoolOf[p]]
  BY <1>1, <1>2, PoolOfPeer DEF TypeOK
<1>4. SocketNodes'
  <2>1. Shaped(<<>>)
    BY DEF Shaped
  <2>. QED
    BY <1>1, <1>2, <2>1, OnePoolShaped DEF WInv
<1>5. Apart'
  <2>1. ASSUME NEW p \in Peers, NEW i \in DOMAIN slots'[p]
        PROVE  slots'[p] = slots[p]
    BY <1>3, <2>1
  <2>. QED
    BY <1>1, <2>1 DEF WInv, Apart
<1>6. closed' # {}
  BY <1>2
<1>7. HostSlots'
  <2>1. ASSUME NEW j \in DOMAIN slots'[Host] PROVE Given(slots[Host][j])'
    <3>1. slots'[Host] = slots[Host]
      BY <1>1, <1>3, <2>1
    <3>. QED
      BY <1>1, <1>6, <2>1, <3>1 DEF WInv, HostSlots, Given
  <2>. QED
    BY <2>1 DEF HostSlots
<1>8. ASSUME HostOpen', NEW port, NEW name, HostSlotFor(port, name)
      PROVE  HostSlotFor(port, name)'
  <2>1. PoolOf[Host] # q
    BY <1>2, <1>8 DEF HostOpen
  <2>2. slots'[Host] = slots[Host] /\ nodes'[PoolOf[Host]] = nodes[PoolOf[Host]]
    BY <1>1, <1>3, <2>1
  <2>. QED
    BY <1>8, <2>2 DEF HostSlotFor, Own, Other
<1>9. HostOpen' => HostOpen
  BY <1>2 DEF HostOpen
<1>10. ClientSlots'
  <2>1. ASSUME NEW c \in Clients, NEW j \in DOMAIN slots'[c]
        PROVE  Bound(c, slots[c][j])'
    <3>1. /\ c \in Peers
          /\ slots'[c] = slots[c] /\ nodes'[PoolOf[c]] = nodes[PoolOf[c]]
      BY <1>3, <2>1 DEF Peers
    <3>2. PICK s : s = slots[c][j]
      OBVIOUS
    <3>3. Bound(c, s)
      BY <1>1, <2>1, <3>1, <3>2 DEF WInv, ClientSlots
    <3>4. /\ Own(c, s)' = Own(c, s) /\ Other(c, s)' = Other(c, s)
          /\ (Told(s)' <=> Told(s))
      BY <3>1 DEF Own, Other, Told
    <3>5. PICK name : name = Own(c, s)
      OBVIOUS
    <3>6. PICK port : port = s.addr.port
      OBVIOUS
    <3>7. HostOpen' /\ HostSlotFor(port, name) => HostSlotFor(port, name)'
      BY <1>8
    <3>8. Bound(c, s)'
      BY <1>9, <3>3, <3>4, <3>5, <3>6, <3>7 DEF Bound
    <3>. QED
      BY <3>1, <3>2, <3>8
  <2>. QED
    BY <2>1 DEF ClientSlots
<1>11. WireOK'
  <2>1. ASSUME NEW d \in wire PROVE Lawful(d)'
    <3>1. Lawful(d)
      BY <1>1, <2>1 DEF WInv, WireOK
    <3>2. PICK name : name = d.to
      OBVIOUS
    <3>3. PICK port : port = d.response
      OBVIOUS
    <3>4. HostOpen' /\ HostSlotFor(port, name) => HostSlotFor(port, name)'
      BY <1>8
    <3>. QED
      BY <1>6, <1>9, <3>1, <3>2, <3>3, <3>4 DEF Lawful
  <2>. QED
    BY <1>2, <2>1 DEF WireOK
<1>12. HandOK'
  BY <1>1, <1>2 DEF TickOK, HandOK
<1>. QED
  BY <1>4, <1>5, <1>7, <1>10, <1>11, <1>12 DEF WInv

---------------------------------------------------------------------------
(* The steps of a tick *)

LEMMA ReceiveRouted ==
  ASSUME FInv, NEW d \in wire, Receive(d)
  PROVE  WInv'
<1>. DEFINE new == WithNode(List, d.from, d.from)
            id == NodeId(List, d.from)
<1>1. IInv /\ TypeOK /\ WInv
  BY DEF FInv, IInv
<1>2. /\ tick.peer \in Peers /\ Pool \in Pools
      /\ List \in Seq(Node) /\ List = nodes[Pool]
      /\ tick.at \in Nat /\ tick.packets \in Seq(Packet)
  BY <1>1, TickTyped DEF List
<1>3. d.from \in Name /\ d.response \in Nat
  BY <1>1 DEF TypeOK, Datagram
<1>4. /\ Grown(List, new) /\ Shaped(new) /\ id \in Nat
      /\ RemoteName(new, id) = d.from
  BY <1>1, <1>2, <1>3, WithNodeGrows, WithNodeShaped, NodeFound DEF WInv, SocketNodes
<1>5. PICK x : x = [src |-> id, dst |-> tick.at, response |-> d.response]
  OBVIOUS
<1>6. /\ tick.at <= Len(List)
      /\ d.to = LocalName(Pool, List, tick.at)
      /\ nodes' = [nodes EXCEPT ![Pool] = new]
      /\ tick'.peer = tick.peer
      /\ tick'.packets = Append(tick.packets, x)
      /\ UNCHANGED <<slots, wire, closed>>
  <2>1. tick \in [phase : {"idle", "resolve", "receive", "input", "send"},
                  peer : Peers, at : Nat, packets : Seq(Packet)]
    BY <1>1 DEF TypeOK
  <2>. QED
    BY <1>2, <1>5, <2>1 DEF Receive, Step
<1>7. tick.at \in 1..Len(List)
  BY <1>1, <1>2, <1>6 DEF IInv, TickOK, Receive
<1>8. x \in Packet /\ x.src = id /\ x.dst = tick.at /\ x.response = d.response
  BY <1>2, <1>3, <1>4, <1>5 DEF Packet
<1>. HIDE DEF new, id
<1>9. Growth /\ SocketNodes' /\ nodes'[Pool] = new
  BY <1>1, <1>2, <1>4, <1>6, OnePoolGrows, OnePoolShaped DEF WInv
<1>10. Keeps
  BY <1>6, <1>9 DEF Keeps, SlotKept
<1>11. Apart' /\ HostSlots' /\ ClientSlots' /\ WireOK'
  <2>1. Apart'
    BY <1>1, <1>6 DEF WInv, Apart
  <2>. QED
    BY <1>6, <1>10, <2>1, SlotsUnchanged, WireKept
<1>12. Carries(x, d)'
  <2>1. Pool' = Pool /\ List' = new
    BY <1>6, <1>9 DEF Pool, List
  <2>2. new[tick.at] = List[tick.at]
    BY <1>4, <1>7 DEF Grown
  <2>. QED
    BY <1>4, <1>6, <1>8, <2>1, <2>2 DEF Carries, LocalName
<1>13. HandOK'
  <2>1. ASSUME NEW n \in DOMAIN tick'.packets
        PROVE  \E e \in wire' : Carries(tick.packets[n], e)'
    <3>1. CASE n \in DOMAIN tick.packets
      <4>1. PICK y : y = tick.packets[n]
        OBVIOUS
      <4>2. tick'.packets[n] = y
        BY <1>2, <1>6, <1>8, <3>1, <4>1
      <4>3. PacketOK(List, y)
        BY <1>1, <3>1, <4>1 DEF IInv, PacketsOK
      <4>4. PICK e \in wire : Carries(y, e)
        BY <1>1, <3>1, <4>1 DEF WInv, HandOK
      <4>5. Carries(y, e)'
        BY <1>1, <1>6, <1>9, <4>3, <4>4, CarriesKept
      <4>. QED
        BY <1>6, <4>2, <4>4, <4>5 DEF Carries
    <3>2. CASE n \notin DOMAIN tick.packets
      <4>1. tick'.packets[n] = x
        BY <1>2, <1>6, <1>8, <2>1, <3>2
      <4>. QED
        BY <1>6, <1>12, <4>1 DEF Carries
    <3>. QED
      BY <3>1, <3>2
  <2>. QED
    BY <2>1 DEF HandOK
<1>. QED
  BY <1>9, <1>11, <1>13 DEF WInv

(* One slot of the peer of the tick is replaced. *)
LEMMA OneSlotRouted ==
  ASSUME FInv, Growth, SocketNodes', UNCHANGED closed, wire \subseteq wire',
         \A d \in wire' \ wire : Lawful(d)',
         NEW p \in Peers, NEW j \in DOMAIN slots[p], NEW t,
         DOMAIN slots'[p] = DOMAIN slots[p],
         slots'[p][j] = t,
         \A i \in DOMAIN slots[p] : i # j => slots'[p][i] = slots[p][i],
         \A r \in Peers : r # p => slots'[r] = slots[r],
         SlotKept(p, slots[p][j], t),
         Keeps => /\ p = Host => Given(t)'
                  /\ p # Host => Bound(p, t)',
         HandOK'
  PROVE  WInv'
<1>1. IInv /\ TypeOK /\ WInv
  BY DEF FInv, IInv
<1>2. Keeps
  <2>1. ASSUME NEW r \in Peers
        PROVE  /\ DOMAIN slots[r] \subseteq DOMAIN slots'[r]
               /\ \A i \in DOMAIN slots[r] :
                    SlotKept(r, slots[r][i], slots'[r][i])
    <3>1. CASE r = p
      <4>1. ASSUME NEW i \in DOMAIN slots[p]
            PROVE  SlotKept(p, slots[p][i], slots'[p][i])
        <5>1. CASE i = j
          BY <5>1
        <5>2. CASE i # j
          BY <5>2 DEF SlotKept
        <5>. QED
          BY <5>1, <5>2
      <4>. QED
        BY <3>1, <4>1
    <3>2. CASE r # p
      BY <3>2 DEF SlotKept
    <3>. QED
      BY <3>1, <3>2
  <2>. QED
    BY <2>1 DEF Keeps
<1>3. Apart'
  BY <1>1, <1>2, ApartKept DEF WInv
<1>4. ASSUME NEW i \in DOMAIN slots'[p]
      PROVE  /\ p = Host => Given(slots[p][i])'
             /\ p # Host => Bound(p, slots[p][i])'
  <2>1. CASE i = j
    BY <1>2, <2>1
  <2>2. CASE i # j
    <3>1. PICK s : s = slots[p][i]
      OBVIOUS
    <3>2. slots'[p][i] = s /\ i \in DOMAIN slots[p]
      BY <1>4, <2>2, <3>1
    <3>3. SlotOK(nodes[PoolOf[p]], s)
      BY <1>1, <3>1, <3>2, SlotTyped
    <3>4. CASE p = Host
      <4>1. Given(s)
        BY <1>1, <3>1, <3>2, <3>4 DEF WInv, HostSlots
      <4>2. Given(s)'
        BY <1>1, <1>2, <3>3, <3>4, <4>1, GivenKept
      <4>. QED
        BY <3>2, <3>4, <4>2
    <3>5. CASE p # Host
      <4>1. p \in Clients /\ Bound(p, s)
        BY <1>1, <3>1, <3>2, <3>5 DEF WInv, ClientSlots, Peers
      <4>2. Bound(p, s)'
        BY <1>1, <1>2, <3>3, <4>1, BoundKept
      <4>. QED
        BY <3>2, <3>5, <4>2
    <3>. QED
      BY <3>4, <3>5
  <2>. QED
    BY <2>1, <2>2
<1>5. HostSlots' /\ ClientSlots'
  BY <1>2, <1>4, SlotsFrame
<1>6. WireOK'
  BY <1>2, WireKept
<1>. QED
  BY <1>3, <1>5, <1>6 DEF WInv

(* resolve_address_and_id leaves the host's slots as they are, and takes a *)
(* client's to the port it was told, at the place it knew.                 *)
LEMMA ResolveSlotRouted ==
  ASSUME FInv, ~Moves, ResolveSlot
  PROVE  WInv'
<1>0. PICK p : p = tick.peer
  OBVIOUS
<1>. DEFINE j == tick.at
<1>1. IInv /\ TypeOK /\ TickOK /\ WInv /\ RInv
  BY DEF FInv, IInv
<1>2. /\ p = tick.peer /\ p \in Peers
      /\ Pool \in Pools /\ Pool = PoolOf[p]
      /\ List \in Seq(Node) /\ List = nodes[Pool]
      /\ Ours \in Seq(Slot) /\ Ours = slots[p]
  BY <1>0, <1>1, TickTyped DEF Pool, List, Ours
<1>3. j \in DOMAIN Ours
  BY <1>1, <1>2, TickTyped DEF ResolveSlot, TickOK
<1>4. PICK old \in Slot : old = Ours[j]
  BY <1>2, <1>3
<1>5. SlotOK(List, old) /\ SlotR(old)
  BY <1>1, <1>2, <1>3, <1>4 DEF IInv, SlotsOK, RInv
<1>6. PICK s \in Slot : s = Addressed(old)
  BY <1>1, <1>5, AddressedOK
<1>7. /\ s.local = old.local /\ s.remote = old.remote
      /\ s.resolved = old.resolved
      /\ \/ s.addr = old.addr
         \/ old.remote # Undefined /\ s.addr = RemoteName(List, old.remote)
      /\ old.named \/ old.remote = Undefined => s.addr = old.addr
  BY <1>4, <1>6 DEF Addressed, Slot
<1>8. ~ByAddress(s)
  BY <1>5, <1>7 DEF ByAddress, SlotR, Told, NoName
<1>9. /\ UNCHANGED <<wire, closed>> /\ HandOK
      /\ tick'.peer = tick.peer /\ tick'.packets = tick.packets
  BY <1>1 DEF ResolveSlot, Step, TypeOK, WInv
<1>10. ASSUME ByPreviousId(s)
       PROVE  WInv'
  <2>1. p # Host /\ p \in Clients
    <3>1. ~old.resolved /\ old.remote # Undefined
      BY <1>7, <1>10 DEF ByPreviousId
    <3>. QED
      BY <1>1, <1>2, <1>3, <1>4, <3>1 DEF WInv, HostSlots, Given, Peers
  <2>2. PICK name \in Name : name = Wanted(s)
    <3>1. SlotOK(List, s)
      BY <1>1, <1>4, <1>5, <1>6, AddressedOK
    <3>. QED
      BY <1>1, <3>1, WantedTyped
  <2>3. PICK t : t = [s EXCEPT !.remote = NodeId(List, name), !.resolved = TRUE]
    OBVIOUS
  <2>4. /\ nodes' = [nodes EXCEPT ![Pool] = WithNode(List, name, name)]
        /\ slots' = [slots EXCEPT ![p][j] = t]
    BY <1>2, <1>4, <1>6, <1>10, <2>2, <2>3 DEF ResolveSlot, Copied
  <2>5. old.remote # Undefined /\ s.addr = old.addr
    BY <1>5, <1>7, <1>10 DEF ByPreviousId, SlotR
  <2>6. name.at = List[old.remote].at /\ name.port = old.addr.port
    <3>1. s.addr \in Name
      BY <1>6 DEF Slot
    <3>. QED
      BY <1>7, <1>10, <2>2, <2>5, <3>1 DEF Wanted, Name
  <2>7. /\ Grown(List, WithNode(List, name, name))
        /\ IsRemote(WithNode(List, name, name), NodeId(List, name))
        /\ Shaped(WithNode(List, name, name))
        /\ RemoteName(WithNode(List, name, name), NodeId(List, name)) = name
    BY <1>1, <1>2, WithNodeGrows, WithNodeShaped, NodeFound DEF WInv, SocketNodes
  <2>8. /\ t.local = old.local /\ t.remote = NodeId(List, name)
        /\ t.addr = old.addr /\ t.resolved
    BY <1>6, <1>7, <2>3, <2>5 DEF Slot
  <2>9. Growth /\ SocketNodes' /\ nodes'[Pool] = WithNode(List, name, name)
    <3>. DEFINE new == WithNode(List, name, name)
    <3>1. /\ Grown(nodes[Pool], new) /\ Shaped(new)
          /\ nodes' = [nodes EXCEPT ![Pool] = new]
      BY <1>2, <2>4, <2>7
    <3>. HIDE DEF new
    <3>2. Growth /\ SocketNodes' /\ nodes'[Pool] = new
      BY <1>1, <1>2, <3>1, OnePoolGrows, OnePoolShaped DEF WInv
    <3>. QED
      BY <3>2 DEF new
  <2>10. /\ DOMAIN slots'[p] = DOMAIN slots[p] /\ slots'[p][j] = t
         /\ \A i \in DOMAIN slots[p] : i # j => slots'[p][i] = slots[p][i]
         /\ \A r \in Peers : r # p => slots'[r] = slots[r]
    BY <1>1, <1>2, <1>3, <2>4 DEF TypeOK
  <2>11. t.remote # Undefined
    BY <1>2, <2>7, <2>8 DEF IsRemote, Undefined, Grown
  <2>12. SlotKept(p, slots[p][j], t)
    BY <1>2, <1>4, <2>1, <2>8, <2>11 DEF SlotKept
  <2>13. Keeps => Bound(p, t)'
    <3>. SUFFICES ASSUME Keeps PROVE Bound(p, t)'
      OBVIOUS
    <3>1. Bound(p, old)
      BY <1>1, <1>2, <1>3, <1>4, <2>1 DEF WInv, ClientSlots
    <3>2. PICK own : own = Own(p, old)
      OBVIOUS
    <3>3. PICK port : port = old.addr.port
      OBVIOUS
    <3>4. Own(p, t)' = own
      BY <1>1, <1>2, <1>5, <2>8, <2>9, <3>2, NamesKept
    <3>5. Other(p, t)' = name
      <4>1. Other(p, t)' = RemoteName(nodes'[Pool], t.remote)
        BY <1>2 DEF Other
      <4>. QED
        BY <2>7, <2>8, <2>9, <4>1
    <3>6. Other(p, old).at = List[old.remote].at
      BY <1>2 DEF Other, RemoteName
    <3>7. (HostOpen' <=> HostOpen) /\ (Told(t)' <=> Told(old))
      BY <2>8 DEF Keeps, HostOpen, Told
    <3>8. HostSlotFor(port, own) => HostSlotFor(port, own)'
      BY <1>1, HostSlotForKept
    <3>9. Other(p, t)'.at = PoolOf[Host] /\ Other(p, t)'.port = port
      BY <2>5, <2>6, <3>1, <3>3, <3>5, <3>6 DEF Bound
    <3>10. HostOpen /\ Told(old) => HostSlotFor(port, own)
      BY <2>5, <3>1, <3>2, <3>3 DEF Bound
    <3>. QED
      BY <2>8, <3>3, <3>4, <3>7, <3>8, <3>9, <3>10 DEF Bound
  <2>14. HandOK'
    BY <1>1, <1>9, <2>9, HandKept
  <2>. QED
    BY <1>2, <1>3, <1>9, <2>1, <2>9, <2>10, <2>12, <2>13, <2>14, OneSlotRouted
<1>11. ASSUME ~ByPreviousId(s)
       PROVE  WInv'
  <2>1. UNCHANGED nodes /\ slots' = [slots EXCEPT ![p][j] = s]
    BY <1>2, <1>4, <1>6, <1>8, <1>11 DEF ResolveSlot
  <2>2. Growth /\ SocketNodes'
    BY <1>1, <2>1, NodesKept DEF WInv, SocketNodes, Shaped
  <2>3. /\ DOMAIN slots'[p] = DOMAIN slots[p] /\ slots'[p][j] = s
        /\ \A i \in DOMAIN slots[p] : i # j => slots'[p][i] = slots[p][i]
        /\ \A r \in Peers : r # p => slots'[r] = slots[r]
    BY <1>1, <1>2, <1>3, <2>1 DEF TypeOK
  <2>4. SlotKept(p, slots[p][j], s)
    BY <1>2, <1>4, <1>7 DEF SlotKept
  <2>5. ASSUME Keeps, p = Host
        PROVE  Given(s)'
    <3>1. Given(old) /\ SlotOK(nodes[PoolOf[Host]], old)
      BY <1>1, <1>2, <1>3, <1>4, <1>5, <2>5 DEF WInv, HostSlots
    <3>. QED
      BY <1>1, <1>7, <2>5, <3>1, GivenKept
  <2>6. ASSUME Keeps, p # Host
        PROVE  Bound(p, s)'
    <3>1. p \in Clients /\ Bound(p, old) /\ SlotOK(nodes[PoolOf[p]], old)
      BY <1>1, <1>2, <1>3, <1>4, <1>5, <2>6 DEF WInv, ClientSlots, Peers
    <3>2. Told(s) => s.addr = old.addr
      <4>1. ASSUME old.remote # Undefined, s.addr = RemoteName(List, old.remote)
            PROVE  ~Told(s)
        <5>1. s.addr.at = PoolOf[Host]
          BY <1>2, <3>1, <4>1 DEF Bound, Other
        <5>2. PoolOf[Host] # Nowhere
          BY PoolAssumption, PoolOfPeer DEF Peers
        <5>. QED
          BY <5>1, <5>2 DEF Told
      <4>. QED
        BY <1>7, <4>1
    <3>. QED
      BY <1>1, <1>7, <2>6, <3>1, <3>2, BoundKept
  <2>7. HandOK'
    BY <1>1, <1>9, <2>2, HandKept
  <2>. QED
    BY <1>2, <1>3, <1>9, <2>2, <2>3, <2>4, <2>5, <2>6, <2>7, OneSlotRouted
<1>. QED
  BY <1>10, <1>11

(* A socket of the host is no client's. *)
LEMMA HostNotClient ==
  ASSUME FInv, NEW i \in DOMAIN slots[Host]
  PROVE  ~ClientSocket(Own(Host, slots[Host][i]))
<1>1. IInv /\ DInv /\ SocketNodes /\ Apart /\ Host \in Peers /\ Host \notin Clients
  BY PoolAssumption DEF FInv, WInv, Peers
<1>2. ASSUME NEW c \in Clients, NEW j \in DOMAIN slots[c],
             Own(c, slots[c][j]) = Own(Host, slots[Host][i])
      PROVE  FALSE
  <2>. DEFINE q == PoolOf[Host]
              k == slots[Host][i].local
              l == slots[c][j].local
  <2>1. c \in Peers /\ c # Host /\ q \in Pools
    BY <1>1, PoolOfPeer DEF Peers
  <2>2. PoolOf[c] = q /\ nodes[q][l].local = nodes[q][k].local
    BY <1>2 DEF Own, LocalName
  <2>3. /\ k \in DOMAIN nodes[q] /\ nodes[q][k].local # AnyPort
        /\ l \in DOMAIN nodes[q] /\ nodes[q][l].local # AnyPort
        /\ nodes[q] \in Seq(Node)
    BY <1>1, <2>1, <2>2, SlotTyped DEF SlotOK, IsSocket
  <2>4. /\ nodes[q][k].remote = AnyPort /\ nodes[q][k].at = Nowhere
        /\ nodes[q][l].remote = AnyPort /\ nodes[q][l].at = Nowhere
    BY <1>1, <2>1, <2>3 DEF SocketNodes, Shaped
  <2>5. nodes[q][k] = nodes[q][l]
    <3>1. nodes[q][k] \in Node /\ nodes[q][l] \in Node
      BY <2>3
    <3>. QED
      BY <2>2, <2>4, <3>1 DEF Node
  <2>6. k = l
    BY <1>1, <2>1, <2>3, <2>5 DEF DInv, Distinct
  <2>. QED
    BY <1>1, <2>1, <2>2, <2>6 DEF Apart
<1>. QED
  BY <1>2 DEF ClientSocket

(* A client is given a slot of the host, or learns the port of one. *)
LEMMA InputRouted ==
  ASSUME FInv, Input
  PROVE  WInv'
<1>0. PICK p : p = tick.peer
  OBVIOUS
<1>1. IInv /\ TypeOK /\ PacketsOK /\ WInv /\ RInv
  BY DEF FInv, IInv
<1>2. /\ p = tick.peer /\ p \in Peers
      /\ Pool \in Pools /\ Pool = PoolOf[p]
      /\ List \in Seq(Node) /\ List = nodes[Pool]
      /\ Ours \in Seq(Slot) /\ Ours = slots[p]
      /\ tick.packets \in Seq(Packet) /\ tick.packets # <<>>
  BY <1>0, <1>1, TickTyped DEF Pool, List, Ours, Input
<1>3. PICK x \in Packet : x = Head(tick.packets)
  BY <1>2
<1>4. 1 \in DOMAIN tick.packets /\ x = tick.packets[1]
  BY <1>2, <1>3
<1>5. PacketOK(List, x)
  BY <1>1, <1>4 DEF PacketsOK
<1>6. PICK d \in wire : Carries(x, d)
  BY <1>1, <1>4 DEF WInv, HandOK
<1>7. Lawful(d)
  BY <1>1 DEF WInv, WireOK
<1>8. /\ slots' = [slots EXCEPT
                     ![p] = IF Accepts(x) THEN Assign(x)
                            ELSE IF Answers(x) THEN SessionResponse(x) ELSE Ours]
      /\ tick'.peer = tick.peer
      /\ tick'.packets = Tail(tick.packets)
      /\ UNCHANGED <<nodes, wire, closed>>
  BY <1>1, <1>2, <1>3 DEF Input, TypeOK
<1>9. Growth /\ SocketNodes'
  BY <1>1, <1>8, NodesKept DEF WInv, SocketNodes, Shaped
<1>10. HandOK'
  <2>1. ASSUME NEW n \in DOMAIN tick'.packets
        PROVE  \E e \in wire' : Carries(tick.packets[n], e)'
    <3>1. n + 1 \in DOMAIN tick.packets /\ tick'.packets[n] = tick.packets[n + 1]
      BY <1>2, <1>8, <2>1
    <3>2. PICK y : y = tick.packets[n + 1]
      OBVIOUS
    <3>3. PacketOK(List, y)
      BY <1>1, <3>1, <3>2 DEF PacketsOK
    <3>4. PICK e \in wire : Carries(y, e)
      BY <1>1, <3>1, <3>2 DEF WInv, HandOK
    <3>5. Carries(y, e)'
      BY <1>1, <1>8, <1>9, <3>3, <3>4, CarriesKept
    <3>. QED
      BY <1>8, <3>1, <3>2, <3>4, <3>5 DEF Carries
  <2>. QED
    BY <2>1 DEF HandOK
<1>11. ASSUME Accepts(x)
       PROVE  WInv'
  <2>1. Assignable # {} /\ p = Host /\ Intended(x)
    BY <1>2, <1>11 DEF Accepts
  <2>2. Assignable \subseteq DOMAIN Ours /\ Assignable \subseteq Nat
    BY <1>2 DEF Assignable, FreeSlots
  <2>3. PICK j \in Assignable : j = Min(Assignable)
    BY <2>1, <2>2, MinIn
  <2>4. j \in DOMAIN Ours /\ Ours[j].remote = Undefined
    BY <2>3 DEF Assignable, FreeSlots
  <2>5. /\ slots'[p] = Assign(x)
        /\ \A r \in Peers : r # p => slots'[r] = slots[r]
    BY <1>1, <1>2, <1>8, <1>11 DEF TypeOK
  <2>6. /\ DOMAIN Assign(x) = DOMAIN Ours
        /\ Assign(x)[j].local = Ours[j].local
        /\ Assign(x)[j].remote = x.src /\ Assign(x)[j].resolved
        /\ \A i \in DOMAIN Ours : i # j => Assign(x)[i] = Ours[i]
    <3>1. Ours[j] \in Slot
      BY <1>2, <2>4
    <3>. QED
      BY <2>3, <2>4, <3>1 DEF Assign, Slot
  <2>7. PICK t : t = Assign(x)[j]
    OBVIOUS
  <2>8. SlotKept(p, slots[p][j], t)
    BY <1>2, <2>4, <2>6, <2>7 DEF SlotKept
  <2>9. closed = {} => ClientSocket(d.from)
    <3>1. PICK i \in DOMAIN Ours : Ours[i].local = x.dst
      BY <2>1 DEF Intended
    <3>2. d.to = Own(Host, slots[Host][i])
      BY <1>2, <1>6, <2>1, <3>1 DEF Carries, Own
    <3>3. ~ClientSocket(Own(Host, slots[Host][i]))
      BY <1>2, <2>1, <3>1, HostNotClient
    <3>. QED
      BY <1>7, <3>2, <3>3 DEF Lawful
  <2>10. Keeps => Given(t)'
    <3>. SUFFICES ASSUME Keeps PROVE Given(t)'
      OBVIOUS
    <3>1. PICK name : name = d.from
      OBVIOUS
    <3>2. ClientSocket(name) => ClientSocket(name)'
      BY <1>1, ClientSocketKept
    <3>3. Other(Host, t)' = name
      <4>1. Other(Host, t)' = RemoteName(List, t.remote)
        BY <1>2, <1>8, <2>1 DEF Other
      <4>. QED
        BY <1>6, <2>6, <2>7, <3>1, <4>1 DEF Carries
    <3>. QED
      BY <1>8, <2>6, <2>7, <2>9, <3>1, <3>2, <3>3 DEF Given
  <2>. QED
    BY <1>2, <1>8, <1>9, <1>10, <2>1, <2>4, <2>5, <2>6, <2>7, <2>8, <2>10,
       OneSlotRouted
<1>12. ASSUME ~Accepts(x), Answers(x)
       PROVE  WInv'
  <2>1. Addressees(x) # {} /\ p # Host /\ p \in Clients /\ x.response # AnyPort
    BY <1>2, <1>12 DEF Answers, Peers
  <2>2. Addressees(x) \subseteq DOMAIN Ours /\ Addressees(x) \subseteq Nat
    BY <1>2 DEF Addressees
  <2>3. PICK j \in Addressees(x) : j = Min(Addressees(x))
    BY <2>1, <2>2, MinIn
  <2>4. j \in DOMAIN Ours /\ Ours[j].remote = x.src /\ Ours[j].local = x.dst
    BY <2>3 DEF Addressees
  <2>5. /\ slots'[p] = SessionResponse(x)
        /\ \A r \in Peers : r # p => slots'[r] = slots[r]
    BY <1>1, <1>2, <1>8, <1>12 DEF TypeOK
  <2>6. /\ DOMAIN SessionResponse(x) = DOMAIN Ours
        /\ LET s == SessionResponse(x)[j]
           IN  /\ s.local = Ours[j].local
               /\ s.remote = Ours[j].remote
               /\ s.resolved = FALSE
               /\ s.addr = [at |-> Nowhere, port |-> x.response]
        /\ \A i \in DOMAIN Ours : i # j => SessionResponse(x)[i] = Ours[i]
    <3>1. Ours[j] \in Slot
      BY <1>2, <2>4
    <3>. QED
      BY <2>3, <2>4, <3>1 DEF SessionResponse, Slot
  <2>7. PICK t : t = SessionResponse(x)[j]
    OBVIOUS
  <2>8. PICK old : old = Ours[j]
    OBVIOUS
  <2>9. /\ t.local = old.local /\ t.remote = old.remote /\ ~t.resolved
        /\ t.addr.port = x.response /\ old.local = x.dst
    BY <2>4, <2>6, <2>7, <2>8
  <2>10. SlotKept(p, slots[p][j], t)
    BY <1>2, <2>1, <2>8, <2>9 DEF SlotKept
  <2>11. Keeps => Bound(p, t)'
    <3>. SUFFICES ASSUME Keeps PROVE Bound(p, t)'
      OBVIOUS
    <3>1. Bound(p, old) /\ SlotOK(nodes[PoolOf[p]], old)
      BY <1>1, <1>2, <2>1, <2>4, <2>8, SlotTyped DEF WInv, ClientSlots
    <3>2. PICK name : name = d.to
      OBVIOUS
    <3>3. PICK port : port = x.response
      OBVIOUS
    <3>4. Own(p, old) = name
      BY <1>2, <1>6, <2>9, <3>2 DEF Carries, Own
    <3>5. /\ Own(p, t)' = name
          /\ old.remote # Undefined => Other(p, t)' = Other(p, old)
      BY <1>1, <1>2, <1>9, <2>9, <3>1, <3>4, NamesKept
    <3>6. HostOpen' <=> HostOpen
      BY <1>8 DEF HostOpen
    <3>7. HostOpen => HostSlotFor(port, name)
      BY <1>6, <1>7, <2>1, <3>2, <3>3 DEF Lawful, Carries
    <3>8. HostSlotFor(port, name) => HostSlotFor(port, name)'
      BY <1>1, HostSlotForKept
    <3>. QED
      BY <2>9, <3>1, <3>3, <3>5, <3>6, <3>7, <3>8 DEF Bound
  <2>12. /\ DOMAIN slots'[p] = DOMAIN slots[p]
         /\ slots'[p][j] = t
         /\ \A i \in DOMAIN slots[p] : i # j => slots'[p][i] = slots[p][i]
         /\ j \in DOMAIN slots[p]
    BY <1>2, <2>4, <2>5, <2>6, <2>7
  <2>13. closed' = closed /\ wire' = wire
    BY <1>8
  <2>. QED
    BY <1>2, <1>9, <1>10, <2>1, <2>5, <2>10, <2>11, <2>12, <2>13, OneSlotRouted
<1>13. ASSUME ~Accepts(x), ~Answers(x)
       PROVE  WInv'
  <2>1. slots' = slots
    BY <1>1, <1>2, <1>8, <1>13 DEF TypeOK
  <2>2. Keeps
    BY <1>8, <1>9, <2>1 DEF Keeps, SlotKept
  <2>3. Apart'
    BY <1>1, <2>1 DEF WInv, Apart
  <2>4. HostSlots' /\ ClientSlots' /\ WireOK'
    BY <1>8, <2>1, <2>2, SlotsUnchanged, WireKept
  <2>. QED
    BY <1>9, <1>10, <2>3, <2>4 DEF WInv
<1>. QED
  BY <1>11, <1>12, <1>13

---------------------------------------------------------------------------
(* What is sent leads to a client's socket, or comes from one, and a       *)
(* response tells the port of the slot that the client was given.          *)
LEMMA SendLawful ==
  ASSUME FInv, SendResponse \/ SendData, NEW d,
         d = IF SendResponse THEN Response(Ours[tick.at])
                             ELSE Data(Ours[tick.at])
  PROVE  Lawful(d)
<1>. DEFINE j == tick.at
            s == Ours[j]
<1>1. IInv /\ TypeOK /\ TickOK /\ WInv /\ Host \notin Clients
  BY PoolAssumption DEF FInv, IInv
<1>2. /\ tick.peer \in Peers /\ Ours \in Seq(Slot) /\ Ours = slots[tick.peer]
      /\ tick.phase # "idle" /\ j \in Nat /\ j <= Len(Ours)
  BY <1>1, TickTyped DEF Ours, SendResponse, SendData, Sending
<1>3. j \in DOMAIN Ours
  BY <1>1, <1>2 DEF TickOK
<1>4. SlotOK(List, s)
  BY <1>1, <1>2, <1>3, SlotTyped DEF List, Pool
<1>5. s.remote # Undefined
  BY <1>4 DEF SendResponse, SendData, Sends, SlotOK
<1>6. CASE SendResponse
  <2>1. tick.peer = Host /\ Ours = slots[Host]
    BY <1>2, <1>6 DEF SendResponse
  <2>2. /\ d.to = Other(Host, slots[Host][j])
        /\ d.response = Own(Host, slots[Host][j]).port
    BY <1>6, <2>1 DEF Response, Other, Own, LocalName, RemoteName, List, Pool
  <2>3. HostSlotFor(d.response, d.to)
    BY <1>3, <1>5, <2>1, <2>2 DEF HostSlotFor
  <2>4. closed = {} => ClientSocket(d.to)
    BY <1>1, <1>3, <1>5, <2>1, <2>2 DEF WInv, HostSlots, Given
  <2>. QED
    BY <2>3, <2>4 DEF Lawful
<1>7. CASE ~SendResponse
  <2>1. d = Data(s)
    BY <1>7
  <2>2. d.response = AnyPort
    BY <2>1 DEF Data
  <2>3. CASE tick.peer = Host
    <3>1. d.to = Other(Host, slots[Host][j])
      BY <1>2, <2>1, <2>3 DEF Data, Other, List, Pool
    <3>2. closed = {} => ClientSocket(d.to)
      BY <1>1, <1>2, <1>3, <1>5, <2>3, <3>1 DEF WInv, HostSlots, Given
    <3>. QED
      BY <2>2, <3>2 DEF Lawful
  <2>4. CASE tick.peer # Host
    <3>1. PICK c \in Clients : c = tick.peer
      BY <1>2, <2>4 DEF Peers
    <3>2. d.from = Own(c, slots[c][j])
      BY <1>2, <2>1, <3>1 DEF Data, Own, List, Pool
    <3>3. ClientSocket(d.from)
      BY <1>2, <1>3, <1>5, <3>1, <3>2 DEF ClientSocket
    <3>. QED
      BY <2>2, <3>3 DEF Lawful
  <2>. QED
    BY <2>3, <2>4
<1>. QED
  BY <1>6, <1>7

LEMMA SendRouted ==
  ASSUME FInv, SendResponse \/ SendData
  PROVE  WInv'
<1>0. PICK d : d = IF SendResponse THEN Response(Ours[tick.at])
                                   ELSE Data(Ours[tick.at])
  OBVIOUS
<1>1. IInv /\ TypeOK /\ TickOK /\ WInv /\ Host \in Peers
  BY DEF FInv, IInv, Peers
<1>2. Lawful(d)
  BY <1>0, SendLawful
<1>3. /\ tick' = Step /\ tick.phase # "idle" /\ UNCHANGED <<nodes, closed>>
      /\ tick'.peer = tick.peer /\ tick'.packets = tick.packets
  BY <1>1, TickAdvances DEF SendResponse, SendData, Sending
<1>4. Growth /\ SocketNodes'
  BY <1>1, <1>3, NodesKept DEF WInv, SocketNodes, Shaped
<1>5. ASSUME SendResponse
      PROVE  WInv'
  <2>1. wire' = wire \cup {d}
    BY <1>0, <1>5 DEF SendResponse
  <2>2. PICK j : j = tick.at
    OBVIOUS
  <2>3. /\ Ours \in Seq(Slot) /\ Ours = slots[Host] /\ j \in DOMAIN Ours
        /\ tick.peer = Host
    BY <1>1, <1>3, <1>5, <2>2, TickTyped DEF SendResponse, Sending, TickOK, Ours
  <2>4. PICK s \in Slot : s = slots[Host][j]
    BY <2>3
  <2>5. PICK t : t = [s EXCEPT !.state = "ready"]
    OBVIOUS
  <2>6. t.local = s.local /\ t.remote = s.remote /\ t.resolved = s.resolved
    BY <2>5 DEF Slot
  <2>7. PICK list : list = [slots[Host] EXCEPT ![j] = t]
    OBVIOUS
  <2>8. slots' = [slots EXCEPT ![Host] = list]
    BY <1>1, <1>5, <2>2, <2>4, <2>5, <2>7 DEF SendResponse
  <2>9. /\ DOMAIN list = DOMAIN slots[Host] /\ list[j] = t
        /\ \A i \in DOMAIN slots[Host] : i # j => list[i] = slots[Host][i]
    BY <2>3, <2>7
  <2>10. SlotKept(Host, slots[Host][j], t)
    BY <2>4, <2>6 DEF SlotKept
  <2>11. \A i \in DOMAIN slots[Host] : SlotKept(Host, slots[Host][i], list[i])
    BY <2>9, <2>10 DEF SlotKept
  <2>12. /\ Keeps /\ slots'[Host] = list
         /\ \A r \in Peers : r # Host => slots'[r] = slots[r]
    BY <1>1, <1>3, <1>4, <2>1, <2>8, <2>9, <2>11, OnePeerKeeps
  <2>13. Given(t)'
    <3>1. Given(s) /\ SlotOK(nodes[PoolOf[Host]], s)
      BY <1>1, <2>3, <2>4, SlotTyped DEF WInv, HostSlots
    <3>. QED
      BY <1>1, <2>6, <2>12, <3>1, GivenKept
  <2>14. Lawful(d)'
    BY <1>1, <1>2, <2>12, LawfulKept
  <2>15. HandOK'
    BY <1>1, <1>3, <1>4, <2>1, HandKept DEF WInv
  <2>. QED
    BY <1>1, <1>3, <1>4, <2>1, <2>3, <2>9, <2>10, <2>12, <2>13, <2>14, <2>15,
       OneSlotRouted
<1>6. ASSUME ~SendResponse
      PROVE  WInv'
  <2>1. wire' = wire \cup {d} /\ slots' = slots
    BY <1>0, <1>6 DEF SendData
  <2>2. Keeps
    BY <1>3, <1>4, <2>1 DEF Keeps, SlotKept
  <2>3. Lawful(d)'
    BY <1>1, <1>2, <2>2, LawfulKept
  <2>4. Apart'
    BY <1>1, <2>1 DEF WInv, Apart
  <2>5. HostSlots' /\ ClientSlots' /\ WireOK'
    BY <2>1, <2>2, <2>3, SlotsUnchanged, WireKept
  <2>6. HandOK'
    BY <1>1, <1>3, <1>4, <2>1, HandKept DEF WInv
  <2>. QED
    BY <1>4, <2>4, <2>5, <2>6 DEF WInv
<1>. QED
  BY <1>5, <1>6

---------------------------------------------------------------------------
LEMMA InitFInv == Init => FInv
<1>. SUFFICES ASSUME Init PROVE FInv
  OBVIOUS
<1>1. Host \in Peers /\ Clients \subseteq Peers
  BY DEF Peers
<1>2. IInv
  BY InitIInv
<1>3. DInv
  BY DEF Init, DInv, Distinct, PortsUpTo
<1>4. RInv
  BY DEF Init, Idle, RInv, TurnR
<1>5. SocketNodes /\ Apart
  BY DEF Init, SocketNodes, Shaped, Apart
<1>6. HostSlots /\ ClientSlots
  BY <1>1 DEF Init, HostSlots, ClientSlots
<1>7. WireOK /\ HandOK
  BY DEF Init, Idle, WireOK, HandOK
<1>. QED
  BY <1>2, <1>3, <1>4, <1>5, <1>6, <1>7 DEF FInv, WInv

LEMMA NextFInv ==
  ASSUME FInv, ~Moves, [Next]_vars
  PROVE  FInv'
<1>1. IInv /\ DInv /\ RInv /\ TypeOK
  BY DEF FInv, IInv
<1>2. IInv' /\ DInv' /\ RInv'
  BY <1>1, NextIInv, NextDInv, NextGood DEF Good, RInv
<1>3. ASSUME \/ \E p \in Peers : TickBegin(p)
             \/ Resolved \/ NothingReceived \/ Received \/ InputDone
             \/ NothingSent \/ TickEnd
      PROVE  WInv'
  <2>1. /\ UNCHANGED <<nodes, slots, wire, closed>>
        /\ \/ tick'.packets = <<>>
           \/ tick'.peer = tick.peer /\ tick'.packets = tick.packets
    <3>1. ASSUME \/ \E p \in Peers : TickBegin(p)
                 \/ TickEnd
          PROVE  UNCHANGED <<nodes, slots, wire, closed>> /\ tick'.packets = <<>>
      BY <3>1 DEF TickBegin, TickEnd, Idle
    <3>2. ASSUME \/ Resolved \/ NothingReceived \/ Received \/ InputDone
                 \/ NothingSent
          PROVE  /\ UNCHANGED <<nodes, slots, wire, closed>>
                 /\ tick.phase # "idle"
                 /\ \/ tick' = Step
                    \/ \E name \in {"receive", "input", "send"} :
                         tick' = Phase(name)
      BY <3>2 DEF Resolved, NothingReceived, Received, InputDone, NothingSent,
         Sending
    <3>3. ASSUME \/ Resolved \/ NothingReceived \/ Received \/ InputDone
                 \/ NothingSent
          PROVE  tick'.peer = tick.peer /\ tick'.packets = tick.packets
      BY <1>1, <3>2, <3>3, TickAdvances DEF IInv
    <3>. QED
      BY <1>3, <3>1, <3>2, <3>3
  <2>. QED
    BY <2>1, QuietStep
<1>4. CASE UNCHANGED vars
  <2>1. UNCHANGED <<nodes, slots, wire, closed, tick>>
    BY <1>4 DEF vars
  <2>. QED
    BY <1>2, <2>1, QuietStep DEF FInv
<1>5. CASE Next
  <2>1. WInv'
    BY <1>3, <1>5, PoolOpenRouted, PoolConnectRouted, PoolConnectOpenRouted,
       PoolConnectFailsRouted, PoolDestroyRouted, ResolveSlotRouted,
       ReceiveRouted, InputRouted, SendRouted DEF Next
  <2>. QED
    BY <1>2, <2>1 DEF FInv
<1>. QED
  BY <1>4, <1>5

LEMMA FInvRouted ==
  ASSUME FInv
  PROVE  Routed
<1>1. IInv /\ TypeOK /\ WInv /\ Host \in Peers
  BY DEF FInv, IInv, Peers
<1>2. ASSUME NEW c \in Clients, PoolOf[Host] \notin closed,
             NEW s \in Taken(c), Answered(s)
      PROVE  \E h \in Taken(Host) : /\ Own(Host, h) = Other(c, s)
                                    /\ Other(Host, h) = Own(c, s)
  <2>1. PICK i \in DOMAIN slots[c] : slots[c][i] = s /\ s.remote # Undefined
    BY <1>2 DEF Taken
  <2>2. /\ Other(c, s).at = PoolOf[Host]
        /\ Other(c, s).port = s.addr.port
        /\ HostSlotFor(s.addr.port, Own(c, s))
    <3>1. Bound(c, s)
      BY <1>1, <1>2, <2>1 DEF WInv, ClientSlots
    <3>. QED
      BY <1>2, <2>1, <3>1 DEF Bound, Told, Answered, HostOpen
  <2>3. PICK j \in DOMAIN slots[Host] :
          /\ slots[Host][j].remote # Undefined
          /\ Own(Host, slots[Host][j]).port = s.addr.port
          /\ Other(Host, slots[Host][j]) = Own(c, s)
    BY <2>2 DEF HostSlotFor
  <2>4. Own(Host, slots[Host][j]) = Other(c, s)
    BY <2>2, <2>3 DEF Own, Other, LocalName, RemoteName
  <2>5. slots[Host][j] \in Taken(Host)
    BY <2>3 DEF Taken
  <2>. QED
    BY <2>3, <2>4, <2>5
<1>3. ASSUME \A q \in Pools : q \notin closed, NEW h \in Taken(Host)
      PROVE  \E c \in Clients : \E s \in Taken(c) : Other(Host, h) = Own(c, s)
  <2>1. closed = {}
    BY <1>1, <1>3 DEF TypeOK
  <2>2. ClientSocket(Other(Host, h))
    BY <1>1, <1>3, <2>1 DEF Taken, WInv, HostSlots, Given
  <2>. QED
    BY <2>2 DEF ClientSocket, Taken
<1>. QED
  BY <1>2, <1>3 DEF Routed

(* Whatever the peers of shared pools do, in any order, and whichever      *)
(* datagrams are lost or come twice: a client that has looked up the port  *)
(* of the host's answer sends to the socket of a slot which the host has   *)
(* given to that client, and the host gives slots to sockets of clients    *)
(* only, as long as the array of nodes does not move while it grows.       *)
THEOREM RoutedHolds ==
  ASSUME ~Moves
  PROVE  Spec => []Routed
<1>1. FInv /\ [Next]_vars => FInv'
  BY NextFInv
<1>2. FInv => Routed
  BY FInvRouted
<1>. QED
  BY <1>1, <1>2, InitFInv, PTL DEF Spec

===========================================================================
