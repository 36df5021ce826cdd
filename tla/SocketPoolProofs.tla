-------------------------- MODULE SocketPoolProofs --------------------------
(***************************************************************************)
(* The ids of a pool are sound: every id that a peer holds or is given is  *)
(* a place in the array of its pool, and an address has one id.            *)
(***************************************************************************)
EXTENDS SocketPool, SequenceTheorems, WellFoundedInduction, TLAPS

(* An array that has grown keeps the nodes it had. *)
Grown(old, new) ==
  /\ new \in Seq(Node)
  /\ Len(old) <= Len(new)
  /\ \A k \in 1..Len(old) : new[k] = old[k]

(* Packets are in hand during a tick only, and loops count from 1. *)
TickOK ==
  /\ tick.phase = "idle" => tick.packets = <<>>
  /\ tick.phase # "idle" => tick.at >= 1

(* A slot that the host answers on was given a client. *)
SlotOK(list, s) ==
  /\ IsSocket(list, s.local)
  /\ s.remote = Undefined \/ IsRemote(list, s.remote)
  /\ s.state # "empty" => s.remote # Undefined

PacketOK(list, x) == IsSocket(list, x.dst) /\ IsRemote(list, x.src)

SlotsOK ==
  \A p \in Peers : \A i \in DOMAIN slots[p] :
    SlotOK(nodes[PoolOf[p]], slots[p][i])

PacketsOK ==
  \A n \in DOMAIN tick.packets : PacketOK(List, tick.packets[n])

(* Types and ranges of ids together are inductive: an address is looked up *)
(* by an id, so that its type needs the range of the id, and the range of  *)
(* a new id is that of an array of nodes.                                  *)
IInv == TypeOK /\ TickOK /\ SlotsOK /\ PacketsOK

(* The least of some numbers is one of them. *)
LEMMA MinIn ==
  ASSUME NEW S, S \subseteq Nat, S # {}
  PROVE  Min(S) \in S
<1>. DEFINE R == {ss \in Nat \X Nat : ss[1] < ss[2]}
<1>1. IsWellFoundedOn(R, Nat)
  BY NatLessThanWellFounded DEF OpToRel
<1>2. PICK x \in S : \A y \in S : ~(<<y, x>> \in R)
  <2>. HIDE DEF R
  <2>. QED
    BY <1>1, WFMin
<1>3. \A y \in S : x <= y
  <2>. SUFFICES ASSUME NEW y \in S PROVE x <= y
    OBVIOUS
  <2>1. x \in Nat /\ y \in Nat
    OBVIOUS
  <2>2. y < x => <<y, x>> \in R
    BY <2>1
  <2>3. ~(y < x)
    BY <1>2, <2>2
  <2>. QED
    BY <2>1, <2>3
<1>. QED
  BY <1>3, Zenon DEF Min

(* A slot's ids stay what they are while the array grows. *)
LEMMA GrownIds ==
  ASSUME NEW old \in Seq(Node), NEW new, Grown(old, new), NEW id
  PROVE  /\ IsSocket(old, id) => IsSocket(new, id)
         /\ IsRemote(old, id) => IsRemote(new, id)
BY DEF Grown, IsSocket, IsRemote

(* find_pool_node makes at most one node more, and returns a remote one. *)
LEMMA WithNodeGrows ==
  ASSUME NEW list \in Seq(Node), NEW name \in Name, NEW copied \in Name
  PROVE  /\ Grown(list, WithNode(list, name, copied))
         /\ IsRemote(WithNode(list, name, copied), NodeId(list, name))
         /\ NodeId(list, name) \in Nat
<1>1. CASE Matches(list, name) = {}
  <2>1. RemoteNode(copied) \in Node
    BY DEF RemoteNode, Node, Name, AnyPort
  <2>2. /\ Append(list, RemoteNode(copied)) \in Seq(Node)
        /\ Len(Append(list, RemoteNode(copied))) = Len(list) + 1
        /\ \A k \in 1..Len(list) :
             Append(list, RemoteNode(copied))[k] = list[k]
        /\ Append(list, RemoteNode(copied))[Len(list) + 1] = RemoteNode(copied)
    BY <2>1
  <2>3. RemoteNode(copied).local = AnyPort
    BY DEF RemoteNode
  <2>. QED
    BY <1>1, <2>2, <2>3 DEF WithNode, NodeId, Grown, IsRemote
<1>2. CASE Matches(list, name) # {}
  <2>1. Matches(list, name) \subseteq Nat
    BY DEF Matches
  <2>2. Min(Matches(list, name)) \in Matches(list, name)
    BY <1>2, <2>1, MinIn
  <2>. QED
    BY <1>2, <2>2 DEF WithNode, NodeId, Grown, IsRemote, Matches
<1>. QED
  BY <1>1, <1>2

(* New sockets go to the end of the array. *)
LEMMA SocketsGrow ==
  ASSUME NEW list \in Seq(Node), ports \in Nat, NEW count \in Nat
  PROVE  /\ Grown(list, list \o Sockets(count))
         /\ \A k \in 1..count : IsSocket(list \o Sockets(count), Len(list) + k)
<1>1. Sockets(count) \in Seq(Node) /\ Len(Sockets(count)) = count
  <2>1. \A k \in 1..count : SocketNode(ports + k) \in Node
    BY DEF SocketNode, Node, Places, AnyPort
  <2>. QED
    BY <2>1 DEF Sockets
<1>2. \A k \in 1..count : Sockets(count)[k] = SocketNode(ports + k)
  BY DEF Sockets
<1>3. /\ list \o Sockets(count) \in Seq(Node)
      /\ Len(list \o Sockets(count)) = Len(list) + count
      /\ \A k \in 1..Len(list) : (list \o Sockets(count))[k] = list[k]
      /\ \A k \in 1..count :
           (list \o Sockets(count))[Len(list) + k] = Sockets(count)[k]
  <2>. DEFINE new == Sockets(count)
  <2>1. new \in Seq(Node) /\ Len(new) = count
    BY <1>1
  <2>. HIDE DEF new
  <2>2. /\ list \o new \in Seq(Node)
        /\ Len(list \o new) = Len(list) + count
        /\ \A k \in 1..(Len(list) + count) :
             (list \o new)[k] = IF k <= Len(list) THEN list[k]
                                                 ELSE new[k - Len(list)]
    BY <2>1, ConcatProperties
  <2>3. \A k \in 1..count : (list \o new)[Len(list) + k] = new[k]
    BY <2>1, <2>2
  <2>. QED
    BY <2>1, <2>2, <2>3 DEF new
<1>4. \A k \in 1..count : SocketNode(ports + k).local # AnyPort
  BY DEF SocketNode, AnyPort
<1>. DEFINE new == list \o Sockets(count)
<1>5. /\ new \in Seq(Node) /\ Len(new) = Len(list) + count
      /\ \A k \in 1..Len(list) : new[k] = list[k]
      /\ \A k \in 1..count : new[Len(list) + k].local # AnyPort
  BY <1>2, <1>3, <1>4
<1>. HIDE DEF new
<1>6. Grown(list, new)
  BY <1>5 DEF Grown
<1>7. ASSUME NEW k \in 1..count PROVE IsSocket(new, Len(list) + k)
  <2>1. Len(list) \in Nat /\ k \in Nat /\ 1 <= k /\ k <= count
    OBVIOUS
  <2>2. Len(list) + k \in 1..Len(new)
    BY <1>5, <2>1
  <2>3. DOMAIN new = 1..Len(new)
    BY <1>5
  <2>. QED
    BY <1>5, <2>2, <2>3 DEF IsSocket
<1>. QED
  BY <1>6, <1>7 DEF new

---------------------------------------------------------------------------
(* A step that only adds nodes to pools. *)
Growth ==
  /\ nodes' \in [Pools -> Seq(Node)]
  /\ \A q \in Pools : Grown(nodes[q], nodes'[q])

LEMMA PoolOfPeer ==
  ASSUME NEW p \in Peers
  PROVE  PoolOf[p] \in Pools
BY PoolAssumption

LEMMA NodesKept ==
  ASSUME TypeOK, UNCHANGED nodes
  PROVE  Growth
BY DEF TypeOK, Growth, Grown

LEMMA OnePoolGrows ==
  ASSUME TypeOK, NEW q \in Pools, NEW new, Grown(nodes[q], new),
         nodes' = [nodes EXCEPT ![q] = new]
  PROVE  Growth /\ nodes'[q] = new
<1>1. nodes \in [Pools -> Seq(Node)]
  BY DEF TypeOK
<1>2. nodes'[q] = new /\ \A r \in Pools \ {q} : nodes'[r] = nodes[r]
  BY <1>1
<1>3. new \in Seq(Node)
  BY DEF Grown
<1>4. nodes' \in [Pools -> Seq(Node)]
  BY <1>1, <1>3
<1>5. ASSUME NEW r \in Pools PROVE Grown(nodes[r], nodes'[r])
  <2>1. CASE r = q
    BY <1>2, <2>1
  <2>2. CASE r # q
    BY <1>1, <1>2, <2>2 DEF Grown
  <2>. QED
    BY <2>1, <2>2
<1>. QED
  BY <1>2, <1>4, <1>5 DEF Growth

(* What holds of a slot or a packet does so in an array that has grown. *)
LEMMA GrownOK ==
  ASSUME NEW old \in Seq(Node), NEW new, Grown(old, new), NEW x
  PROVE  /\ SlotOK(old, x) => SlotOK(new, x)
         /\ PacketOK(old, x) => PacketOK(new, x)
BY GrownIds DEF SlotOK, PacketOK

LEMMA SlotsKept ==
  ASSUME TypeOK, SlotsOK, Growth, UNCHANGED slots
  PROVE  SlotsOK'
<1>. SUFFICES ASSUME NEW p \in Peers, NEW i \in DOMAIN slots[p]
              PROVE  SlotOK(nodes'[PoolOf[p]], slots[p][i])
  BY DEF SlotsOK
<1>1. SlotOK(nodes[PoolOf[p]], slots[p][i])
  BY DEF SlotsOK
<1>2. nodes[PoolOf[p]] \in Seq(Node)
  BY PoolOfPeer DEF TypeOK
<1>3. Grown(nodes[PoolOf[p]], nodes'[PoolOf[p]])
  BY PoolOfPeer DEF Growth
<1>. QED
  BY <1>1, <1>2, <1>3, GrownOK

(* A step that changes the slots of one peer. *)
LEMMA OnePeerChanges ==
  ASSUME TypeOK, SlotsOK, Growth,
         NEW p \in Peers, NEW list \in Seq(Slot),
         \A i \in DOMAIN list : SlotOK(nodes'[PoolOf[p]], list[i]),
         slots' = [slots EXCEPT ![p] = list]
  PROVE  slots' \in [Peers -> Seq(Slot)] /\ SlotsOK'
<1>1. slots \in [Peers -> Seq(Slot)]
  BY DEF TypeOK
<1>2. slots' \in [Peers -> Seq(Slot)]
  BY <1>1
<1>3. slots'[p] = list /\ \A r \in Peers \ {p} : slots'[r] = slots[r]
  BY <1>1
<1>4. ASSUME NEW r \in Peers, NEW i \in DOMAIN slots'[r]
      PROVE  SlotOK(nodes'[PoolOf[r]], slots'[r][i])
  <2>1. CASE r = p
    BY <1>3, <2>1
  <2>2. CASE r # p
    <3>1. i \in DOMAIN slots[r] /\ slots'[r][i] = slots[r][i]
      BY <1>3, <2>2
    <3>2. SlotOK(nodes[PoolOf[r]], slots[r][i])
      BY <3>1 DEF SlotsOK
    <3>3. nodes[PoolOf[r]] \in Seq(Node)
      BY PoolOfPeer DEF TypeOK
    <3>4. Grown(nodes[PoolOf[r]], nodes'[PoolOf[r]])
      BY PoolOfPeer DEF Growth
    <3>. QED
      BY <3>1, <3>2, <3>3, <3>4, GrownOK
  <2>. QED
    BY <2>1, <2>2
<1>. QED
  BY <1>2, <1>4 DEF SlotsOK

(* Packets in hand keep their meaning while the same tick goes on. *)
LEMMA PacketsKept ==
  ASSUME TypeOK, PacketsOK, Growth,
         tick'.peer = tick.peer, tick'.packets = tick.packets
  PROVE  PacketsOK'
<1>. SUFFICES ASSUME NEW n \in DOMAIN tick.packets
              PROVE  PacketOK(nodes'[Pool], tick.packets[n])
  BY DEF PacketsOK, List, Pool
<1>1. PacketOK(nodes[Pool], tick.packets[n])
  BY DEF PacketsOK, List
<1>2. Pool \in Pools
  BY PoolOfPeer DEF Pool, TypeOK
<1>3. nodes[Pool] \in Seq(Node) /\ Grown(nodes[Pool], nodes'[Pool])
  BY <1>2 DEF TypeOK, Growth
<1>. QED
  BY <1>1, <1>3, GrownOK

---------------------------------------------------------------------------
(* The slots that opening and connecting make. *)

LEMMA NameNull == NoName \in Name
BY DEF NoName, Name, Places, AnyPort

LEMMA NewSlotsTyped ==
  ASSUME NEW n \in Nat, NEW count \in Nat
  PROVE  /\ NewSlots(n, count) \in Seq(Slot)
         /\ Len(NewSlots(n, count)) = count
         /\ \A k \in 1..count : NewSlots(n, count)[k] = NewSlot(n + k)
<1>1. \A k \in 1..count : NewSlot(n + k) \in Slot
  BY NameNull DEF NewSlot, Slot, Undefined
<1>. QED
  BY <1>1 DEF NewSlots

(* Slots put after others. *)
LEMMA SlotsJoined ==
  ASSUME NEW a \in Seq(Slot), NEW b \in Seq(Slot), NEW list,
         \A i \in 1..Len(a) : SlotOK(list, a[i]),
         \A i \in 1..Len(b) : SlotOK(list, b[i])
  PROVE  /\ a \o b \in Seq(Slot)
         /\ \A i \in DOMAIN (a \o b) : SlotOK(list, (a \o b)[i])
<1>1. a \o b \in Seq(Slot) /\ Len(a \o b) = Len(a) + Len(b)
  OBVIOUS
<1>2. ASSUME NEW i \in 1..(Len(a) + Len(b))
      PROVE  SlotOK(list, (a \o b)[i])
  <2>1. CASE i <= Len(a)
    <3>1. i \in 1..Len(a) /\ (a \o b)[i] = a[i]
      BY <2>1
    <3>. QED
      BY <3>1
  <2>2. CASE ~(i <= Len(a))
    <3>1. i - Len(a) \in 1..Len(b) /\ (a \o b)[i] = b[i - Len(a)]
      BY <2>2
    <3>. QED
      BY <3>1
  <2>. QED
    BY <2>1, <2>2
<1>. QED
  BY <1>1, <1>2

LEMMA LastOfJoined ==
  ASSUME NEW a \in Seq(Slot), NEW b \in Seq(Slot), Len(b) = 1
  PROVE  LET last == Len(a) + 1
         IN  last \in DOMAIN (a \o b) /\ (a \o b)[last] = b[1]
<1>. DEFINE last == Len(a) + 1
<1>1. a \o b \in Seq(Slot) /\ Len(a \o b) = Len(a) + Len(b)
  BY ConcatProperties
<1>2. last \in 1..Len(a \o b) /\ ~(last <= Len(a)) /\ last - Len(a) = 1
  <2>1. Len(a) \in Nat
    OBVIOUS
  <2>. QED
    BY <1>1, <2>1
<1>3. (a \o b)[last] = b[last - Len(a)]
  BY <1>1, <1>2, ConcatProperties
<1>4. DOMAIN (a \o b) = 1..Len(a \o b)
  BY <1>1
<1>. QED
  BY <1>2, <1>3, <1>4

(* One slot replaced in a list of slots. *)
LEMMA SlotReplaced ==
  ASSUME NEW a \in Seq(Slot), NEW list, NEW j \in DOMAIN a, NEW s \in Slot,
         \A i \in DOMAIN a : SlotOK(list, a[i]), SlotOK(list, s)
  PROVE  /\ [a EXCEPT ![j] = s] \in Seq(Slot)
         /\ \A i \in DOMAIN [a EXCEPT ![j] = s] :
              SlotOK(list, [a EXCEPT ![j] = s][i])
<1>1. /\ [a EXCEPT ![j] = s] \in Seq(Slot)
      /\ DOMAIN [a EXCEPT ![j] = s] = DOMAIN a
  OBVIOUS
<1>2. ASSUME NEW i \in DOMAIN a
      PROVE  SlotOK(list, [a EXCEPT ![j] = s][i])
  <2>1. CASE i = j
    <3>1. [a EXCEPT ![j] = s][i] = s
      BY <2>1
    <3>. QED
      BY <3>1
  <2>2. CASE i # j
    <3>1. [a EXCEPT ![j] = s][i] = a[i]
      BY <2>2
    <3>. QED
      BY <3>1
  <2>. QED
    BY <2>1, <2>2
<1>. QED
  BY <1>1, <1>2

(* peer_connect gives an id to a slot that had none. *)
LEMMA ConnectedOK ==
  ASSUME NEW a \in Seq(Slot), NEW list \in Seq(Node), NEW id \in Nat,
         FreeSlots(a) # {}, IsRemote(list, id),
         \A i \in DOMAIN a : SlotOK(list, a[i])
  PROVE  /\ Connected(a, id) \in Seq(Slot)
         /\ \A i \in DOMAIN Connected(a, id) :
              SlotOK(list, Connected(a, id)[i])
<1>. DEFINE j == Min(FreeSlots(a))
            s == [a[j] EXCEPT !.remote = id, !.resolved = TRUE, !.addr = NoName]
<1>1. FreeSlots(a) \subseteq DOMAIN a /\ FreeSlots(a) \subseteq Nat
  BY DEF FreeSlots
<1>2. j \in DOMAIN a
  BY <1>1, MinIn
<1>. HIDE DEF j
<1>3. a[j] \in Slot
  BY <1>2
<1>4. /\ s \in Slot
      /\ s.local = a[j].local /\ s.remote = id /\ s.state = a[j].state
  BY <1>3, NameNull DEF Slot
<1>5. id # Undefined
  BY DEF IsRemote, Undefined
<1>6. SlotOK(list, s)
  BY <1>2, <1>4, <1>5 DEF SlotOK
<1>7. Connected(a, id) = [a EXCEPT ![j] = s]
  BY <1>2, <1>3 DEF Connected, j, Slot
<1>. HIDE DEF s
<1>. QED
  BY <1>2, <1>4, <1>6, <1>7, SlotReplaced

(* A client connects to the address of a socket of the host. *)
LEMMA HostNamed ==
  ASSUME TypeOK, SlotsOK, slots[Host] # <<>>
  PROVE  HostName \in Name
<1>1. Host \in Peers
  BY DEF Peers
<1>2. PoolOf[Host] \in Pools
  BY <1>1, PoolOfPeer
<1>3. nodes[PoolOf[Host]] \in Seq(Node) /\ slots[Host] \in Seq(Slot)
  BY <1>1, <1>2 DEF TypeOK
<1>4. 1 \in DOMAIN slots[Host]
  BY <1>3
<1>5. SlotOK(nodes[PoolOf[Host]], slots[Host][1])
  BY <1>1, <1>4 DEF SlotsOK
<1>6. nodes[PoolOf[Host]][slots[Host][1].local] \in Node
  BY <1>3, <1>5 DEF SlotOK, IsSocket
<1>. QED
  BY <1>2, <1>6 DEF HostName, LocalName, Name, Node, Places

---------------------------------------------------------------------------
(* The steps outside a tick. *)

LEMMA PoolOpenKeeps ==
  ASSUME IInv, NEW p \in Peers, NEW count \in Counts[p], PoolOpen(p, count)
  PROVE  IInv'
<1>. DEFINE q == PoolOf[p]
            old == nodes[q]
            new == old \o Sockets(count)
            added == NewSlots(Len(old), count)
<1>1. TypeOK /\ TickOK /\ SlotsOK /\ PacketsOK
  BY DEF IInv
<1>2. count \in Nat
  BY PoolAssumption
<1>3. q \in Pools /\ old \in Seq(Node) /\ slots[p] \in Seq(Slot) /\ ports \in Nat
  BY <1>1, PoolOfPeer DEF TypeOK
<1>4. /\ Grown(old, new)
      /\ \A k \in 1..count : IsSocket(new, Len(old) + k)
  BY <1>2, <1>3, SocketsGrow
<1>5. /\ nodes' = [nodes EXCEPT ![q] = new]
      /\ slots' = [slots EXCEPT ![p] = slots[p] \o added]
      /\ ports' = ports + count
      /\ UNCHANGED <<wire, closed, tick>>
  BY DEF PoolOpen
<1>6. Growth /\ nodes'[q] = new
  <2>. HIDE DEF new
  <2>. QED
    BY <1>1, <1>3, <1>4, <1>5, OnePoolGrows
<1>7. added \in Seq(Slot) /\ \A k \in 1..Len(added) : SlotOK(new, added[k])
  <2>. HIDE DEF new
  <2>1. Len(old) \in Nat
    BY <1>3
  <2>2. /\ added \in Seq(Slot) /\ Len(added) = count
        /\ \A k \in 1..count : added[k] = NewSlot(Len(old) + k)
    BY <1>2, <2>1, NewSlotsTyped
  <2>3. \A k \in 1..count : SlotOK(new, NewSlot(Len(old) + k))
    BY <1>4 DEF NewSlot, SlotOK
  <2>. QED
    BY <2>2, <2>3
<1>8. \A k \in 1..Len(slots[p]) : SlotOK(new, slots[p][k])
  <2>. HIDE DEF new
  <2>. QED
    BY <1>1, <1>3, <1>4, GrownOK DEF SlotsOK
<1>9. slots' \in [Peers -> Seq(Slot)] /\ SlotsOK'
  <2>. HIDE DEF new, added
  <2>1. /\ slots[p] \o added \in Seq(Slot)
        /\ \A k \in DOMAIN (slots[p] \o added) :
             SlotOK(new, (slots[p] \o added)[k])
    BY <1>3, <1>7, <1>8, SlotsJoined
  <2>. DEFINE list == slots[p] \o added
  <2>2. slots' = [slots EXCEPT ![p] = list] /\ list \in Seq(Slot)
        /\ \A k \in DOMAIN list : SlotOK(nodes'[PoolOf[p]], list[k])
    BY <1>5, <1>6, <2>1
  <2>. HIDE DEF list
  <2>. QED
    BY <1>1, <1>6, <2>2, OnePeerChanges
<1>10. PacketsOK'
  BY <1>1, <1>5, <1>6, PacketsKept
<1>11. TypeOK'
  BY <1>1, <1>2, <1>5, <1>6, <1>9 DEF TypeOK, Growth
<1>. QED
  BY <1>1, <1>5, <1>9, <1>10, <1>11 DEF IInv, TickOK

LEMMA PoolConnectKeeps ==
  ASSUME IInv, NEW c \in Clients, PoolConnect(c)
  PROVE  IInv'
<1>. DEFINE q == PoolOf[c]
            new == WithNode(nodes[q], HostName, HostName)
            id == NodeId(nodes[q], HostName)
            list == Connected(slots[c], id)
<1>1. TypeOK /\ TickOK /\ SlotsOK /\ PacketsOK
  BY DEF IInv
<1>2. c \in Peers /\ HostName \in Name
  BY <1>1, HostNamed DEF Peers, PoolConnect, MayConnect
<1>3. q \in Pools /\ nodes[q] \in Seq(Node) /\ slots[c] \in Seq(Slot)
  BY <1>1, <1>2, PoolOfPeer DEF TypeOK
<1>4. Grown(nodes[q], new) /\ IsRemote(new, id) /\ id \in Nat
  BY <1>2, <1>3, WithNodeGrows
<1>5. /\ FreeSlots(slots[c]) # {}
      /\ nodes' = [nodes EXCEPT ![q] = new]
      /\ slots' = [slots EXCEPT ![c] = list]
      /\ UNCHANGED <<wire, ports, closed, tick>>
  BY DEF PoolConnect
<1>. HIDE DEF new, id
<1>6. Growth /\ nodes'[q] = new
  BY <1>1, <1>3, <1>4, <1>5, OnePoolGrows
<1>7. \A k \in DOMAIN slots[c] : SlotOK(new, slots[c][k])
  BY <1>1, <1>2, <1>3, <1>4, GrownOK DEF SlotsOK
<1>8. new \in Seq(Node)
  BY <1>4 DEF Grown
<1>9. list \in Seq(Slot) /\ \A k \in DOMAIN list : SlotOK(new, list[k])
  BY <1>3, <1>4, <1>5, <1>7, <1>8, ConnectedOK
<1>. HIDE DEF list
<1>10. slots' \in [Peers -> Seq(Slot)] /\ SlotsOK'
  BY <1>1, <1>2, <1>5, <1>6, <1>9, OnePeerChanges
<1>11. PacketsOK'
  BY <1>1, <1>5, <1>6, PacketsKept
<1>12. TypeOK'
  BY <1>1, <1>5, <1>6, <1>10 DEF TypeOK, Growth
<1>. QED
  BY <1>1, <1>5, <1>10, <1>11, <1>12 DEF IInv, TickOK

LEMMA PoolConnectOpenKeeps ==
  ASSUME IInv, NEW c \in Clients, PoolConnectOpen(c)
  PROVE  IInv'
<1>. DEFINE q == PoolOf[c]
            found == WithNode(nodes[q], HostName, HostName)
            new == found \o Sockets(1)
            id == NodeId(nodes[q], HostName)
            added == NewSlots(Len(found), 1)
            both == slots[c] \o added
            list == Connected(both, id)
<1>1. TypeOK /\ TickOK /\ SlotsOK /\ PacketsOK
  BY DEF IInv
<1>2. c \in Peers /\ HostName \in Name
  BY <1>1, HostNamed DEF Peers, PoolConnectOpen, MayConnect
<1>3. /\ q \in Pools /\ nodes[q] \in Seq(Node) /\ slots[c] \in Seq(Slot)
      /\ ports \in Nat
  BY <1>1, <1>2, PoolOfPeer DEF TypeOK
<1>4. Grown(nodes[q], found) /\ IsRemote(found, id) /\ id \in Nat
  BY <1>2, <1>3, WithNodeGrows
<1>5. /\ nodes' = [nodes EXCEPT ![q] = new]
      /\ slots' = [slots EXCEPT ![c] = list]
      /\ ports' = ports + 1
      /\ UNCHANGED <<wire, closed, tick>>
  BY DEF PoolConnectOpen
<1>. HIDE DEF found, id
<1>6. found \in Seq(Node)
  BY <1>4 DEF Grown
<1>7. Grown(found, new) /\ IsSocket(new, Len(found) + 1)
  <2>1. /\ Grown(found, found \o Sockets(1))
        /\ \A k \in 1..1 : IsSocket(found \o Sockets(1), Len(found) + k)
    BY <1>3, <1>6, SocketsGrow
  <2>. QED
    BY <2>1
<1>. HIDE DEF new
<1>8. Grown(nodes[q], new)
  BY <1>3, <1>4, <1>6, <1>7 DEF Grown
<1>9. Growth /\ nodes'[q] = new
  BY <1>1, <1>3, <1>5, <1>8, OnePoolGrows
<1>10. /\ added \in Seq(Slot) /\ Len(added) = 1
       /\ added[1] = NewSlot(Len(found) + 1)
  <2>1. Len(found) \in Nat
    BY <1>6
  <2>2. /\ added \in Seq(Slot) /\ Len(added) = 1
        /\ \A k \in 1..1 : added[k] = NewSlot(Len(found) + k)
    BY <2>1, NewSlotsTyped
  <2>. QED
    BY <2>2
<1>11. SlotOK(new, NewSlot(Len(found) + 1))
  BY <1>7 DEF NewSlot, SlotOK
<1>12. \A k \in 1..Len(slots[c]) : SlotOK(new, slots[c][k])
  BY <1>1, <1>2, <1>3, <1>8, GrownOK DEF SlotsOK
<1>. HIDE DEF added
<1>13. both \in Seq(Slot) /\ \A k \in DOMAIN both : SlotOK(new, both[k])
  <2>1. \A k \in 1..Len(added) : SlotOK(new, added[k])
    BY <1>10, <1>11
  <2>. QED
    BY <1>3, <1>10, <1>12, <2>1, SlotsJoined
<1>14. FreeSlots(both) # {}
  <2>1. LET last == Len(slots[c]) + 1
        IN  last \in DOMAIN both /\ both[last] = added[1]
    BY <1>3, <1>10, LastOfJoined
  <2>. QED
    BY <1>10, <2>1 DEF FreeSlots, NewSlot
<1>15. new \in Seq(Node) /\ IsRemote(new, id)
  BY <1>4, <1>6, <1>7, GrownIds DEF Grown
<1>. HIDE DEF both
<1>16. list \in Seq(Slot) /\ \A k \in DOMAIN list : SlotOK(new, list[k])
  BY <1>4, <1>13, <1>14, <1>15, ConnectedOK
<1>. HIDE DEF list
<1>17. slots' \in [Peers -> Seq(Slot)] /\ SlotsOK'
  BY <1>1, <1>2, <1>5, <1>9, <1>16, OnePeerChanges
<1>18. PacketsOK'
  BY <1>1, <1>5, <1>9, PacketsKept
<1>19. TypeOK'
  BY <1>1, <1>5, <1>9, <1>17 DEF TypeOK, Growth
<1>. QED
  BY <1>1, <1>5, <1>17, <1>18, <1>19 DEF IInv, TickOK

LEMMA PoolConnectFailsKeeps ==
  ASSUME IInv, NEW c \in Clients, PoolConnectFails(c)
  PROVE  IInv'
<1>. DEFINE q == PoolOf[c]
            new == WithNode(nodes[q], HostName, HostName)
<1>1. TypeOK /\ TickOK /\ SlotsOK /\ PacketsOK
  BY DEF IInv
<1>2. c \in Peers /\ HostName \in Name
  BY <1>1, HostNamed DEF Peers, PoolConnectFails, MayConnect
<1>3. q \in Pools /\ nodes[q] \in Seq(Node)
  BY <1>1, <1>2, PoolOfPeer DEF TypeOK
<1>4. Grown(nodes[q], new)
  BY <1>2, <1>3, WithNodeGrows
<1>5. nodes' = [nodes EXCEPT ![q] = new] /\ UNCHANGED <<slots, wire, ports, closed, tick>>
  BY DEF PoolConnectFails
<1>. HIDE DEF new
<1>6. Growth
  BY <1>1, <1>3, <1>4, <1>5, OnePoolGrows
<1>7. SlotsOK' /\ PacketsOK'
  BY <1>1, <1>5, <1>6, SlotsKept, PacketsKept
<1>8. TypeOK'
  BY <1>1, <1>5, <1>6 DEF TypeOK, Growth
<1>. QED
  BY <1>1, <1>5, <1>7, <1>8 DEF IInv, TickOK

LEMMA PoolDestroyKeeps ==
  ASSUME IInv, NEW q \in Pools, PoolDestroy(q)
  PROVE  IInv'
<1>1. TypeOK /\ TickOK /\ SlotsOK /\ PacketsOK
  BY DEF IInv
<1>2. /\ tick.phase = "idle" /\ closed' = closed \cup {q}
      /\ nodes' = [nodes EXCEPT ![q] = <<>>]
      /\ slots' = [p \in Peers |-> IF PoolOf[p] = q THEN <<>> ELSE slots[p]]
      /\ UNCHANGED <<wire, ports, tick>>
  BY DEF PoolDestroy
<1>3. TypeOK'
  BY <1>1, <1>2 DEF TypeOK
<1>4. PacketsOK'
  BY <1>1, <1>2 DEF PacketsOK, TickOK
<1>5. SlotsOK'
  <2>. SUFFICES ASSUME NEW p \in Peers, NEW i \in DOMAIN slots'[p]
                PROVE  SlotOK(nodes'[PoolOf[p]], slots'[p][i])
    BY DEF SlotsOK
  <2>1. slots'[p] = IF PoolOf[p] = q THEN <<>> ELSE slots[p]
    BY <1>2
  <2>2. PoolOf[p] # q
    BY <2>1
  <2>3. nodes'[PoolOf[p]] = nodes[PoolOf[p]]
    BY <1>1, <1>2, <2>2, PoolOfPeer DEF TypeOK
  <2>. QED
    BY <1>1, <2>1, <2>2, <2>3 DEF SlotsOK
<1>. QED
  BY <1>1, <1>2, <1>3, <1>4, <1>5 DEF IInv, TickOK

---------------------------------------------------------------------------
(* The steps of a tick. *)

LEMMA TickTyped ==
  ASSUME TypeOK
  PROVE  /\ tick.peer \in Peers /\ Pool \in Pools
         /\ List \in Seq(Node) /\ Ours \in Seq(Slot)
         /\ tick.at \in Nat /\ tick.packets \in Seq(Packet)
<1>1. tick.peer \in Peers /\ tick.at \in Nat /\ tick.packets \in Seq(Packet)
  BY DEF TypeOK
<1>2. Pool \in Pools
  BY <1>1, PoolOfPeer DEF Pool
<1>. QED
  BY <1>1, <1>2 DEF TypeOK, List, Ours

(* The loops advance, and the phases follow each other. *)
LEMMA TickAdvances ==
  ASSUME TypeOK, TickOK, tick.phase # "idle",
         \/ tick' = Step
         \/ \E name \in {"receive", "input", "send"} : tick' = Phase(name)
  PROVE  /\ tick' \in [phase : {"idle", "resolve", "receive", "input", "send"},
                       peer : Peers, at : Nat, packets : Seq(Packet)]
         /\ TickOK'
         /\ tick'.peer = tick.peer /\ tick'.packets = tick.packets
<1>1. tick \in [phase : {"idle", "resolve", "receive", "input", "send"},
                peer : Peers, at : Nat, packets : Seq(Packet)]
  BY DEF TypeOK
<1>2. CASE tick' = Step
  BY <1>1, <1>2 DEF Step, TickOK
<1>3. ASSUME NEW name \in {"receive", "input", "send"}, tick' = Phase(name)
      PROVE  /\ tick' \in [phase : {"idle", "resolve", "receive", "input", "send"},
                            peer : Peers, at : Nat, packets : Seq(Packet)]
             /\ TickOK'
             /\ tick'.peer = tick.peer /\ tick'.packets = tick.packets
  <2>1. /\ tick'.phase = name /\ tick'.at = 1
        /\ tick'.peer = tick.peer /\ tick'.packets = tick.packets
    BY <1>1, <1>3 DEF Phase
  <2>2. tick' \in [phase : {"idle", "resolve", "receive", "input", "send"},
                   peer : Peers, at : Nat, packets : Seq(Packet)]
    BY <1>1, <1>3 DEF Phase
  <2>3. name # "idle"
    OBVIOUS
  <2>. QED
    BY <2>1, <2>2, <2>3 DEF TickOK
<1>. QED
  BY <1>2, <1>3

LEMMA TickBeginKeeps ==
  ASSUME IInv, NEW p \in Peers, TickBegin(p)
  PROVE  IInv'
BY DEF IInv, TickBegin, TypeOK, TickOK, SlotsOK, PacketsOK

LEMMA TickEndKeeps ==
  ASSUME IInv, TickEnd
  PROVE  IInv'
BY DEF IInv, TickEnd, Idle, TypeOK, TickOK, SlotsOK, PacketsOK, Peers

(* A step that does nothing but go on. *)
LEMMA LoopKeeps ==
  ASSUME IInv, Resolved \/ NothingReceived \/ Received \/ InputDone \/ NothingSent
  PROVE  IInv'
<1>1. TypeOK /\ TickOK /\ SlotsOK /\ PacketsOK
  BY DEF IInv
<1>2. /\ tick.phase # "idle" /\ UNCHANGED <<nodes, slots, wire, ports, closed>>
      /\ \/ tick' = Step
         \/ \E name \in {"receive", "input", "send"} : tick' = Phase(name)
  BY DEF Resolved, NothingReceived, Received, InputDone, NothingSent, Sending
<1>3. Growth
  BY <1>1, <1>2, NodesKept
<1>4. SlotsOK' /\ PacketsOK'
  BY <1>1, <1>2, <1>3, TickAdvances, SlotsKept, PacketsKept
<1>. QED
  BY <1>1, <1>2, <1>4, TickAdvances DEF IInv, TypeOK

(* resolve_address_and_id: the address of the remote id is read where the  *)
(* id is in range, and the new id is that of a node of the array.          *)
LEMMA AddressedOK ==
  ASSUME TypeOK, NEW s \in Slot, SlotOK(List, s)
  PROVE  Addressed(s) \in Slot /\ SlotOK(List, Addressed(s))
<1>1. List \in Seq(Node)
  BY TickTyped
<1>2. /\ [s EXCEPT !.known = TRUE] \in Slot
      /\ [s EXCEPT !.known = TRUE].local = s.local
      /\ [s EXCEPT !.known = TRUE].remote = s.remote
      /\ [s EXCEPT !.known = TRUE].state = s.state
  BY DEF Slot
<1>3. CASE ~s.named /\ s.remote # Undefined
  <2>1. List[s.remote] \in Node
    BY <1>1, <1>3 DEF SlotOK, IsRemote
  <2>2. RemoteName(List, s.remote) \in Name
    BY <1>1, <2>1 DEF RemoteName, Name, Node
  <2>. DEFINE t == [[s EXCEPT !.known = TRUE] EXCEPT
                      !.addr = RemoteName(List, s.remote), !.named = TRUE]
  <2>3. Addressed(s) = t
    BY <1>3 DEF Addressed
  <2>4. /\ t \in Slot /\ t.local = s.local /\ t.remote = s.remote
        /\ t.state = s.state
    BY <2>2 DEF Slot
  <2>. HIDE DEF t
  <2>. QED
    BY <2>3, <2>4 DEF SlotOK
<1>4. CASE ~(~s.named /\ s.remote # Undefined)
  <2>1. Addressed(s) = [s EXCEPT !.known = TRUE]
    BY <1>4 DEF Addressed
  <2>. QED
    BY <1>2, <2>1 DEF SlotOK
<1>. QED
  BY <1>3, <1>4

LEMMA WantedTyped ==
  ASSUME TypeOK, NEW s \in Slot, SlotOK(List, s)
  PROVE  Wanted(s) \in Name /\ \A copied \in Copied(s) : copied \in Name
<1>1. List \in Seq(Node) /\ s.addr \in Name
  BY TickTyped DEF Slot
<1>2. Wanted(s) \in Name
  <2>1. CASE ByPreviousId(s)
    <3>1. List[s.remote] \in Node
      BY <1>1, <2>1 DEF ByPreviousId, SlotOK, IsRemote
    <3>2. List[s.remote].at \in Places
      BY <1>1, <3>1 DEF Node
    <3>. QED
      BY <1>1, <2>1, <3>2 DEF Wanted, Name
  <2>2. CASE ~ByPreviousId(s)
    BY <1>1, <2>2 DEF Wanted
  <2>. QED
    BY <2>1, <2>2
<1>3. [Wanted(s) EXCEPT !.at = Junk] \in Name
  BY <1>2 DEF Name, Places
<1>. QED
  BY <1>2, <1>3 DEF Copied

LEMMA ResolveSlotKeeps ==
  ASSUME IInv, ResolveSlot
  PROVE  IInv'
<1>. DEFINE p == tick.peer
            j == tick.at
            s == Addressed(Ours[tick.at])
<1>1. TypeOK /\ TickOK /\ SlotsOK /\ PacketsOK
  BY DEF IInv
<1>2. /\ p \in Peers /\ Pool \in Pools /\ Pool = PoolOf[p]
      /\ List \in Seq(Node) /\ List = nodes[Pool]
      /\ Ours \in Seq(Slot) /\ Ours = slots[p]
  BY <1>1, TickTyped DEF Pool, List, Ours
<1>3. /\ tick.phase # "idle" /\ tick' = Step
      /\ UNCHANGED <<wire, ports, closed>>
  BY DEF ResolveSlot
<1>4. j \in DOMAIN Ours
  BY <1>1, <1>2, TickTyped DEF ResolveSlot, TickOK
<1>5. \A i \in DOMAIN Ours : SlotOK(List, Ours[i])
  BY <1>1, <1>2 DEF SlotsOK
<1>6. s \in Slot /\ SlotOK(List, s)
  BY <1>1, <1>2, <1>4, <1>5, AddressedOK
<1>. HIDE DEF s
<1>7. ASSUME NEW copied \in Copied(s),
             nodes' = [nodes EXCEPT ![Pool] = WithNode(nodes[Pool], Wanted(s), copied)],
             slots' = [slots EXCEPT
                         ![p][j] = [s EXCEPT !.remote = NodeId(List, Wanted(s)),
                                             !.resolved = TRUE]]
      PROVE  Growth /\ slots' \in [Peers -> Seq(Slot)] /\ SlotsOK'
  <2>. DEFINE new == WithNode(List, Wanted(s), copied)
              id == NodeId(List, Wanted(s))
              t == [s EXCEPT !.remote = id, !.resolved = TRUE]
              list == [Ours EXCEPT ![j] = t]
  <2>1. Wanted(s) \in Name /\ copied \in Name
    BY <1>1, <1>6, WantedTyped
  <2>2. Grown(List, new) /\ IsRemote(new, id) /\ id \in Nat
    BY <1>2, <2>1, WithNodeGrows
  <2>3. nodes' = [nodes EXCEPT ![Pool] = new]
    BY <1>2, <1>7
  <2>4. slots' = [slots EXCEPT ![p] = list]
    BY <1>2, <1>7
  <2>. HIDE DEF new, id
  <2>5. Growth /\ nodes'[Pool] = new
    BY <1>1, <1>2, <2>2, <2>3, OnePoolGrows
  <2>6. t \in Slot /\ t.local = s.local /\ t.remote = id /\ t.state = s.state
    BY <1>6, <2>2 DEF Slot
  <2>7. new \in Seq(Node) /\ SlotOK(new, s)
    BY <1>2, <1>6, <2>2, GrownOK DEF Grown
  <2>8. id # Undefined
    BY <2>2, <2>7 DEF IsRemote, Undefined
  <2>9. SlotOK(new, t)
    BY <2>2, <2>6, <2>7, <2>8 DEF SlotOK
  <2>. HIDE DEF t
  <2>10. \A i \in DOMAIN Ours : SlotOK(new, Ours[i])
    BY <1>2, <1>5, <2>2, GrownOK
  <2>11. list \in Seq(Slot) /\ \A i \in DOMAIN list : SlotOK(new, list[i])
    BY <1>2, <1>4, <2>6, <2>9, <2>10, SlotReplaced
  <2>. HIDE DEF list
  <2>. QED
    BY <1>1, <1>2, <2>4, <2>5, <2>11, OnePeerChanges
<1>8. ASSUME slots' = [slots EXCEPT ![p][j] = s], UNCHANGED nodes
      PROVE  Growth /\ slots' \in [Peers -> Seq(Slot)] /\ SlotsOK'
  <2>. DEFINE list == [Ours EXCEPT ![j] = s]
  <2>1. Growth /\ nodes'[Pool] = List
    BY <1>1, <1>2, <1>8, NodesKept
  <2>2. slots' = [slots EXCEPT ![p] = list]
    BY <1>2, <1>8
  <2>3. list \in Seq(Slot) /\ \A i \in DOMAIN list : SlotOK(List, list[i])
    BY <1>2, <1>4, <1>5, <1>6, SlotReplaced
  <2>. HIDE DEF list
  <2>. QED
    BY <1>1, <1>2, <2>1, <2>2, <2>3, OnePeerChanges
<1>9. Growth /\ slots' \in [Peers -> Seq(Slot)] /\ SlotsOK'
  BY <1>7, <1>8 DEF ResolveSlot, s
<1>10. PacketsOK'
  BY <1>1, <1>3, <1>9, TickAdvances, PacketsKept
<1>. QED
  BY <1>1, <1>3, <1>9, <1>10, TickAdvances DEF IInv, TypeOK, Growth

(* One packet more in hand, with the id of its sender. *)
LEMMA ReceiveKeeps ==
  ASSUME IInv, NEW d \in wire, Receive(d)
  PROVE  IInv'
<1>. DEFINE new == WithNode(List, d.from, d.from)
            id == NodeId(List, d.from)
            x == [src |-> id, dst |-> tick.at, response |-> d.response]
<1>1. TypeOK /\ TickOK /\ SlotsOK /\ PacketsOK
  BY DEF IInv
<1>2. /\ tick.peer \in Peers /\ Pool \in Pools
      /\ List \in Seq(Node) /\ List = nodes[Pool]
      /\ tick.at \in Nat /\ tick.packets \in Seq(Packet)
  BY <1>1, TickTyped DEF List
<1>3. d.from \in Name /\ d.response \in Nat
  BY <1>1 DEF TypeOK, Datagram
<1>4. Grown(List, new) /\ IsRemote(new, id) /\ id \in Nat
  BY <1>2, <1>3, WithNodeGrows
<1>5. /\ tick.phase = "receive" /\ tick.at <= Len(List)
      /\ List[tick.at].local # AnyPort
      /\ nodes' = [nodes EXCEPT ![Pool] = new]
      /\ tick' = [Step EXCEPT !.packets = Append(tick.packets, x)]
      /\ UNCHANGED <<slots, wire, ports, closed>>
  <2>1. tick \in [phase : {"idle", "resolve", "receive", "input", "send"},
                  peer : Peers, at : Nat, packets : Seq(Packet)]
    BY <1>1 DEF TypeOK
  <2>2. Step.packets = tick.packets
    BY <2>1 DEF Step
  <2>. QED
    BY <1>2, <2>2 DEF Receive
<1>. HIDE DEF new, id
<1>6. Growth /\ nodes'[Pool] = new
  BY <1>1, <1>2, <1>4, <1>5, OnePoolGrows
<1>7. SlotsOK'
  BY <1>1, <1>5, <1>6, SlotsKept
<1>8. x \in Packet /\ x.src = id /\ x.dst = tick.at
  BY <1>2, <1>3, <1>4 DEF Packet
<1>9. IsSocket(List, tick.at)
  BY <1>1, <1>2, <1>5 DEF IsSocket, TickOK
<1>10. PacketOK(new, x)
  BY <1>2, <1>4, <1>8, <1>9, GrownIds DEF PacketOK
<1>. HIDE DEF x
<1>11. /\ tick' \in [phase : {"idle", "resolve", "receive", "input", "send"},
                      peer : Peers, at : Nat, packets : Seq(Packet)]
       /\ tick'.peer = tick.peer /\ tick'.phase = "receive" /\ tick'.at >= 1
       /\ tick'.packets = Append(tick.packets, x)
  <2>1. tick \in [phase : {"idle", "resolve", "receive", "input", "send"},
                  peer : Peers, at : Nat, packets : Seq(Packet)]
    BY <1>1 DEF TypeOK
  <2>2. Append(tick.packets, x) \in Seq(Packet)
    BY <1>2, <1>8
  <2>3. /\ Step \in [phase : {"idle", "resolve", "receive", "input", "send"},
                    peer : Peers, at : Nat, packets : Seq(Packet)]
        /\ Step.peer = tick.peer /\ Step.phase = tick.phase
        /\ Step.at = tick.at + 1
    BY <2>1 DEF Step
  <2>4. tick' = [Step EXCEPT !.packets = Append(tick.packets, x)]
    BY <1>5
  <2>5. tick' \in [phase : {"idle", "resolve", "receive", "input", "send"},
                   peer : Peers, at : Nat, packets : Seq(Packet)]
    BY <2>2, <2>3, <2>4
  <2>6. /\ tick'.peer = Step.peer /\ tick'.phase = Step.phase
        /\ tick'.at = Step.at /\ tick'.packets = Append(tick.packets, x)
    BY <2>3, <2>4
  <2>. QED
    BY <1>2, <1>5, <2>3, <2>5, <2>6
<1>12. PacketsOK'
  <2>. SUFFICES ASSUME NEW n \in DOMAIN Append(tick.packets, x)
                PROVE  PacketOK(new, Append(tick.packets, x)[n])
    BY <1>6, <1>11 DEF PacketsOK, List, Pool
  <2>1. CASE n = Len(tick.packets) + 1
    <3>1. Append(tick.packets, x)[n] = x
      BY <1>2, <1>8, <2>1
    <3>. QED
      BY <1>10, <3>1
  <2>2. CASE n # Len(tick.packets) + 1
    <3>1. n \in DOMAIN tick.packets /\ Append(tick.packets, x)[n] = tick.packets[n]
      BY <1>2, <1>8, <2>2
    <3>2. PacketOK(List, tick.packets[n])
      BY <1>1, <3>1 DEF PacketsOK
    <3>. QED
      BY <1>2, <1>4, <3>1, <3>2, GrownOK
  <2>. QED
    BY <2>1, <2>2
<1>. QED
  BY <1>1, <1>5, <1>6, <1>7, <1>11, <1>12 DEF IInv, TypeOK, TickOK, Growth

(* peer_input puts the id of a packet into a slot, or forgets an address. *)
LEMMA AssignOK ==
  ASSUME TypeOK, NEW x, x.src \in Nat, IsRemote(List, x.src), Assignable # {},
         \A i \in DOMAIN Ours : SlotOK(List, Ours[i])
  PROVE  /\ Assign(x) \in Seq(Slot)
         /\ \A i \in DOMAIN Assign(x) : SlotOK(List, Assign(x)[i])
<1>. DEFINE j == Min(Assignable)
            s == [Ours[j] EXCEPT !.state = "request", !.remote = x.src,
                                 !.resolved = TRUE]
<1>1. Ours \in Seq(Slot) /\ List \in Seq(Node)
  BY TickTyped
<1>2. Assignable \subseteq DOMAIN Ours /\ Assignable \subseteq Nat
  BY <1>1 DEF Assignable, FreeSlots
<1>3. j \in DOMAIN Ours
  BY <1>2, MinIn
<1>. HIDE DEF j
<1>4. Ours[j] \in Slot
  BY <1>1, <1>3
<1>5. s \in Slot /\ s.local = Ours[j].local /\ s.remote = x.src
  BY <1>4 DEF Slot
<1>6. x.src # Undefined
  BY <1>1 DEF IsRemote, Undefined
<1>7. SlotOK(List, s)
  BY <1>3, <1>5, <1>6 DEF SlotOK
<1>8. Assign(x) = [Ours EXCEPT ![j] = s]
  BY <1>1, <1>3, <1>4 DEF Assign, j, Slot
<1>. HIDE DEF s
<1>. QED
  BY <1>1, <1>3, <1>5, <1>7, <1>8, SlotReplaced

LEMMA SessionResponseOK ==
  ASSUME TypeOK, NEW x, x.response \in Nat, Addressees(x) # {},
         \A i \in DOMAIN Ours : SlotOK(List, Ours[i])
  PROVE  /\ SessionResponse(x) \in Seq(Slot)
         /\ \A i \in DOMAIN SessionResponse(x) :
              SlotOK(List, SessionResponse(x)[i])
<1>. DEFINE j == Min(Addressees(x))
            told == [at |-> Nowhere, port |-> x.response]
            s == [Ours[j] EXCEPT !.resolved = FALSE, !.addr = told]
<1>1. Ours \in Seq(Slot)
  BY TickTyped
<1>2. Addressees(x) \subseteq DOMAIN Ours /\ Addressees(x) \subseteq Nat
  BY <1>1 DEF Addressees
<1>3. j \in DOMAIN Ours
  BY <1>2, MinIn
<1>. HIDE DEF j
<1>4. Ours[j] \in Slot
  BY <1>1, <1>3
<1>5. told \in Name
  BY DEF Name, Places
<1>6. /\ s \in Slot /\ s.local = Ours[j].local /\ s.remote = Ours[j].remote
      /\ s.state = Ours[j].state
  <2>. HIDE DEF told
  <2>. QED
    BY <1>4, <1>5 DEF Slot
<1>7. SlotOK(List, s)
  BY <1>3, <1>6 DEF SlotOK
<1>8. SessionResponse(x) = [Ours EXCEPT ![j] = s]
  BY <1>1, <1>3, <1>4 DEF SessionResponse, j, Slot
<1>. HIDE DEF s
<1>. QED
  BY <1>1, <1>3, <1>6, <1>7, <1>8, SlotReplaced

LEMMA InputKeeps ==
  ASSUME IInv, Input
  PROVE  IInv'
<1>. DEFINE p == tick.peer
            x == Head(tick.packets)
            list == IF Accepts(x) THEN Assign(x)
                    ELSE IF Answers(x) THEN SessionResponse(x) ELSE Ours
<1>1. TypeOK /\ TickOK /\ SlotsOK /\ PacketsOK
  BY DEF IInv
<1>2. /\ p \in Peers /\ Pool \in Pools /\ Pool = PoolOf[p]
      /\ List \in Seq(Node) /\ List = nodes[Pool]
      /\ Ours \in Seq(Slot) /\ Ours = slots[p]
      /\ tick.packets \in Seq(Packet) /\ tick.packets # <<>>
  BY <1>1, TickTyped DEF Pool, List, Ours, Input
<1>3. /\ tick.phase = "input"
      /\ slots' = [slots EXCEPT ![p] = list]
      /\ tick' = [tick EXCEPT !.packets = Tail(tick.packets)]
      /\ UNCHANGED <<nodes, wire, ports, closed>>
  BY <1>2 DEF Input
<1>4. x \in Packet /\ PacketOK(List, x)
  <2>1. 1 \in DOMAIN tick.packets /\ x = tick.packets[1]
    BY <1>2
  <2>. QED
    BY <1>1, <1>2, <2>1 DEF PacketsOK
<1>5. x.src \in Nat /\ x.response \in Nat /\ IsRemote(List, x.src)
  BY <1>4 DEF Packet, PacketOK
<1>6. \A i \in DOMAIN Ours : SlotOK(List, Ours[i])
  BY <1>1, <1>2 DEF SlotsOK
<1>. HIDE DEF x
<1>7. list \in Seq(Slot) /\ \A i \in DOMAIN list : SlotOK(List, list[i])
  <2>1. CASE Accepts(x)
    <3>1. Assignable # {}
      BY <2>1 DEF Accepts
    <3>. QED
      BY <1>1, <1>5, <1>6, <2>1, <3>1, AssignOK
  <2>2. CASE ~Accepts(x) /\ Answers(x)
    <3>1. Addressees(x) # {}
      BY <2>2 DEF Answers
    <3>. QED
      BY <1>1, <1>5, <1>6, <2>2, <3>1, SessionResponseOK
  <2>3. CASE ~Accepts(x) /\ ~Answers(x)
    BY <1>2, <1>6, <2>3
  <2>. QED
    BY <2>1, <2>2, <2>3
<1>. HIDE DEF list
<1>8. Growth /\ nodes'[Pool] = List
  BY <1>1, <1>2, <1>3, NodesKept
<1>9. slots' \in [Peers -> Seq(Slot)] /\ SlotsOK'
  BY <1>1, <1>2, <1>3, <1>7, <1>8, OnePeerChanges
<1>10. /\ Tail(tick.packets) \in Seq(Packet)
       /\ \A n \in DOMAIN Tail(tick.packets) :
            n + 1 \in DOMAIN tick.packets
            /\ Tail(tick.packets)[n] = tick.packets[n + 1]
  BY <1>2
<1>11. /\ tick' \in [phase : {"idle", "resolve", "receive", "input", "send"},
                      peer : Peers, at : Nat, packets : Seq(Packet)]
       /\ tick'.peer = tick.peer /\ tick'.phase = "input" /\ tick'.at = tick.at
       /\ tick'.packets = Tail(tick.packets)
  <2>1. tick \in [phase : {"idle", "resolve", "receive", "input", "send"},
                  peer : Peers, at : Nat, packets : Seq(Packet)]
    BY <1>1 DEF TypeOK
  <2>. QED
    BY <1>3, <1>10, <2>1
<1>12. PacketsOK'
  <2>. SUFFICES ASSUME NEW n \in DOMAIN Tail(tick.packets)
                PROVE  PacketOK(List, Tail(tick.packets)[n])
    BY <1>3, <1>11 DEF PacketsOK, List, Pool
  <2>. QED
    BY <1>1, <1>10 DEF PacketsOK
<1>. QED
  BY <1>1, <1>3, <1>9, <1>11, <1>12 DEF IInv, TypeOK, TickOK

(* A datagram is sent between addresses that the pool has. *)
LEMMA NamesOfSlot ==
  ASSUME TypeOK, NEW s \in Slot, SlotOK(List, s), s.remote # Undefined
  PROVE  /\ LocalName(Pool, List, s.local) \in Name
         /\ List[s.local].local \in Nat
         /\ RemoteName(List, s.remote) \in Name
<1>1. List[s.local] \in Node /\ List[s.remote] \in Node /\ Pool \in Pools
  BY TickTyped DEF SlotOK, IsSocket, IsRemote
<1>. QED
  BY <1>1 DEF LocalName, RemoteName, Name, Node, Places

LEMMA SendKeeps ==
  ASSUME IInv, SendResponse \/ SendData
  PROVE  IInv'
<1>. DEFINE p == tick.peer
            j == tick.at
            s == Ours[tick.at]
<1>1. TypeOK /\ TickOK /\ SlotsOK /\ PacketsOK
  BY DEF IInv
<1>2. /\ p \in Peers /\ Pool \in Pools /\ Pool = PoolOf[p]
      /\ List \in Seq(Node) /\ List = nodes[Pool]
      /\ Ours \in Seq(Slot) /\ Ours = slots[p]
  BY <1>1, TickTyped DEF Pool, List, Ours
<1>3. /\ tick.phase # "idle" /\ tick' = Step
      /\ UNCHANGED <<nodes, ports, closed>>
  BY DEF SendResponse, SendData, Sending
<1>4. j \in DOMAIN Ours /\ 1 \in DOMAIN Ours
  BY <1>1, <1>2, TickTyped DEF SendResponse, SendData, Sending, TickOK
<1>5. \A i \in DOMAIN Ours : SlotOK(List, Ours[i])
  BY <1>1, <1>2 DEF SlotsOK
<1>6. s \in Slot /\ SlotOK(List, s) /\ SlotOK(List, Ours[1])
  BY <1>2, <1>4, <1>5
<1>7. s.remote # Undefined
  BY <1>6 DEF SendResponse, SendData, Sends, SlotOK
<1>8. List[Ours[1].local] \in Node
  BY <1>2, <1>6 DEF SlotOK, IsSocket
<1>9. LocalName(Pool, List, Ours[1].local) \in Name
  BY <1>2, <1>8 DEF LocalName, Name, Node, Places
<1>10. wire' \subseteq Datagram
  <2>1. Response(s) \in Datagram /\ Data(s) \in Datagram
    BY <1>1, <1>6, <1>7, <1>9, NamesOfSlot DEF Response, Data, Datagram, AnyPort
  <2>2. wire \subseteq Datagram
    BY <1>1 DEF TypeOK
  <2>. QED
    BY <2>1, <2>2 DEF SendResponse, SendData
<1>11. Growth /\ nodes'[Pool] = List
  BY <1>1, <1>2, <1>3, NodesKept
<1>12. slots' \in [Peers -> Seq(Slot)] /\ SlotsOK'
  <2>1. CASE SendResponse
    <3>. DEFINE t == [s EXCEPT !.state = "ready"]
                list == [Ours EXCEPT ![j] = t]
    <3>1. t \in Slot /\ t.local = s.local /\ t.remote = s.remote
      BY <1>6 DEF Slot
    <3>2. SlotOK(List, t)
      BY <1>6, <1>7, <3>1 DEF SlotOK
    <3>3. slots' = [slots EXCEPT ![p] = list]
      BY <1>2, <2>1 DEF SendResponse
    <3>. HIDE DEF s, t
    <3>4. list \in Seq(Slot) /\ \A i \in DOMAIN list : SlotOK(List, list[i])
      BY <1>2, <1>4, <1>5, <3>1, <3>2, SlotReplaced
    <3>. HIDE DEF list
    <3>. QED
      BY <1>1, <1>2, <1>11, <3>3, <3>4, OnePeerChanges
  <2>2. CASE SendData
    BY <1>1, <1>11, <2>2, SlotsKept DEF SendData, TypeOK
  <2>. QED
    BY <2>1, <2>2
<1>13. PacketsOK'
  BY <1>1, <1>3, <1>11, TickAdvances, PacketsKept
<1>. QED
  BY <1>1, <1>3, <1>10, <1>12, <1>13, TickAdvances DEF IInv, TypeOK

---------------------------------------------------------------------------
LEMMA InitIInv == Init => IInv
BY DEF Init, Idle, IInv, TypeOK, TickOK, SlotsOK, PacketsOK, Peers

LEMMA NextIInv == IInv /\ [Next]_vars => IInv'
<1>. SUFFICES ASSUME IInv, [Next]_vars PROVE IInv'
  OBVIOUS
<1>1. CASE UNCHANGED vars
  BY <1>1 DEF vars, IInv, TypeOK, TickOK, SlotsOK, PacketsOK, List, Pool
<1>2. CASE Next
  BY <1>2, PoolOpenKeeps, PoolConnectKeeps, PoolConnectOpenKeeps,
     PoolConnectFailsKeeps, PoolDestroyKeeps, TickBeginKeeps, TickEndKeeps,
     LoopKeeps, ResolveSlotKeeps, ReceiveKeeps, InputKeeps, SendKeeps DEF Next
<1>. QED
  BY <1>1, <1>2

LEMMA IInvHolds == Spec => []IInv
BY InitIInv, NextIInv, PTL DEF Spec

(* The assertions on ids of socket_pool.c hold, for any number of peers    *)
(* and pools, peers that share one, any loss and any order of datagrams,   *)
(* and even when an array moves under a pointer into it.                   *)
THEOREM IdsAreValid == Spec => []IdsValid
<1>1. IInv => IdsValid
  BY DEF IInv, SlotsOK, PacketsOK, SlotOK, PacketOK, IdsValid
<1>. QED
  BY <1>1, IInvHolds, PTL

---------------------------------------------------------------------------
(* An address has one id, as long as arrays do not move. *)

Distinct(list) ==
  \A k, l \in DOMAIN list : list[k] = list[l] => k = l

(* A port of a pool is one that was given. *)
PortsUpTo(list, n) == \A k \in DOMAIN list : list[k].local <= n

DInv ==
  \A q \in Pools : Distinct(nodes[q]) /\ PortsUpTo(nodes[q], ports)

LEMMA LocalPort ==
  ASSUME NEW list \in Seq(Node), NEW k \in DOMAIN list
  PROVE  list[k].local \in Nat
<1>1. list[k] \in Node
  OBVIOUS
<1>. QED
  BY <1>1 DEF Node

LEMMA WithNodeDistinct ==
  ASSUME NEW list \in Seq(Node), NEW name \in Name, NEW n \in Nat,
         Distinct(list), PortsUpTo(list, n)
  PROVE  LET new == WithNode(list, name, name)
         IN  Distinct(new) /\ PortsUpTo(new, n)
<1>1. CASE Matches(list, name) # {}
  BY <1>1 DEF WithNode
<1>2. CASE Matches(list, name) = {}
  <2>. DEFINE node == RemoteNode(name)
              new == Append(list, node)
  <2>1. node \in Node
    BY DEF RemoteNode, Node, Name, AnyPort
  <2>2. /\ node.local = AnyPort /\ node.remote = name.port
        /\ node.at = name.at
    BY DEF RemoteNode
  <2>3. \A k \in 1..Len(list) : list[k] # node
    BY <1>2, <2>2 DEF Matches
  <2>. HIDE DEF node
  <2>4. /\ DOMAIN new = 1..(Len(list) + 1) /\ DOMAIN list = 1..Len(list)
        /\ \A k \in 1..Len(list) : new[k] = list[k]
        /\ new[Len(list) + 1] = node
    BY <2>1
  <2>5. Len(list) \in Nat
    OBVIOUS
  <2>. HIDE DEF new
  <2>6. ASSUME NEW k \in DOMAIN new, NEW l \in DOMAIN new, new[k] = new[l]
        PROVE  k = l
    <3>1. CASE k \in 1..Len(list) /\ l \in 1..Len(list)
      BY <2>4, <2>6, <3>1 DEF Distinct
    <3>2. CASE k \in 1..Len(list) /\ l = Len(list) + 1
      BY <2>3, <2>4, <2>6, <3>2
    <3>3. CASE k = Len(list) + 1 /\ l \in 1..Len(list)
      BY <2>3, <2>4, <2>6, <3>3
    <3>. QED
      BY <2>4, <2>5, <3>1, <3>2, <3>3
  <2>7. ASSUME NEW k \in DOMAIN new PROVE new[k].local <= n
    <3>1. CASE k \in 1..Len(list)
      BY <2>4, <3>1 DEF PortsUpTo
    <3>2. CASE k = Len(list) + 1
      BY <2>2, <2>4, <3>2 DEF AnyPort
    <3>. QED
      BY <2>4, <2>5, <3>1, <3>2
  <2>8. WithNode(list, name, name) = new
    BY <1>2 DEF WithNode, new, node
  <2>. QED
    BY <2>6, <2>7, <2>8 DEF Distinct, PortsUpTo
<1>. QED
  BY <1>1, <1>2

LEMMA SocketsDistinct ==
  ASSUME NEW list \in Seq(Node), ports \in Nat, NEW count \in Nat,
         Distinct(list), PortsUpTo(list, ports)
  PROVE  LET new == list \o Sockets(count)
         IN  Distinct(new) /\ PortsUpTo(new, ports + count)
<1>. DEFINE added == Sockets(count)
            new == list \o added
<1>1. added \in Seq(Node) /\ Len(added) = count
  <2>1. \A k \in 1..count : SocketNode(ports + k) \in Node
    BY DEF SocketNode, Node, Places, AnyPort
  <2>. QED
    BY <2>1 DEF Sockets
<1>2. \A k \in 1..count : added[k].local = ports + k
  BY DEF Sockets, SocketNode
<1>. HIDE DEF added
<1>3. /\ new \in Seq(Node) /\ Len(new) = Len(list) + count
      /\ \A k \in 1..(Len(list) + count) :
           new[k] = IF k <= Len(list) THEN list[k] ELSE added[k - Len(list)]
  BY <1>1, ConcatProperties
<1>4. DOMAIN new = 1..(Len(list) + count) /\ DOMAIN list = 1..Len(list)
  BY <1>3
<1>5. Len(list) \in Nat
  OBVIOUS
<1>. HIDE DEF new
<1>6. \A k \in DOMAIN new : k <= Len(list) =>
        k \in DOMAIN list /\ new[k] = list[k] /\ new[k].local <= ports
  BY <1>3, <1>4, <1>5 DEF PortsUpTo
<1>7. \A k \in DOMAIN new : ~(k <= Len(list)) =>
        new[k].local = ports + (k - Len(list)) /\ k - Len(list) \in 1..count
  <2>. SUFFICES ASSUME NEW k \in DOMAIN new, ~(k <= Len(list))
                PROVE  new[k].local = ports + (k - Len(list))
                       /\ k - Len(list) \in 1..count
    OBVIOUS
  <2>1. k - Len(list) \in 1..count
    BY <1>4, <1>5
  <2>2. new[k] = added[k - Len(list)]
    BY <1>3, <1>4
  <2>. QED
    BY <1>2, <2>1, <2>2
<1>8. ASSUME NEW k \in DOMAIN new, NEW l \in DOMAIN new, new[k] = new[l]
      PROVE  k = l
  <2>0. k \in Nat /\ l \in Nat
    BY <1>4
  <2>1. CASE k <= Len(list) /\ l <= Len(list)
    BY <1>6, <1>8, <2>1 DEF Distinct
  <2>2. CASE k <= Len(list) /\ ~(l <= Len(list))
    <3>1. new[k].local \in Nat /\ new[k].local <= ports
      BY <1>3, <1>6, <2>2, LocalPort
    <3>2. new[l].local = ports + (l - Len(list)) /\ l - Len(list) \in 1..count
      BY <1>7, <2>2
    <3>. QED
      BY <1>8, <3>1, <3>2
  <2>3. CASE ~(k <= Len(list)) /\ l <= Len(list)
    <3>1. new[l].local \in Nat /\ new[l].local <= ports
      BY <1>3, <1>6, <2>3, LocalPort
    <3>2. new[k].local = ports + (k - Len(list)) /\ k - Len(list) \in 1..count
      BY <1>7, <2>3
    <3>. QED
      BY <1>8, <3>1, <3>2
  <2>4. CASE ~(k <= Len(list)) /\ ~(l <= Len(list))
    <3>1. ports + (k - Len(list)) = ports + (l - Len(list))
      BY <1>7, <1>8, <2>4
    <3>. QED
      BY <1>5, <2>0, <3>1
  <2>. QED
    BY <2>1, <2>2, <2>3, <2>4
<1>9. ASSUME NEW k \in DOMAIN new PROVE new[k].local <= ports + count
  <2>1. new[k].local \in Nat
    BY <1>3, LocalPort
  <2>2. CASE k <= Len(list)
    BY <1>6, <2>1, <2>2
  <2>3. CASE ~(k <= Len(list))
    BY <1>7, <2>3
  <2>. QED
    BY <2>2, <2>3
<1>. QED
  BY <1>8, <1>9 DEF Distinct, PortsUpTo, new, added

LEMMA OnePoolDistinct ==
  ASSUME TypeOK, DInv, NEW q \in Pools, NEW new,
         nodes' = [nodes EXCEPT ![q] = new],
         ports' \in Nat, ports <= ports',
         Distinct(new), PortsUpTo(new, ports')
  PROVE  DInv'
<1>. SUFFICES ASSUME NEW r \in Pools
              PROVE  Distinct(nodes'[r]) /\ PortsUpTo(nodes'[r], ports')
  BY DEF DInv
<1>1. CASE r = q
  <2>1. nodes'[r] = new
    BY <1>1 DEF TypeOK
  <2>. QED
    BY <2>1
<1>2. CASE r # q
  <2>1. nodes'[r] = nodes[r] /\ nodes[r] \in Seq(Node) /\ ports \in Nat
    BY <1>2 DEF TypeOK
  <2>2. Distinct(nodes[r]) /\ PortsUpTo(nodes[r], ports)
    BY DEF DInv
  <2>3. \A k \in DOMAIN nodes[r] : nodes[r][k].local \in Nat
    BY <2>1, LocalPort
  <2>4. PortsUpTo(nodes[r], ports')
    BY <2>1, <2>2, <2>3 DEF PortsUpTo
  <2>. QED
    BY <2>1, <2>2, <2>4
<1>. QED
  BY <1>1, <1>2

LEMMA NextDInv ==
  ASSUME IInv, DInv, ~Moves, [Next]_vars
  PROVE  DInv'
<1>1. TypeOK /\ SlotsOK /\ ports \in Nat
  BY DEF IInv, TypeOK
<1>2. ASSUME NEW q \in Pools
      PROVE  /\ nodes[q] \in Seq(Node)
             /\ Distinct(nodes[q]) /\ PortsUpTo(nodes[q], ports)
  BY <1>1 DEF TypeOK, DInv
<1>3. ASSUME NEW p \in Peers, NEW count \in Counts[p], PoolOpen(p, count)
      PROVE  DInv'
  <2>. DEFINE q == PoolOf[p]
              new == nodes[q] \o Sockets(count)
  <2>1. count \in Nat /\ q \in Pools
    BY PoolAssumption, PoolOfPeer
  <2>2. /\ nodes' = [nodes EXCEPT ![q] = new] /\ ports' = ports + count
        /\ ports' \in Nat /\ ports <= ports'
    BY <1>1, <1>3, <2>1 DEF PoolOpen
  <2>3. Distinct(new) /\ PortsUpTo(new, ports')
    BY <1>1, <1>2, <2>1, <2>2, SocketsDistinct
  <2>. HIDE DEF new
  <2>. QED
    BY <1>1, <2>1, <2>2, <2>3, OnePoolDistinct
<1>4. ASSUME NEW q \in Pools, NEW name \in Name,
             nodes' = [nodes EXCEPT ![q] = WithNode(nodes[q], name, name)],
             ports' = ports
      PROVE  DInv'
  <2>. DEFINE new == WithNode(nodes[q], name, name)
  <2>1. Distinct(new) /\ PortsUpTo(new, ports')
    BY <1>1, <1>2, <1>4, WithNodeDistinct
  <2>2. nodes' = [nodes EXCEPT ![q] = new] /\ ports' \in Nat /\ ports <= ports'
    BY <1>1, <1>4
  <2>. HIDE DEF new
  <2>. QED
    BY <1>1, <2>1, <2>2, OnePoolDistinct
<1>5. ASSUME NEW c \in Clients, PoolConnect(c) \/ PoolConnectFails(c)
      PROVE  DInv'
  <2>1. /\ PoolOf[c] \in Pools /\ ports' = ports
        /\ nodes' = [nodes EXCEPT ![PoolOf[c]] =
                       WithNode(nodes[PoolOf[c]], HostName, HostName)]
    BY <1>5, PoolOfPeer DEF Peers, PoolConnect, PoolConnectFails
  <2>2. HostName \in Name
    BY <1>1, <1>5, HostNamed DEF PoolConnect, PoolConnectFails, MayConnect
  <2>. QED
    BY <1>4, <2>1, <2>2
<1>6. ASSUME NEW c \in Clients, PoolConnectOpen(c)
      PROVE  DInv'
  <2>. DEFINE q == PoolOf[c]
              found == WithNode(nodes[q], HostName, HostName)
              new == found \o Sockets(1)
  <2>1. q \in Pools /\ HostName \in Name
    BY <1>1, <1>6, PoolOfPeer, HostNamed DEF Peers, PoolConnectOpen, MayConnect
  <2>2. /\ nodes' = [nodes EXCEPT ![q] = new] /\ ports' = ports + 1
        /\ ports' \in Nat /\ ports <= ports'
    BY <1>1, <1>6 DEF PoolConnectOpen
  <2>3. Distinct(found) /\ PortsUpTo(found, ports)
    BY <1>1, <1>2, <2>1, WithNodeDistinct
  <2>4. found \in Seq(Node)
    BY <1>2, <2>1, WithNodeGrows DEF Grown
  <2>. HIDE DEF found
  <2>5. Distinct(new) /\ PortsUpTo(new, ports')
    BY <1>1, <2>2, <2>3, <2>4, SocketsDistinct
  <2>. HIDE DEF new
  <2>. QED
    BY <1>1, <2>1, <2>2, <2>5, OnePoolDistinct
<1>7. ASSUME NEW q \in Pools, PoolDestroy(q)
      PROVE  DInv'
  <2>1. /\ nodes' = [nodes EXCEPT ![q] = <<>>]
        /\ ports' \in Nat /\ ports <= ports'
    BY <1>1, <1>7 DEF PoolDestroy
  <2>2. Distinct(<<>>) /\ PortsUpTo(<<>>, ports')
    BY DEF Distinct, PortsUpTo
  <2>. QED
    BY <1>1, <2>1, <2>2, OnePoolDistinct
<1>8. ASSUME UNCHANGED <<nodes, ports>>
      PROVE  DInv'
  BY <1>8 DEF DInv
<1>9. ASSUME ResolveSlot
      PROVE  DInv'
  <2>. DEFINE s == Addressed(Ours[tick.at])
  <2>1. s \in Slot /\ SlotOK(List, s)
    <3>1. Ours \in Seq(Slot) /\ Ours = slots[tick.peer] /\ tick.peer \in Peers
          /\ List = nodes[PoolOf[tick.peer]]
      BY <1>1, TickTyped DEF Ours, List, Pool
    <3>2. tick.at \in DOMAIN Ours
      BY <1>1, <1>9, <3>1, TickTyped DEF ResolveSlot, IInv, TickOK
    <3>3. SlotOK(List, Ours[tick.at])
      BY <1>1, <3>1, <3>2 DEF SlotsOK
    <3>. QED
      BY <1>1, <3>1, <3>2, <3>3, AddressedOK
  <2>2. ports' = ports
    BY <1>9 DEF ResolveSlot
  <2>3. CASE UNCHANGED nodes
    BY <1>8, <2>2, <2>3
  <2>4. CASE ~UNCHANGED nodes
    <3>1. PICK copied \in Copied(s) :
            nodes' = [nodes EXCEPT ![Pool] = WithNode(nodes[Pool], Wanted(s), copied)]
      BY <1>9, <2>4 DEF ResolveSlot
    <3>2. copied = Wanted(s)
      BY <3>1 DEF Copied
    <3>3. Wanted(s) \in Name /\ Pool \in Pools
      BY <1>1, <2>1, WantedTyped, TickTyped
    <3>. QED
      BY <1>4, <2>2, <3>1, <3>2, <3>3
  <2>. QED
    BY <2>3, <2>4
<1>10. ASSUME NEW d \in wire, Receive(d)
       PROVE  DInv'
  <2>1. d.from \in Name /\ Pool \in Pools
    BY <1>1, TickTyped DEF TypeOK, Datagram
  <2>2. ports' = ports
        /\ nodes' = [nodes EXCEPT ![Pool] = WithNode(nodes[Pool], d.from, d.from)]
    BY <1>10 DEF Receive
  <2>. QED
    BY <1>4, <2>1, <2>2
<1>11. CASE UNCHANGED vars
  BY <1>8, <1>11 DEF vars
<1>12. CASE Next
  BY <1>3, <1>5, <1>6, <1>7, <1>8, <1>9, <1>10, <1>12
     DEF Next, TickBegin, Resolved, NothingReceived, Received, Input, InputDone,
         SendResponse, SendData, NothingSent, TickEnd
<1>. QED
  BY <1>11, <1>12

(* find_pool_node gives an address one id, for any number of peers and     *)
(* pools, as long as the array of nodes does not move while it grows.      *)
THEOREM NodesAreDistinct ==
  ASSUME ~Moves
  PROVE  Spec => []NodesDistinct
<1>1. Init => DInv
  BY DEF Init, DInv, Distinct, PortsUpTo
<1>2. IInv /\ DInv /\ [Next]_vars => DInv'
  BY NextDInv
<1>3. DInv => NodesDistinct
  BY DEF DInv, Distinct, NodesDistinct
<1>. QED
  BY <1>1, <1>2, <1>3, IInvHolds, PTL DEF Spec

---------------------------------------------------------------------------
(* A new id is looked up by the previous one. *)

(* A slot whose remote id is to be looked up was told a port, and keeps    *)
(* the id it had.  Its address was read before: it is not read again.      *)
Told(s) == s.addr.at = Nowhere /\ s.addr # NoName

SlotR(s) ==
  IF s.remote = Undefined THEN s.addr = NoName
                          ELSE s.resolved \/ (s.named /\ Told(s))

(* A client's slots are addressed in the resolve phase, one after another. *)
TurnR ==
  (tick.phase # "idle" /\ tick.peer # Host) =>
    \A i \in DOMAIN Ours :
      ((tick.phase = "resolve" => i < tick.at) /\ Ours[i].remote # Undefined)
         => Ours[i].named

RInv ==
  /\ \A p \in Peers : \A i \in DOMAIN slots[p] : SlotR(slots[p][i])
  /\ TurnR

(* What the lookup changes in a slot of p. *)
LooksUp(p, s, t) ==
  (~s.resolved /\ s.remote # Undefined /\ t.resolved)
     => RemoteName(nodes'[PoolOf[p]], t.remote) =
          [at |-> nodes[PoolOf[p]][s.remote].at, port |-> s.addr.port]

Good(p) ==
  /\ \A i \in DOMAIN slots'[p] : SlotR(slots'[p][i])
  /\ \A i \in DOMAIN slots[p] \cap DOMAIN slots'[p] :
       LooksUp(p, slots[p][i], slots'[p][i])

LEMMA KeptGood ==
  ASSUME RInv, NEW p \in Peers, slots'[p] = slots[p]
  PROVE  Good(p)
BY DEF RInv, Good, LooksUp

LEMMA EmptyGood ==
  ASSUME NEW p, slots'[p] = <<>>
  PROVE  Good(p)
BY DEF Good

LEMMA JoinedAt ==
  ASSUME NEW a \in Seq(Slot), NEW b \in Seq(Slot)
  PROVE  /\ a \o b \in Seq(Slot) /\ Len(a \o b) = Len(a) + Len(b)
         /\ \A k \in 1..(Len(a) + Len(b)) :
              (a \o b)[k] = IF k <= Len(a) THEN a[k] ELSE b[k - Len(a)]
BY ConcatProperties

(* Slots are opened after the others. *)
LEMMA OpenedGood ==
  ASSUME RInv, TypeOK, NEW p \in Peers, NEW n \in Nat, NEW count \in Nat,
         slots'[p] = slots[p] \o NewSlots(n, count)
  PROVE  Good(p)
<1>. DEFINE added == NewSlots(n, count)
<1>1. /\ added \in Seq(Slot) /\ Len(added) = count
      /\ \A k \in 1..count : added[k] = NewSlot(n + k)
  BY NewSlotsTyped
<1>2. \A k \in 1..count : SlotR(added[k])
  BY <1>1 DEF NewSlot, SlotR
<1>3. slots[p] \in Seq(Slot)
  BY DEF TypeOK
<1>4. slots'[p] = slots[p] \o added
  OBVIOUS
<1>. HIDE DEF added
<1>5. /\ Len(slots'[p]) = Len(slots[p]) + count /\ slots'[p] \in Seq(Slot)
      /\ \A k \in 1..(Len(slots[p]) + count) :
           slots'[p][k] = IF k <= Len(slots[p]) THEN slots[p][k]
                                              ELSE added[k - Len(slots[p])]
  <2>. DEFINE a == slots[p]
              b == slots'[p]
  <2>1. a \in Seq(Slot) /\ added \in Seq(Slot) /\ Len(added) = count
        /\ b = a \o added
    BY <1>1, <1>3, <1>4
  <2>. HIDE DEF a, b
  <2>2. /\ b \in Seq(Slot) /\ Len(b) = Len(a) + count
        /\ \A k \in 1..(Len(a) + count) :
             b[k] = IF k <= Len(a) THEN a[k] ELSE added[k - Len(a)]
    BY <2>1, JoinedAt
  <2>. QED
    BY <2>2 DEF a, b
<1>6. /\ DOMAIN slots'[p] = 1..(Len(slots[p]) + count)
      /\ DOMAIN slots[p] = 1..Len(slots[p]) /\ Len(slots[p]) \in Nat
  BY <1>3, <1>5
<1>7. \A i \in DOMAIN slots[p] : slots'[p][i] = slots[p][i]
  BY <1>5, <1>6
<1>8. ASSUME NEW i \in DOMAIN slots'[p] PROVE SlotR(slots'[p][i])
  <2>1. CASE i <= Len(slots[p])
    <3>1. i \in DOMAIN slots[p]
      BY <1>6, <2>1
    <3>. QED
      BY <1>7, <3>1 DEF RInv
  <2>2. CASE ~(i <= Len(slots[p]))
    <3>1. i - Len(slots[p]) \in 1..count
      BY <1>6, <2>2
    <3>2. slots'[p][i] = added[i - Len(slots[p])]
      BY <1>5, <1>6, <2>2
    <3>. QED
      BY <1>2, <3>1, <3>2
  <2>. QED
    BY <2>1, <2>2
<1>. QED
  BY <1>7, <1>8 DEF Good, LooksUp

(* A client that connects has no remote id. *)
LEMMA ConnectedGood ==
  ASSUME NEW p \in Peers, NEW a \in Seq(Slot), NEW id \in Nat,
         id # Undefined, FreeSlots(a) # {},
         \A i \in DOMAIN a : SlotR(a[i]),
         \A i \in DOMAIN slots[p] : slots[p][i].remote = Undefined,
         slots'[p] = Connected(a, id)
  PROVE  Good(p)
<1>. DEFINE j == Min(FreeSlots(a))
<1>1. FreeSlots(a) \subseteq DOMAIN a /\ FreeSlots(a) \subseteq Nat
  BY DEF FreeSlots
<1>2. j \in DOMAIN a
  BY <1>1, MinIn
<1>3. DOMAIN Connected(a, id) = DOMAIN a
  BY DEF Connected
<1>4. /\ Connected(a, id)[j].remote = id /\ Connected(a, id)[j].resolved
      /\ \A i \in DOMAIN a : i # j => Connected(a, id)[i] = a[i]
  <2>. HIDE DEF j
  <2>1. a[j] \in Slot
    BY <1>2
  <2>. QED
    BY <1>2, <2>1 DEF Connected, Slot, j
<1>. HIDE DEF j
<1>5. \A i \in DOMAIN slots'[p] : SlotR(slots'[p][i])
  BY <1>3, <1>4 DEF SlotR
<1>. QED
  BY <1>5 DEF Good, LooksUp

(* find_pool_node returns the id of the address it was given. *)
LEMMA NodeFound ==
  ASSUME NEW list \in Seq(Node), NEW name \in Name
  PROVE  RemoteName(WithNode(list, name, name), NodeId(list, name)) = name
<1>1. name = [at |-> name.at, port |-> name.port]
  BY DEF Name
<1>2. CASE Matches(list, name) = {}
  <2>. DEFINE node == RemoteNode(name)
  <2>1. node \in Node
    BY DEF RemoteNode, Node, Name, AnyPort
  <2>2. node.remote = name.port /\ node.at = name.at
    BY DEF RemoteNode
  <2>. HIDE DEF node
  <2>3. Append(list, node)[Len(list) + 1] = node
    BY <2>1
  <2>. QED
    BY <1>1, <1>2, <2>2, <2>3 DEF WithNode, NodeId, RemoteName, node
<1>3. CASE Matches(list, name) # {}
  <2>1. Matches(list, name) \subseteq Nat
    BY DEF Matches
  <2>2. Min(Matches(list, name)) \in Matches(list, name)
    BY <1>3, <2>1, MinIn
  <2>. QED
    BY <1>1, <1>3, <2>2 DEF WithNode, NodeId, Matches, RemoteName
<1>. QED
  BY <1>2, <1>3

(* The slot that resolve_address_and_id leaves. *)
LEMMA ResolveGood ==
  ASSUME IInv, RInv, ~Moves, ResolveSlot
  PROVE  /\ \A p \in Peers : Good(p)
         /\ TurnR'
<1>. DEFINE p == tick.peer
            j == tick.at
            old == Ours[tick.at]
            s == Addressed(Ours[tick.at])
            t == slots'[tick.peer][tick.at]
<1>1. TypeOK /\ TickOK /\ SlotsOK
  BY DEF IInv
<1>2. /\ p \in Peers /\ Pool \in Pools /\ Pool = PoolOf[p]
      /\ List \in Seq(Node) /\ List = nodes[Pool]
      /\ Ours \in Seq(Slot) /\ Ours = slots[p]
  BY <1>1, TickTyped DEF Pool, List, Ours
<1>3. j \in DOMAIN Ours
  BY <1>1, <1>2, TickTyped DEF ResolveSlot, TickOK
<1>4. old \in Slot /\ SlotOK(List, old) /\ SlotR(old)
  BY <1>1, <1>2, <1>3 DEF SlotsOK, RInv
<1>5. s \in Slot /\ SlotOK(List, s)
  BY <1>1, <1>4, AddressedOK
<1>6. /\ s.remote = old.remote /\ s.resolved = old.resolved
      /\ s.remote # Undefined => s.named
      /\ old.named \/ old.remote = Undefined => s.addr = old.addr
  BY <1>4 DEF Addressed, Slot
<1>7. ~ByAddress(s)
  BY <1>4, <1>6 DEF ByAddress, SlotR, Told, NoName
<1>8. ASSUME ByPreviousId(s)
      PROVE  /\ DOMAIN slots'[p] = DOMAIN Ours
             /\ \A i \in DOMAIN Ours : i # j => slots'[p][i] = Ours[i]
             /\ \A r \in Peers : r # p => slots'[r] = slots[r]
             /\ SlotR(t) /\ LooksUp(p, old, t) /\ (t.remote # Undefined => t.named)
  <2>. DEFINE name == Wanted(s)
              u == [s EXCEPT !.remote = NodeId(List, name), !.resolved = TRUE]
  <2>1. name \in Name
    BY <1>1, <1>5, WantedTyped
  <2>2. /\ nodes' = [nodes EXCEPT ![Pool] = WithNode(nodes[Pool], name, name)]
        /\ slots' = [slots EXCEPT ![p][j] = u]
    BY <1>8 DEF ResolveSlot, Copied
  <2>3. s.remote # Undefined /\ s.named /\ old.named /\ s.addr = old.addr
    BY <1>4, <1>6, <1>8 DEF ByPreviousId, SlotR
  <2>4. name = [at |-> List[old.remote].at, port |-> old.addr.port]
    <3>1. s.addr \in Name
      BY <1>5 DEF Slot
    <3>. QED
      BY <1>6, <1>8, <2>3, <3>1 DEF Wanted, Name
  <2>5. /\ nodes'[Pool] = WithNode(List, name, name)
        /\ t = u /\ DOMAIN slots'[p] = DOMAIN Ours
        /\ \A i \in DOMAIN Ours : i # j => slots'[p][i] = Ours[i]
        /\ \A r \in Peers : r # p => slots'[r] = slots[r]
    <3>. HIDE DEF u, name
    <3>. QED
      BY <1>1, <1>2, <1>3, <2>2 DEF TypeOK
  <2>6. /\ u.remote = NodeId(List, name) /\ u.resolved /\ u.named
    BY <1>5, <2>3 DEF Slot
  <2>7. NodeId(List, name) # Undefined
    BY <1>2, <2>1, WithNodeGrows DEF IsRemote, Undefined, Grown
  <2>8. RemoteName(nodes'[Pool], u.remote) = name
    BY <1>2, <2>1, <2>5, <2>6, NodeFound
  <2>. HIDE DEF u, name
  <2>9. SlotR(t) /\ LooksUp(p, old, t) /\ t.named
    BY <1>2, <2>4, <2>5, <2>6, <2>7, <2>8 DEF SlotR, LooksUp
  <2>. QED
    BY <1>2, <2>5, <2>9
<1>9. ASSUME ~ByPreviousId(s)
      PROVE  /\ DOMAIN slots'[p] = DOMAIN Ours
             /\ \A i \in DOMAIN Ours : i # j => slots'[p][i] = Ours[i]
             /\ \A r \in Peers : r # p => slots'[r] = slots[r]
             /\ SlotR(t) /\ LooksUp(p, old, t) /\ (t.remote # Undefined => t.named)
  <2>1. UNCHANGED nodes /\ slots' = [slots EXCEPT ![p][j] = s]
    BY <1>7, <1>9 DEF ResolveSlot
  <2>2. old.remote = Undefined \/ old.resolved
    BY <1>4, <1>6, <1>9 DEF ByPreviousId, SlotR, Told
  <2>. HIDE DEF s
  <2>3. /\ t = s /\ DOMAIN slots'[p] = DOMAIN Ours
        /\ \A i \in DOMAIN Ours : i # j => slots'[p][i] = Ours[i]
        /\ \A r \in Peers : r # p => slots'[r] = slots[r]
    BY <1>1, <1>2, <1>3, <2>1 DEF TypeOK
  <2>4. SlotR(t) /\ LooksUp(p, old, t) /\ (t.remote # Undefined => t.named)
    BY <1>4, <1>6, <2>2, <2>3 DEF SlotR, LooksUp
  <2>. QED
    BY <1>2, <2>3, <2>4
<1>10. /\ DOMAIN slots'[p] = DOMAIN Ours
       /\ \A i \in DOMAIN Ours : i # j => slots'[p][i] = Ours[i]
       /\ \A r \in Peers : r # p => slots'[r] = slots[r]
       /\ SlotR(t) /\ LooksUp(p, old, t) /\ (t.remote # Undefined => t.named)
  BY <1>8, <1>9
<1>. HIDE DEF t, s
<1>11. Good(p)
  BY <1>2, <1>3, <1>10 DEF Good, LooksUp, RInv, t
<1>12. ASSUME NEW r \in Peers PROVE Good(r)
  BY <1>10, <1>11, KeptGood
<1>13. TurnR'
  <2>1. /\ tick'.phase = tick.phase /\ tick'.peer = p /\ tick'.at = j + 1
        /\ tick.phase = "resolve" /\ j \in Nat
    BY <1>1 DEF ResolveSlot, Step, TypeOK
  <2>. SUFFICES ASSUME tick'.peer # Host, NEW i \in DOMAIN slots'[p],
                       i < j + 1, slots'[p][i].remote # Undefined
                PROVE  slots'[p][i].named
    BY <2>1 DEF TurnR, Ours
  <2>2. CASE i = j
    BY <1>10, <2>2 DEF t
  <2>3. CASE i # j
    <3>1. i \in Nat
      BY <1>2, <1>10
    <3>2. i < j
      BY <2>1, <2>3, <3>1
    <3>. QED
      BY <1>2, <1>10, <2>1, <2>3, <3>2 DEF RInv, TurnR
  <2>. QED
    BY <2>2, <2>3
<1>. QED
  BY <1>12, <1>13

(* A packet for a free slot, or one that tells a port. *)
LEMMA InputGood ==
  ASSUME IInv, RInv, Input
  PROVE  /\ \A p \in Peers : Good(p)
         /\ TurnR'
<1>. DEFINE p == tick.peer
            x == Head(tick.packets)
<1>1. TypeOK /\ TickOK /\ SlotsOK /\ PacketsOK
  BY DEF IInv
<1>2. /\ p \in Peers /\ Pool = PoolOf[p] /\ List \in Seq(Node)
      /\ Ours \in Seq(Slot) /\ Ours = slots[p]
      /\ tick.packets \in Seq(Packet) /\ tick.packets # <<>>
  BY <1>1, TickTyped DEF Pool, Ours, Input
<1>3. x \in Packet /\ PacketOK(List, x)
  <2>1. 1 \in DOMAIN tick.packets /\ x = tick.packets[1]
    BY <1>2
  <2>. QED
    BY <1>1, <1>2, <2>1 DEF PacketsOK
<1>4. x.src # Undefined
  BY <1>2, <1>3 DEF PacketOK, IsRemote, Undefined
<1>5. /\ tick.phase = "input" /\ tick'.phase = "input" /\ tick'.peer = p
      /\ slots' = [slots EXCEPT
                     ![p] = IF Accepts(x) THEN Assign(x)
                            ELSE IF Answers(x) THEN SessionResponse(x) ELSE Ours]
  BY <1>1, <1>2 DEF Input, TypeOK
<1>. HIDE DEF x
<1>6. ASSUME Accepts(x)
      PROVE  Good(p) /\ TurnR'
  <2>. DEFINE j == Min(Assignable)
  <2>1. Assignable # {} /\ p = Host
    BY <1>6 DEF Accepts
  <2>2. Assignable \subseteq DOMAIN Ours /\ Assignable \subseteq Nat
    BY <1>2 DEF Assignable, FreeSlots
  <2>3. j \in Assignable
    BY <2>1, <2>2, MinIn
  <2>4. j \in DOMAIN Ours /\ Ours[j].remote = Undefined
    BY <2>3 DEF Assignable, FreeSlots
  <2>5. slots'[p] = Assign(x)
    BY <1>1, <1>2, <1>5, <1>6 DEF TypeOK
  <2>6. /\ DOMAIN Assign(x) = DOMAIN Ours
        /\ Assign(x)[j].remote = x.src /\ Assign(x)[j].resolved
        /\ \A i \in DOMAIN Ours : i # j => Assign(x)[i] = Ours[i]
    <3>. HIDE DEF j
    <3>1. Ours[j] \in Slot
      BY <1>2, <2>4
    <3>. QED
      BY <2>4, <3>1 DEF Assign, Slot, j
  <2>. HIDE DEF j
  <2>7. \A i \in DOMAIN slots'[p] : SlotR(slots'[p][i])
    BY <1>2, <1>4, <2>5, <2>6 DEF SlotR, RInv
  <2>8. Good(p)
    BY <1>2, <2>4, <2>5, <2>6, <2>7 DEF Good, LooksUp
  <2>. QED
    BY <1>5, <2>1, <2>8 DEF TurnR
<1>7. ASSUME ~Accepts(x), Answers(x)
      PROVE  Good(p) /\ TurnR'
  <2>. DEFINE j == Min(Addressees(x))
  <2>1. Addressees(x) # {} /\ p # Host /\ x.response # AnyPort
    BY <1>7 DEF Answers
  <2>2. Addressees(x) \subseteq DOMAIN Ours /\ Addressees(x) \subseteq Nat
    BY <1>2 DEF Addressees
  <2>3. j \in Addressees(x)
    BY <2>1, <2>2, MinIn
  <2>4. j \in DOMAIN Ours /\ Ours[j].remote = x.src
    BY <2>3 DEF Addressees
  <2>5. slots'[p] = SessionResponse(x)
    BY <1>1, <1>2, <1>5, <1>7 DEF TypeOK
  <2>6. /\ DOMAIN SessionResponse(x) = DOMAIN Ours
        /\ LET s == SessionResponse(x)[j]
           IN  /\ s.remote = Ours[j].remote /\ s.named = Ours[j].named
               /\ s.resolved = FALSE
               /\ s.addr = [at |-> Nowhere, port |-> x.response]
        /\ \A i \in DOMAIN Ours : i # j => SessionResponse(x)[i] = Ours[i]
    <3>. HIDE DEF j
    <3>1. Ours[j] \in Slot
      BY <1>2, <2>4
    <3>. QED
      BY <2>4, <3>1 DEF SessionResponse, Slot, j
  <2>. HIDE DEF j
  <2>7. \A i \in DOMAIN Ours : Ours[i].remote # Undefined => Ours[i].named
    BY <1>5, <2>1 DEF RInv, TurnR
  <2>8. Told(SessionResponse(x)[j])
    BY <2>1, <2>6 DEF Told, NoName
  <2>9. SlotR(SessionResponse(x)[j])
    BY <1>4, <2>4, <2>6, <2>7, <2>8 DEF SlotR
  <2>10. \A i \in DOMAIN slots'[p] : SlotR(slots'[p][i])
    BY <1>2, <2>5, <2>6, <2>9 DEF RInv
  <2>11. Good(p)
    BY <1>2, <2>5, <2>6, <2>10 DEF Good, LooksUp
  <2>12. \A i \in DOMAIN slots'[p] :
           slots'[p][i].remote # Undefined => slots'[p][i].named
    BY <2>4, <2>5, <2>6, <2>7
  <2>. QED
    BY <1>5, <2>11, <2>12 DEF TurnR, Ours
<1>8. ASSUME ~Accepts(x), ~Answers(x)
      PROVE  Good(p) /\ TurnR'
  <2>1. slots'[p] = Ours
    BY <1>1, <1>2, <1>5, <1>8 DEF TypeOK
  <2>2. Good(p)
    BY <1>2, <2>1, KeptGood
  <2>. QED
    BY <1>2, <1>5, <2>1, <2>2 DEF TurnR, RInv, Ours
<1>9. ASSUME NEW r \in Peers, r # p PROVE Good(r)
  <2>1. slots'[r] = slots[r]
    BY <1>1, <1>5, <1>9 DEF TypeOK
  <2>. QED
    BY <2>1, KeptGood
<1>. QED
  BY <1>6, <1>7, <1>8, <1>9

(* The other steps *)
LEMMA NextGood ==
  ASSUME IInv, RInv, ~Moves, [Next]_vars
  PROVE  /\ \A p \in Peers : Good(p)
         /\ TurnR'
<1>1. TypeOK /\ SlotsOK /\ TickOK
  BY DEF IInv
<1>2. ASSUME UNCHANGED slots
      PROVE  \A p \in Peers : Good(p)
  BY <1>2, KeptGood
<1>3. ASSUME tick.phase = "idle", UNCHANGED tick
      PROVE  TurnR'
  BY <1>3 DEF TurnR
<1>4. ASSUME NEW p \in Peers, NEW list, slots' = [slots EXCEPT ![p] = list]
      PROVE  /\ slots'[p] = list
             /\ \A r \in Peers : r # p => Good(r)
  <2>1. slots'[p] = list /\ \A r \in Peers : r # p => slots'[r] = slots[r]
    BY <1>1, <1>4 DEF TypeOK
  <2>. QED
    BY <2>1, KeptGood
<1>5. ASSUME NEW p \in Peers, NEW count \in Counts[p], PoolOpen(p, count)
      PROVE  (\A r \in Peers : Good(r)) /\ TurnR'
  <2>. DEFINE n == Len(nodes[PoolOf[p]])
  <2>1. count \in Nat /\ n \in Nat
    <3>1. nodes[PoolOf[p]] \in Seq(Node)
      BY <1>1, PoolOfPeer DEF TypeOK
    <3>. QED
      BY <3>1, PoolAssumption
  <2>2. slots' = [slots EXCEPT ![p] = slots[p] \o NewSlots(n, count)]
    BY <1>5 DEF PoolOpen
  <2>. HIDE DEF n
  <2>3. Good(p)
    BY <1>1, <1>4, <2>1, <2>2, OpenedGood
  <2>. QED
    BY <1>3, <1>4, <1>5, <2>2, <2>3 DEF PoolOpen, Runs
<1>6. ASSUME NEW c \in Clients, PoolConnect(c) \/ PoolConnectOpen(c)
      PROVE  (\A r \in Peers : Good(r)) /\ TurnR'
  <2>. DEFINE list == nodes[PoolOf[c]]
              id == NodeId(list, HostName)
              n == Len(WithNode(list, HostName, HostName))
              added == NewSlots(n, 1)
              both == slots[c] \o added
  <2>1. /\ c \in Peers /\ MayConnect(c) /\ tick.phase = "idle" /\ UNCHANGED tick
    BY <1>6 DEF Peers, PoolConnect, PoolConnectOpen, MayConnect, Runs
  <2>2. /\ list \in Seq(Node) /\ slots[c] \in Seq(Slot)
    BY <1>1, <2>1, PoolOfPeer DEF TypeOK
  <2>3. HostName \in Name
    BY <1>1, <2>1, HostNamed DEF MayConnect
  <2>4. id \in Nat /\ id # Undefined /\ n \in Nat
    BY <2>2, <2>3, WithNodeGrows DEF IsRemote, Undefined, Grown
  <2>5. \A i \in DOMAIN slots[c] :
          slots[c][i].remote = Undefined /\ SlotR(slots[c][i])
    BY <2>1 DEF MayConnect, RInv
  <2>6. CASE PoolConnect(c)
    <3>1. FreeSlots(slots[c]) # {}
          /\ slots' = [slots EXCEPT ![c] = Connected(slots[c], id)]
      BY <2>6 DEF PoolConnect
    <3>. HIDE DEF id
    <3>2. Good(c)
      BY <1>4, <2>1, <2>2, <2>4, <2>5, <3>1, ConnectedGood
    <3>. QED
      BY <1>3, <1>4, <2>1, <3>1, <3>2
  <2>7. CASE PoolConnectOpen(c)
    <3>1. slots' = [slots EXCEPT ![c] = Connected(both, id)]
      BY <2>7 DEF PoolConnectOpen
    <3>. HIDE DEF id, n
    <3>2. /\ added \in Seq(Slot) /\ Len(added) = 1
          /\ \A k \in 1..1 : added[k] = NewSlot(n + k)
      BY <2>4, NewSlotsTyped
    <3>3. SlotR(added[1]) /\ added[1].remote = Undefined
      BY <3>2 DEF NewSlot, SlotR
    <3>. HIDE DEF added
    <3>4. /\ both \in Seq(Slot)
          /\ \A i \in DOMAIN both : SlotR(both[i])
          /\ FreeSlots(both) # {}
      <4>. DEFINE a == slots[c]
      <4>1. a \in Seq(Slot) /\ both = a \o added
            /\ \A i \in DOMAIN a : SlotR(a[i])
        BY <2>2, <2>5
      <4>. HIDE DEF a, both
      <4>2. /\ both \in Seq(Slot) /\ Len(both) = Len(a) + 1
            /\ \A k \in 1..(Len(a) + 1) :
                 both[k] = IF k <= Len(a) THEN a[k] ELSE added[k - Len(a)]
        <5>1. added \in Seq(Slot) /\ Len(added) = 1
          BY <3>2
        <5>2. /\ a \o added \in Seq(Slot) /\ Len(a \o added) = Len(a) + Len(added)
              /\ \A k \in 1..(Len(a) + Len(added)) :
                   (a \o added)[k] =
                      IF k <= Len(a) THEN a[k] ELSE added[k - Len(a)]
          BY <4>1, <5>1, JoinedAt
        <5>. QED
          BY <4>1, <5>1, <5>2
      <4>3. DOMAIN both = 1..(Len(a) + 1) /\ DOMAIN a = 1..Len(a)
            /\ Len(a) \in Nat
        BY <4>1, <4>2
      <4>4. both[Len(a) + 1] = added[1]
        <5>1. ~(Len(a) + 1 <= Len(a)) /\ (Len(a) + 1) - Len(a) = 1
          BY <4>3
        <5>. QED
          BY <4>2, <4>3, <5>1
      <4>5. ASSUME NEW i \in DOMAIN both PROVE SlotR(both[i])
        <5>1. CASE i \in DOMAIN a
          BY <4>1, <4>2, <4>3, <5>1
        <5>2. CASE i = Len(a) + 1
          BY <3>3, <4>4, <5>2
        <5>. QED
          BY <4>3, <5>1, <5>2
      <4>6. Len(a) + 1 \in FreeSlots(both)
        BY <3>3, <4>3, <4>4 DEF FreeSlots
      <4>. QED
        BY <4>2, <4>5, <4>6
    <3>. HIDE DEF both
    <3>5. Good(c)
      BY <1>4, <2>1, <2>4, <2>5, <3>1, <3>4, ConnectedGood
    <3>. QED
      BY <1>3, <1>4, <2>1, <3>1, <3>5
  <2>. QED
    BY <1>6, <2>6, <2>7
<1>7. ASSUME NEW c \in Clients, PoolConnectFails(c)
      PROVE  (\A r \in Peers : Good(r)) /\ TurnR'
  BY <1>2, <1>3, <1>7 DEF PoolConnectFails, MayConnect, Runs
<1>8. ASSUME NEW q \in Pools, PoolDestroy(q)
      PROVE  (\A r \in Peers : Good(r)) /\ TurnR'
  <2>1. ASSUME NEW r \in Peers PROVE Good(r)
    <3>1. slots'[r] = <<>> \/ slots'[r] = slots[r]
      BY <1>8 DEF PoolDestroy
    <3>. QED
      BY <3>1, KeptGood, EmptyGood
  <2>. QED
    BY <1>3, <1>8, <2>1 DEF PoolDestroy
<1>9. ASSUME NEW p \in Peers, TickBegin(p)
      PROVE  (\A r \in Peers : Good(r)) /\ TurnR'
  <2>1. tick'.phase = "resolve" /\ tick'.at = 1 /\ tick'.peer = p
        /\ UNCHANGED slots
    BY <1>9 DEF TickBegin
  <2>2. slots[p] \in Seq(Slot)
    BY <1>1 DEF TypeOK
  <2>3. \A i \in DOMAIN slots[p] : ~(i < 1)
    BY <2>2
  <2>. QED
    BY <1>2, <2>1, <2>3 DEF TurnR, Ours
<1>10. ASSUME Resolved
       PROVE  (\A r \in Peers : Good(r)) /\ TurnR'
  <2>1. tick'.phase = "receive" /\ tick'.peer = tick.peer /\ UNCHANGED slots
        /\ tick.phase = "resolve" /\ tick.at > Len(Ours) /\ tick.at \in Nat
    BY <1>1, <1>10 DEF Resolved, Phase, TypeOK
  <2>2. \A i \in DOMAIN Ours : i < tick.at
    BY <1>1, <2>1, TickTyped
  <2>. QED
    BY <1>2, <2>1, <2>2 DEF TurnR, RInv, Ours
<1>11. ASSUME NothingReceived \/ Received \/ InputDone \/ NothingSent
              \/ SendData \/ (\E d \in wire : Receive(d))
       PROVE  (\A r \in Peers : Good(r)) /\ TurnR'
  <2>1. /\ tick'.phase # "idle" /\ tick'.peer = tick.peer /\ UNCHANGED slots
        /\ tick.phase # "idle" /\ tick.phase # "resolve"
        /\ tick'.phase # "resolve"
    BY <1>1, <1>11 DEF NothingReceived, Received, InputDone, NothingSent,
       SendData, Receive, Sending, Step, Phase, TypeOK
  <2>. QED
    BY <1>2, <2>1 DEF TurnR, RInv, Ours
<1>12. ASSUME SendResponse
       PROVE  (\A r \in Peers : Good(r)) /\ TurnR'
  <2>. DEFINE j == tick.at
              t == [Ours[j] EXCEPT !.state = "ready"]
              list == [Ours EXCEPT ![j] = t]
  <2>1. /\ tick.peer = Host /\ Host \in Peers /\ tick'.peer = Host
        /\ Ours \in Seq(Slot) /\ Ours = slots[Host]
        /\ slots' = [slots EXCEPT ![Host] = list]
    BY <1>1, <1>12, TickTyped DEF SendResponse, Step, TypeOK, Ours, Peers
  <2>2. j \in DOMAIN Ours
    BY <1>1, <1>12, <2>1, TickTyped DEF SendResponse, Sending, TickOK
  <2>3. Ours[j] \in Slot
    BY <2>1, <2>2
  <2>4. /\ t.remote = Ours[j].remote /\ t.resolved = Ours[j].resolved
        /\ t.named = Ours[j].named /\ t.addr = Ours[j].addr
    BY <2>3 DEF Slot
  <2>. HIDE DEF t
  <2>5. /\ slots'[Host] = list /\ DOMAIN list = DOMAIN Ours /\ list[j] = t
        /\ \A i \in DOMAIN Ours : i # j => list[i] = Ours[i]
    BY <1>4, <2>1, <2>2
  <2>. HIDE DEF list
  <2>6. SlotR(t) /\ LooksUp(Host, Ours[j], t)
    BY <2>1, <2>2, <2>4 DEF RInv, SlotR, Told, LooksUp
  <2>7. Good(Host)
    BY <2>1, <2>2, <2>5, <2>6 DEF Good, RInv, LooksUp
  <2>. QED
    BY <1>4, <2>1, <2>7 DEF TurnR
<1>13. ASSUME TickEnd
       PROVE  (\A r \in Peers : Good(r)) /\ TurnR'
  BY <1>2, <1>13 DEF TickEnd, Idle, TurnR
<1>14. CASE UNCHANGED vars
  BY <1>2, <1>14 DEF vars, TurnR, RInv, Ours
<1>15. CASE Next
  BY <1>5, <1>6, <1>7, <1>8, <1>9, <1>10, <1>11, <1>12, <1>13, <1>15,
     ResolveGood, InputGood DEF Next
<1>. QED
  BY <1>14, <1>15

(* "Get remote id by port and previous id" does what it says for any       *)
(* number of peers and pools, as long as the array of nodes does not move  *)
(* while it grows.                                                         *)
THEOREM LookupByPreviousId ==
  ASSUME ~Moves
  PROVE  Spec => ResolvedByPreviousId
<1>1. Init => RInv
  BY DEF Init, Idle, RInv, TurnR
<1>2. IInv /\ RInv /\ [Next]_vars => RInv'
  BY NextGood DEF Good, RInv
<1>3. IInv /\ RInv /\ [Next]_vars =>
        [\A p \in Peers : \A i \in DOMAIN slots[p] \cap DOMAIN slots'[p] :
           LET s == slots[p][i] IN
           (~s.resolved /\ s.remote # Undefined /\ slots'[p][i].resolved)
              => RemoteName(nodes'[PoolOf[p]], slots'[p][i].remote) =
                   [at |-> nodes[PoolOf[p]][s.remote].at,
                    port |-> s.addr.port]]_vars
  BY NextGood DEF Good, LooksUp
<1>. QED
  BY <1>1, <1>2, <1>3, IInvHolds, PTL DEF Spec, ResolvedByPreviousId

===========================================================================
