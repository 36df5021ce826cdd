# peer: a TLA+ model of the mutual message log

`peer` is a C library with which one host and several clients exchange small
messages over UDP "and to ensure deterministic order of those messages". This
directory holds TLA+ modules that model its protocol, TLC configurations that
check it on small instances, and proofs that TLAPS checks for every instance.

## The system

| component | source | state | operations |
|---|---|---|---|
| peer, `PEER_HOST` | `peer.c`, `peer.h` | `queue` (mutual messages), `queue_index`, `time`, `time_local`; per slot `state`, `local`, `remote`, `queue` (received from its client), `in_index`, `out_index`, `clock_heartbeat` | `peer_init`, `peer_open`, `peer_queue`, `peer_input`, `peer_tick`, `peer_destroy` |
| peer, `PEER_CLIENT` | `peer.c`, `peer.h` | `actor`, `time`, `queue` (mutual messages received), one slot: `remote`, `queue` (own messages), `out_index`, `clock_heartbeat` | the same and `peer_connect` |
| queues and trails | `peer.c` | arrays of messages with `is_ready` | `queue_append`, `queue_insert`, `chunks_append_trail`, `queue_pack` |
| packets | `packet.c` | none | `peer_pack`, `peer_unpack` |
| serialization | `serial.h`, `options.h` | none | `peer_write_message`, `peer_read_message_*` |
| socket pool | `socket_pool.c` | nodes: sockets and remote addresses | `peer_pool_open`, `peer_pool_connect`, `peer_pool_tick` |
| sockets | `sockets.h` | none | wrappers of system calls |
| cipher | `cipher.c` | a key | unimplemented, never called |

How they interact. A client sends to slot 0 of the host. The host gives the
sender of a packet that no slot expects the first free slot, and its next tick
answers with a session response: the actor id (the index of the slot) and the
address of that slot. The client takes the actor id, the pool turns the address
into a new remote id, and from then on the two talk over that slot. A client's
messages go into the slot's queue at their own indexes; a tick of the host
moves them, slot after slot and without gaps, to the end of the mutual queue,
stamps the new part of it with the time, and sends each ready slot what it has
not been sent, with a trail of older messages against losses. A client inserts
what it receives into its own mutual queue, by index. With nothing new to send,
both sides send a heartbeat with a trail every 10 ms. Everything runs in one
thread per process: peers interleave only through packets, and a packet may be
lost, repeated, delayed and overtaken.

What is hard here, and what has to hold:

* the mutual queue is copied message by message over such a network and an
  entry, once made, is never corrected: every copy must agree with the host's
  from the start (`Agreement`, `InFlight`), and times must be final before a
  message is sent (`TimeOrder`);
* holes: a client's messages arrive in any order but must enter the mutual
  queue in theirs, once each (`ClientOrder`);
* echoes: a client's heartbeat sends mutual messages back to the host, which must
  not take them for new ones and does when they bear no time (`OrderKept`,
  `EchoCause`, `Attributed`);
* sessions: the first packets of clients and the responses to them are repeated
  and late, and a slot has to end up with one client that knows it by the right
  actor id (`SessionsRouted`, `SessionSticky`);
* progress: lost messages must come again in trails, as long as the trail covers
  them (`RecentDelivered`);
* failing allocations, after which a message is passed over, a send is repeated or
  half of a packet is used (`ClientSubsequence`, `PackedPrefix`, `InOrder`);
* bytes: sizes at the limits of a packet and of ten bits, fields that share a byte
  (`RoundTrip`, `PacketsFit`, `ReadsBack`);
* ids: two peers know each other by places in two arrays, which have to lead to
  the same sockets after the session response has moved the client (`Routed`).

`PROJECT.json` lists these hazards with the lines where they bite.

## The modules

| module | models |
|---|---|
| `PeerMessages` | messages, chunks, `queue_insert`, the choice of trails, `queue_pack`, `peer_pack` |
| `PeerNet` | the packets under way, the constants both kinds of peer share |
| `PeerHost` | a peer in host mode |
| `PeerClient` | the peers in client mode |
| `MutualLog` | the abstract specification: one growing log, a clock, partial views |
| `PeerSystem` | host, clients and network together; the properties |
| `MCPeer` | the instances for TLC |
| `PeerLossy`, `MCPeerLossy` | the same over a network that loses packets for good, with fairness; progress |
| `Packets`, `MCPackets` | `peer_pack` and `peer_unpack` in bytes |
| `Serial`, `MCSerial` | the header of a message in bytes |
| `SocketPool`, `MCSocketPool` | pools of sockets: nodes, ids and addresses, `peer_pool_*` |
| `PeerProofs` | proofs about the mutual queue and the refinement of `MutualLog` |
| `PeerSessionProofs` | proofs about sessions |
| `PeerOrderProofs` | proofs about the order of clients' messages |
| `PacketsProofs` | proofs about `peer_pack` and `peer_unpack` |
| `SerialProofs` | proofs that headers read back |
| `SocketPoolProofs` | proofs about the ids of pools |
| `SocketRoutingProofs` | proofs that ids of different pools lead to the same sockets |

Correspondence with the code:

* Indexes start at 0, as in the code. Queues that only grow at the end
  (`hostQueue`, `outbox`) are sequences; queues filled by `queue_insert`
  (`slotQueue`, a client's `queue`) are functions whose domain is the set of
  indexes with `is_ready = 1`. `queue_index`, `in_index`, `out_index`,
  `clock_heartbeat`, `state` and `remote.id` are variables of their own.
* A call of the application, the handling of one packet, and one round of a
  loop of the host's `peer_tick` are one action each. `phase` and `cursor` are
  the position in `peer_tick`; while it is not `"idle"` neither the host's other
  actions nor any client moves, so a tick is atomic as it is in the program.
  A client's tick is short and is one action.
* The id of the socket of slot j is j, a client stands for the id of its own
  socket, and the address in a session response is the slot it leads to.
  `HostResolve` and `ClientResolve` are the two halves of
  `resolve_address_and_id` that matter to a host and to a client. They happen at
  any time between other steps: `peer_pool_tick` does them first, a program that
  drives peers without the pool does them itself, as the tests do.
* An assertion that fails ends the process: with `NDEBUG = FALSE` the host
  (`HostAbort`) or the client (`TickAbort`) is down. With `NDEBUG = TRUE` the code
  after the assertion is what counts: a refused message is skipped, and a trail
  read past the end of a queue yields any message of `Garbage`, or a fault.
* The random picks of a trail are any picks (`ScatterTrails`).
* Packets stay in `toHost` and `toClient` for good and may be received at any
  time and any number of times: loss, repetition and reordering at once.

* With `AppendFails = TRUE` an allocation may fail in `queue_append` within a tick
  (`SyncLost`: `in_index` passes the message; with assertions `SyncAbort`: the host is
  down), with `PackFails = TRUE` in `queue_pack` (`SendFails`, `TickSendFails`).
  `queue_pack` then stops at any point, `out_index` stays, and `peer_tick` sends the packets that are there: none, some
  of them, or all with no trail or the serial trail alone (`PartialTrails`). The actions
  put all the packets of such a list under way, and the network, which may lose any,
  covers those that were not made. A tick that ends on an assertion in the sending loop
  sends nothing, which peers cannot tell from a host that stops after the tick before.
  Allocations that fail while a packet is received or a heartbeat is made have the
  effect of a lost packet and are left to the network.
* `Packets` runs `peer_pack` on a list of chunks and then `peer_unpack` on what was
  packed for one peer, one action per step of their loops, in a build with or
  without assertions (`ndebug`). The data of a packet is the set of chunks copied
  into it with their offsets, so that unpacking goes by offsets and written sizes as
  the code does. A chunk may be larger than a packet while its size fits in ten bits:
  with assertions that aborts (`Abort`); without them the copy runs past the packet,
  which either ends the program (`Overrun`) or goes into memory kept for more packets,
  and the packet gets a size above the limit. The receiver, of either build, refuses
  such a packet (`RefusePacket`), aborts on it (`ReceiverAbort`) or, if `recvfrom` has cut
  it (`Cut`), finds the chunk too large for it.
* `Serial` writes a header into a buffer that holds anything and reads it back. A
  byte is a digit to the base `Base`; sign and width of each field are kept.
* `SocketPool` has the nodes of each pool and, of each slot, the fields that
  `resolve_address_and_id` and `peer_input` use to route packets. Ids count from 1 and
  0 is `PEER_UNDEFINED`. A tick is one action per iteration of its four loops
  (resolve, receive, input, send); the peers of one pool run in one thread, and
  ticks in different pools can be put in a row, since a tick reads its datagrams
  before it sends any. `Moves` says whether an array that grows may leave a memory
  block that is used again at once: undefined behaviour in `find_pool_node`.

Abstractions: a message's data is a model value; in `PeerSystem`, `peer_pack` cuts a
list of chunks after `ChunksPerPacket` of them rather than by bytes; a client has one
slot (`peer_tick` uses no other); a client's `time_local` is left out, since it only
decides when its ticks stop with an overflow; a tick before `peer_connect` sends
nothing, where the pool would also assert. In `SocketPool` a client connects once, to
the host's first socket; ports are never given twice; errors of system calls are
lost datagrams or an open that fails.

## What TLC checks

Deadlock is checked in `serial_header` only: elsewhere applications may stop calling,
or the bounds on queues and on time end every behaviour.

| run | instance | properties | states |
|---|---|---|---|
| `history` | 1 client, 1 slot, 1 host message, 2 client messages of 2 kinds, 1 chunk a packet, ticks of time 0 and 1, time to 1, `queue_append` fails on assertions | `Agreement`, `TimeOrder`, `InFlight`, `ClientOrder`, `EchoCause`, `Attributed`, `ImplementsMutualLog` | 628,065 |
| `pair` | 2 clients, 2 slots, 1 message each, 2 chunks a packet, ticks of time 1, time to 3 | `TypeOK`, `SessionsRouted`, `ClientOrder`, `SessionSticky` | 991,016 |
| `release` | no assertions, ticks of time 0 without end, 1 chunk a packet, allocations fail in `queue_append` and `queue_pack`, reads past the end return a new message; 1 host message, 2 client messages of 2 kinds | `ClientSubsequence`, `ImplementsMutualLog` | 874,974 |
| `delivery` | packets are lost for good, peers are destroyed; 2 host messages | `RecentDelivered` | 62,879 |
| `packets` | up to 4 chunks of 7 sizes, 0 or 1 packets before, both builds at either end, allocations fail | `RoundTrip`, `PacketsFit`, `PackedPrefix`, `InOrder` | 659,655 |
| `serial_header` | base 12, the ends of all ranges | `ReadsBack` | 387 |
| `pool` | a host with 3 slots and a client in one pool, a client in another | `IdsValid`, `NodesDistinct`, `Routed`, `ResolvedByPreviousId` | 2 million |
| `trail_index` | 1 client, 1 message | `TrailIndexInQueue`, violated | |
| `echo` | as `history`, ticks of time 0 only, no failing allocations | `OrderKept`, violated | |
| `resend` | as `delivery`, with client messages | `ClientMessagesResent`, violated | |
| `packets_max_size` | up to 2 chunks of legal sizes, assertions | `NeverAborts`, violated | |
| `pool_moves` | as `pool`, `Moves` | `ResolvedByPreviousId`, violated | |

Bounds. `MaxQueue` bounds the messages that the host's application queues and `MaxOut`
those of each client's, at any moment; `TimeMax` bounds time, and with it the number of
ticks that take some (the overflow check of the code ends them). Three mutual messages,
one of the host and two of a client in `history` and `release`, are enough
for a hole with a message on either side and, with trail constants of 1, for all
branches of `chunks_append_trail`: an index below the serial size, one within the
scatter distance (everything is sent again) and one beyond it (one serial and
one random pick). With one chunk a packet every message can be lost by itself.
Two slots let one client take both, or two clients meet. The proofs have no such
bounds. `MCSizes` holds the smallest message, one byte more, two that fill a packet
together, the largest, the smallest that no packet has room for, and one whose size
does not fit in ten bits; four of them fill several packets. `Base` is 12 because TLC's integers have 32
bits; it is a multiple of 4, as the byte shared by size and mode needs. Three slots
of a host let both clients have one, or one client two. Clients and data are
interchangeable and are symmetry sets, except in the runs with liveness
properties, where that would be unsound.

Time. The tests of the repository tick with `time_elapsed = 0` nearly everywhere, so
both kinds of ticks are checked: `pair` has ticks that take time (`Elapsed = {1}`), where
the clock also bounds their number, `echo` and `release` ticks that take none, which go
on for ever in a finite state space, and `history` both in any mixture. In a tick of time 0
the host synchronizes messages at time 0, a client's heartbeat sends them back
(`peer.c:923`), and the host cannot tell them from new messages of the client. What
fails is stated and violated (`OrderKept`); what is left of it is stated without an
assumption on time: `ClientOrder` and `ClientSubsequence` hold for a slot as long as
no echo has been sent to it (`Unechoed`, a state predicate on the packets under way,
which keep what was ever sent), `EchoCause` says what has to happen before there can be
one, and `Attributed` what an echo cannot do. These runs have one chunk a packet, as
messages of half a packet do, so that an echo of a client's message can arrive while
those of others, on which the host would abort, are lost.

Fairness (`PeerLossy`). Applications call `peer_tick` again and again, so a tick of the
host that can start or go on does (weak fairness). A client's tick and the receipt
of a message have to wait for the end of a host's tick, which is atomic in the
program and a sequence of actions here; they are enabled again and again but not
without interruption, hence strong fairness: for a client's resolving and ticking,
and for the receipt of each message index, which says that a message sent again and
again is received in the end. Nothing says that a given packet arrives: any may be
lost (`Lose`). Peers may be destroyed, which ends all that is asked of them. Ticks
take no time there and every tick is due for a heartbeat, which keeps the state
finite while peers tick for ever.

What the violated runs show, each as a finding in `PROJECT.json`:

* `trail_index`: a client's heartbeat takes its trail from the mutual queue, at an
  index of its own queue (`peer.c:923`). A client that has sent more than it has
  received fails `assert(index >= 0 && index <= q->size)`. It also sends
  synchronized messages, with their times, back to the host, whose
  `assert(time == 0)` then fails.
* `echo`: with `time_elapsed = 0` that assertion does not see them. A client's first
  message, synchronized at index 1 after one of the host, comes back as the client's
  message 1; the client's own message 1 then finds the entry ready and is dropped. The
  first is synchronized twice and the second never.
* `resend`: for the same reason a client's message is not in the trails of its
  heartbeats; lost once, it is never sent again.
* `packets_max_size`: the assertions of `peer_pack` count the packet header twice, and
  a message of `PEER_MAX_MESSAGE_SIZE` or a full packet aborts.
* `pool_moves`: the address for a client's new remote id is copied from the array of
  nodes after the array has grown (`socket_pool.c:141`).

## What TLAPS proves

For any set of clients, any number of slots, any trail constants, any
data and any length of the queues, from the named assumptions in the modules
(the constants are numbers and sets, `NoClient` is not a client, `Garbage` is a set
of messages), in builds with and without assertions, with failing allocations and
whatever a read past the end of a queue returns:

* `PeerProofs`: `TypeCorrect`, `AgreementHolds`, `TimeOrderHolds`, `InFlightHolds` and
  `Refinement` (`Spec => ImplementsMutualLog`);
* `PeerSessionProofs`: `SessionsRoutedHolds` and `SessionStickyHolds`;
* `PeerOrderProofs`: `ClientSubsequenceHolds`, `EchoCauseHolds` and `AttributedHolds`, for
  every length of ticks; and `ClientOrderHolds`, if no allocation fails unnoticed
  (`NoneLost`: there are assertions, or allocations do not fail).

For any size of packets, of headers and of messages, any number of chunks and of
packets before, both builds and failing allocations (`SizesAssumption`: a message has
a header, and a packet has room for that; messages may be larger than a packet):

* `PacketsProofs`: `PacketsFitHolds`, `PackedPrefixHolds`, `InOrderHolds` and
  `RoundTripHolds`.

For bytes of any multiple of 4 values, all values of the fields' types and whatever
a buffer held before (`BaseAssumption`, `FieldsAssumption`, `RangesAssumption`):

* `SerialProofs`: `ReadsBackHolds`. Here the program's own bytes of 256 values are an
  instance, which TLC's integers do not allow.

For any sets of peers and pools, any number of sockets, peers that share a pool or
not, and datagrams lost, repeated and reordered (`PoolAssumption`):

* `SocketPoolProofs`: `IdsAreValid`, also when arrays move, and `NodesAreDistinct` and
  `LookupByPreviousId` when they do not (`~Moves`; the run `pool_moves` shows that the
  last needs it);
* `SocketRoutingProofs`: `RoutedHolds`, when arrays do not move.

The argument for the mutual queue. `Agreement` alone is not inductive: a client
inserts whatever a packet holds, so the packets have to be right, which is
`InFlight`. That in turn needs every index a trail or `queue_pack` picks to lie below
`queue_index` while packets are made, and the synchronized part of the queue to
be final: only entries from `queue_index` on are stamped. `Pending` says where a
tick is in this respect: outside the sync loop nothing is sent beyond
`queue_index`, and while it runs, the entries from `queue_index` on carry the
current time. The inductive invariant is

    IInv == TypeOK /\ Pending /\ TimeOrder /\ InFlight /\ Agreement

Its preservation rests on lemmas about the operators: `TrailIndexes` (a trail
stays below its index), `NewIndexesType`, `PackType` (a packet holds only chunks
it was given) and `QueueInsertEffect` (ready entries are kept, new ones come from
the packet). `Refinement` then maps each action to `Advance`, `Commit`, `Learn` or
nothing: only `TickBegin` moves the clock, only `SyncDone` commits, only a client's
input learns.

The argument for sessions. `SessionsRouted` needs that every session response
ever sent names the slot of its addressee (`ResponsesTrue`) and that a client's
address is its actor id (`AddressIsActor`); both last because the host never
takes a slot back. The inductive invariant is

    SInv == IInv /\ SessionsRouted /\ ResponsesTrue /\ AddressIsActor

`SessionSticky` follows from it: responses come from slot 0, and a client that has
moved listens to its own slot only.

The argument for the order of clients' messages. A slot's queue is filled by index and
an entry is never corrected, so that all that may still arrive matters: a chunk on its
way to a slot is a message of the slot's client under the index the client gave it,
or is refused, or is an echo (`Uplink`). Echoes come from a client's heartbeat, which
sends mutual messages under such indexes; the host refuses those that have a time or
another actor, so that one it takes has its actor and no time in the mutual queue, or
is what a read past the end of a queue returned (`EchoOf`). That is `EchoCause`. Packets
are never taken back, so that a slot without echoes has never had one; its queue then
holds its client's messages at their indexes (`SlotMatch`), and `in_index` passes them one
by one. With echoes it holds words of its client all the same (`SlotWords`), since
what is echoed was attributed to that client before:

    OInv == SInv /\ Uplink /\ SlotMatch /\ SlotWords /\ Attributed

`ClientSubsequence` is preserved along with it. `ClientOrder` needs that `in_index`
counts the client's messages in the mutual queue (`OwnCount`), which a failed
allocation breaks in a build without assertions; the run `release` has that case.

The argument for packets. `RoundTrip` speaks of the end, so the invariant says how
chunks lie in packets all the time: in each packet one after another from the
packet's header to its size, or to `offset` in the packet that is being filled
(`ClosedInv`, `OpenInv`), within the limit of a packet or alone in one (`Bounded`), earlier
chunks in earlier packets (`PacketOrder`), and together
those from the first to the one the loop is at (`PackInv`). While `peer_unpack` runs, the
next chunk is at `offset` or in a later packet, and what came out is all before it
(`UnpackInv`):

    PInv == TypeInv /\ ClosedInv /\ PacketOrder /\ PackInv /\ UnpackInv /\ InOrder

The argument for headers. An integer up to its byte k is the same up to byte k - 1 and
that byte times its weight (`NextByte`), so that the sum which `peer_read_u64` takes is
the integer modulo the weight beyond the last byte (`ReadWritten`). The sums and weights
are recursive functions over the eight places of a byte; that they exist and are
unique is shown place by place, without induction. The fields do not overlap except in
the byte of size and mode, where each keeps the other's bits (`SizeBack`). The largest
actor id that `peer_write_message` lets through, 0xffffffff (`serial.h:166`), reads back as
`PEER_UNDEFINED` and is left out of `RangesAssumption`: actors are indexes of slots.

The argument for pools. A type needs a range here, since an address is read at an
id, and the range of a new id needs the type of the array, so that both are proved
together:

    IInv == TypeOK /\ TickOK /\ SlotsOK /\ PacketsOK

`SlotsOK` and `PacketsOK` are `IdsValid` with one thing more: a slot that the host
answers on has a remote id. Arrays only grow (`Growth`) except when a pool is
destroyed, which takes the slots of its peers along, and outside a tick no packet
is in hand (`TickOK`). `NodesDistinct` needs that no node has a port beyond those
given (`DInv`). `ResolvedByPreviousId` needs that a slot whose id is to be looked up
was told a port and has its address filled in already (`SlotR`), or
`resolve_address_and_id` would overwrite the port with that of the previous id; it
has, because a client's slots are all filled in before its packets are read
(`TurnR`).

`Routed` relates the ids of two arrays to each other, and goes through what they stand
for, places and ports. A datagram that tells a port leads to a client to which the host
has given a slot with this port, and every datagram comes from a client's socket or
goes to one (`WireOK`); a packet in hand is such a datagram, by the ids of the pool
(`HandOK`). From it a client takes the port of its answer (`ClientSlots`), which the
lookup by the previous id keeps, and a host its clients (`HostSlots`). That the host
does not give a slot to one of its own sockets needs that peers in one pool share no
socket (`Apart`) and that a port tells sockets apart (`SocketNodes`). Other steps only
add nodes, slots and datagrams (`Keeps`); a pool that is destroyed takes what relied on
it along. The invariant, which TLC also checked on the instance of `pool`, is

    FInv == IInv /\ DInv /\ RInv /\ SocketNodes /\ Apart /\ HostSlots
                 /\ ClientSlots /\ WireOK /\ HandOK

Only model-checked: progress under fairness (`RecentDelivered`), which is out of reach
of the prover, as `ENABLED` is; and everything violated.

## Plan

Done: all components that keep state, and a proof of every safety property that
the runs check. What is left, in this order:

1. `SocketPool` as the network below `PeerSystem`, so that slots and ids of
   `PeerSystem` become those of the pool by a refinement mapping.
2. Proofs of the safety part of progress: an index that `RecentDelivered` speaks of
   stays in the trails until it is received.

## Not modelled

* `sockets.h` wraps system calls; `cipher.c` is a stub that no code calls; the kit
  library (arrays, allocators, `mt64`) is outside the repository.
* Pings, the connection timeout, reconnecting, relays, session tokens and the pruning
  of history are constants or entries of a list in `peer.test.c:8`; no code does
  them. A client that restarts is a new client to the host, and the slot of one
  that is gone stays taken.
* File descriptors: a `peer_pool_open` that fails closes those of nodes it never
  reached (`socket_pool.c:316`).
* The packet header fields `PEER_N_PACKET_MODE` and `_SIZE` are written and never
  read; `_SESSION` and `_INDEX` are not even written.
