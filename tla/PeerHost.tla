----------------------------- MODULE PeerHost -----------------------------
(***************************************************************************)
(* A peer in PEER_HOST mode (peer.c).  Slot 0 is the host's own and never  *)
(* has a remote; slots 1..NumSlots are given to clients.  local.id of slot *)
(* j is j, and so is its actor from the moment it is given to a client.    *)
(*                                                                         *)
(* peer_tick is a sequence of loops.  One action is one round of a loop,   *)
(* phase and cursor say where the tick is; no packet is received and no    *)
(* client takes a step before it is over, so a tick stays atomic.          *)
(***************************************************************************)
EXTENDS PeerNet

CONSTANTS
  NoClient,  \* remote.id = PEER_UNDEFINED
  TimeMax,   \* INT64_MAX, the largest time_local
  MaxQueue   \* bound: the messages the host's application queues

ASSUME HostAssumption ==
  NoClient \notin Clients /\ TimeMax \in Nat /\ MaxQueue \in Nat

VARIABLES
  hostStatus,  \* "up", or "down" after an abort or peer_destroy
  opened,      \* slots.size
  addressed,   \* the slots with local.address_size > 0
  hostTime,    \* time and time_local, which are equal on a host
  hostQueue,   \* queue: the mutual messages
  queueIndex,  \* queue_index: the messages before it are synchronized
  state,       \* slot -> state
  remote,      \* slot -> remote.id
  slotQueue,   \* slot -> queue: the messages received from its client
  inIndex,     \* slot -> in_index
  outIndex,    \* slot -> out_index
  slotClock,   \* slot -> clock_heartbeat
  phase,       \* the loop of peer_tick that is running
  cursor       \* the slot that loop is at

slotVars == <<state, remote, slotQueue, inIndex, outIndex, slotClock>>
hostVars == <<hostStatus, opened, addressed, hostTime, hostQueue, queueIndex,
              slotVars, phase, cursor>>

EmptyQueue == [i \in {} |-> ZeroMessage]

HostTypeOK ==
  /\ hostStatus \in {"up", "down"}
  /\ opened \in 0..(NumSlots + 1)
  /\ addressed \subseteq SlotIds
  /\ hostTime \in 0..TimeMax
  /\ hostQueue \in Seq(Message)
  /\ queueIndex \in 0..Len(hostQueue)
  /\ state \in [Slots -> {"empty", "session_request", "ready"}]
  /\ remote \in [Slots -> Clients \cup {NoClient}]
  /\ \A j \in Slots : /\ state[j] # "empty" => remote[j] # NoClient
                      /\ DOMAIN slotQueue[j] \subseteq Nat
                      /\ \A i \in DOMAIN slotQueue[j] :
                           slotQueue[j][i] \in Message
  /\ DOMAIN slotQueue = Slots
  /\ inIndex \in [Slots -> Nat]
  /\ outIndex \in [Slots -> Nat]
  /\ \A j \in Slots : outIndex[j] <= Len(hostQueue)
  /\ slotClock \in [Slots -> Int]
  /\ phase \in {"idle", "sync", "send"}
  /\ cursor \in 1..(NumSlots + 1)

(* peer_init *)
HostInit ==
  /\ hostStatus = "up"
  /\ opened = 0
  /\ addressed = {}
  /\ hostTime = 0
  /\ hostQueue = <<>>
  /\ queueIndex = 0
  /\ state = [j \in Slots |-> "empty"]
  /\ remote = [j \in Slots |-> NoClient]
  /\ slotQueue = [j \in Slots |-> EmptyQueue]
  /\ inIndex = [j \in Slots |-> 0]
  /\ outIndex = [j \in Slots |-> 0]
  /\ slotClock = [j \in Slots |-> 0]
  /\ phase = "idle"
  /\ cursor = 1

HostIdle == hostStatus = "up" /\ phase = "idle"

---------------------------------------------------------------------------
(* The calls of the application. *)

(* peer_open with n ids *)
HostOpen(n) ==
  /\ HostIdle
  /\ opened + n <= NumSlots + 1
  /\ opened' = opened + n
  /\ UNCHANGED <<hostStatus, addressed, hostTime, hostQueue, queueIndex,
                 slotVars, phase, cursor, netVars>>

(* The local half of resolve_address_and_id *)
HostResolve ==
  /\ HostIdle
  /\ addressed' = 0..(opened - 1)
  /\ UNCHANGED <<hostStatus, opened, hostTime, hostQueue, queueIndex,
                 slotVars, phase, cursor, netVars>>

(* peer_queue: the time is set by the next tick *)
HostQueue(d) ==
  /\ HostIdle
  /\ Cardinality({i \in DOMAIN hostQueue : hostQueue[i].actor = 0}) < MaxQueue
  /\ hostQueue' = Append(hostQueue, [time |-> 0, actor |-> 0, data |-> d])
  /\ UNCHANGED <<hostStatus, opened, addressed, hostTime, queueIndex,
                 slotVars, phase, cursor, netVars>>

HostDestroy ==
  /\ HostIdle
  /\ Stops
  /\ hostStatus' = "down"
  /\ UNCHANGED <<opened, addressed, hostTime, hostQueue, queueIndex,
                 slotVars, phase, cursor, netVars>>

---------------------------------------------------------------------------
(* peer_input, one packet *)

Matched(p) == p.dst \in Slots /\ remote[p.dst] = p.src

(* A mutant: nothing a client sends is refused. *)
RejectedNever(j, ch) == FALSE

(* A message with a time, with the id of another actor, or a service       *)
(* message other than a heartbeat.                                         *)
Rejected(j, ch) ==
  \/ ch.time # 0
  \/ ch.actor # j
  \/ ch.kind = "session_response"

RejectedChunks(j, chunks) == {ch \in chunks : Rejected(j, ch)}

(* What the host takes from a packet for new messages of its sender. *)
Taken(p) == ApplicationChunks(p.chunks) \ RejectedChunks(p.dst, p.chunks)

(* Rejected messages are skipped in a build without assertions. *)
HostReceive(p) ==
  /\ HostIdle
  /\ p.dst < opened
  /\ Matched(p)
  /\ NDEBUG \/ RejectedChunks(p.dst, p.chunks) = {}
  /\ slotQueue' =
       [slotQueue EXCEPT ![p.dst] = QueueInsert(@, Taken(p))]
  /\ UNCHANGED <<hostStatus, opened, addressed, hostTime, hostQueue,
                 queueIndex, state, remote, inIndex, outIndex, slotClock,
                 phase, cursor, netVars>>

(* assert(time == 0), assert(actor == slot->actor) *)
HostAbort(p) ==
  /\ HostIdle
  /\ p.dst < opened
  /\ Matched(p)
  /\ ~NDEBUG
  /\ RejectedChunks(p.dst, p.chunks) # {}
  /\ hostStatus' = "down"
  /\ UNCHANGED <<opened, addressed, hostTime, hostQueue, queueIndex,
                 slotVars, phase, cursor, netVars>>

(* A mutant: a slot that has a client is taken for free. *)
FreeOrTaken(j) == j < opened /\ j \in addressed

Free(j) == j < opened /\ remote[j] = NoClient /\ j \in addressed

(* The first free slot is given to the sender of a packet that no slot     *)
(* expects; what the packet says is not looked at.                         *)
HostAssign(p, j) ==
  /\ HostIdle
  /\ p.dst < opened
  /\ ~Matched(p)
  /\ Free(j)
  /\ \A k \in Slots : Free(k) => j <= k
  /\ state' = [state EXCEPT ![j] = "session_request"]
  /\ remote' = [remote EXCEPT ![j] = p.src]
  /\ UNCHANGED <<hostStatus, opened, addressed, hostTime, hostQueue,
                 queueIndex, slotQueue, inIndex, outIndex, slotClock, phase,
                 cursor, netVars>>

---------------------------------------------------------------------------
(* peer_tick: the clocks and the messages the host queued itself *)

(* Mutants: no message is stamped, or the first new one is not.         *)
StampedNever(t) == hostQueue

StampedLate(t) ==
  [k \in 1..Len(hostQueue) |->
     IF k > queueIndex + 1 THEN [hostQueue[k] EXCEPT !.time = t]
                           ELSE hostQueue[k]]

(* Messages queued since the last tick get the time of this one. *)
Stamped(t) ==
  [k \in 1..Len(hostQueue) |->
     IF k > queueIndex THEN [hostQueue[k] EXCEPT !.time = t]
                       ELSE hostQueue[k]]

(* A mutant: the overflow of the clock is not looked for. *)
InTimeAlways(e) == TRUE

(* Otherwise peer_tick ends with PEER_ERROR_TIME_OVERFLOW. *)
InTime(e) == hostTime <= TimeMax - e

TickBegin(e) ==
  /\ HostIdle
  /\ InTime(e)
  /\ hostTime' = hostTime + e
  /\ slotClock' = [j \in Slots |-> CountDown(slotClock[j], e)]
  /\ hostQueue' = Stamped(hostTime')
  /\ phase' = "sync"
  /\ cursor' = 1
  /\ UNCHANGED <<hostStatus, opened, addressed, queueIndex, state, remote,
                 slotQueue, inIndex, outIndex, netVars>>

(* peer_tick: the messages of the clients, slot after slot *)

Ready(j) == inIndex[j] \in DOMAIN slotQueue[j]

(* A mutant: in_index stays where it is. *)
SyncMessageAgain ==
  /\ phase = "sync"
  /\ cursor < opened
  /\ Ready(cursor)
  /\ hostQueue' = Append(hostQueue,
                         [time  |-> hostTime,
                          actor |-> cursor,
                          data  |-> slotQueue[cursor][inIndex[cursor]].data])
  /\ UNCHANGED <<hostStatus, opened, addressed, hostTime, queueIndex, slotVars,
                 phase, cursor, netVars>>

SyncMessage ==
  /\ phase = "sync"
  /\ cursor < opened
  /\ Ready(cursor)
  /\ hostQueue' = Append(hostQueue,
                         [time  |-> hostTime,
                          actor |-> cursor,
                          data  |-> slotQueue[cursor][inIndex[cursor]].data])
  /\ inIndex' = [inIndex EXCEPT ![cursor] = @ + 1]
  /\ UNCHANGED <<hostStatus, opened, addressed, hostTime, queueIndex, state,
                 remote, slotQueue, outIndex, slotClock, phase, cursor,
                 netVars>>

(* queue_append fails, the assertion on its status is not compiled in, and *)
(* the loop goes on to the next message.                                   *)
SyncLost ==
  /\ phase = "sync"
  /\ cursor < opened
  /\ Ready(cursor)
  /\ AppendFails /\ NDEBUG
  /\ inIndex' = [inIndex EXCEPT ![cursor] = @ + 1]
  /\ UNCHANGED <<hostStatus, opened, addressed, hostTime, hostQueue, queueIndex,
                 state, remote, slotQueue, outIndex, slotClock, phase, cursor,
                 netVars>>

(* queue_append fails, and so does the assertion on its status: no packet  *)
(* of this tick leaves the process.                                        *)
SyncAbort ==
  /\ phase = "sync"
  /\ cursor < opened
  /\ Ready(cursor)
  /\ AppendFails /\ ~NDEBUG
  /\ hostStatus' = "down"
  /\ phase' = "idle"
  /\ cursor' = 1
  /\ UNCHANGED <<opened, addressed, hostTime, hostQueue, queueIndex, slotVars,
                 netVars>>

SyncNextSlot ==
  /\ phase = "sync"
  /\ cursor < opened
  /\ ~Ready(cursor)
  /\ cursor' = cursor + 1
  /\ UNCHANGED <<hostStatus, opened, addressed, hostTime, hostQueue,
                 queueIndex, slotVars, phase, netVars>>

(* A mutant: queue_index is not moved. *)
SyncDoneStale ==
  /\ phase = "sync"
  /\ cursor >= opened
  /\ phase' = "send"
  /\ cursor' = 1
  /\ UNCHANGED <<hostStatus, opened, addressed, hostTime, hostQueue,
                 queueIndex, slotVars, netVars>>

SyncDone ==
  /\ phase = "sync"
  /\ cursor >= opened
  /\ queueIndex' = Len(hostQueue)
  /\ phase' = "send"
  /\ cursor' = 1
  /\ UNCHANGED <<hostStatus, opened, addressed, hostTime, hostQueue,
                 slotVars, netVars>>

---------------------------------------------------------------------------
(* peer_tick: what is sent to the client of a slot *)

HostEntries == [i \in 0..(Len(hostQueue) - 1) |-> hostQueue[i + 1]]

Sending ==
  /\ phase = "send"
  /\ cursor < opened
  /\ cursor' = cursor + 1

SendTo(src, chunks) ==
  /\ toClient' = toClient \cup Pack(src, remote[cursor], chunks)
  /\ slotClock' = [slotClock EXCEPT ![cursor] = Timeout]

SendResponse ==
  /\ Sending
  /\ state[cursor] = "session_request"
  /\ SendTo(0, <<SessionResponse(hostTime, cursor, cursor)>>)
  /\ state' = [state EXCEPT ![cursor] = "ready"]
  /\ UNCHANGED <<hostStatus, opened, addressed, hostTime, hostQueue,
                 queueIndex, remote, slotQueue, inIndex, outIndex, phase,
                 toHost>>

HasNews(j) == outIndex[j] < Len(hostQueue)

(* queue_pack: the new messages and a trail of old ones *)
SendMessages ==
  /\ Sending
  /\ state[cursor] = "ready"
  /\ HasNews(cursor)
  /\ \E trail \in Trails(outIndex[cursor]) :
       SendTo(cursor,
              ChunksOf(NewIndexes(outIndex[cursor], Len(hostQueue)) \o trail,
                       HostEntries))
  /\ outIndex' = [outIndex EXCEPT ![cursor] = Len(hostQueue)]
  /\ UNCHANGED <<hostStatus, opened, addressed, hostTime, hostQueue,
                 queueIndex, state, remote, slotQueue, inIndex, phase,
                 toHost>>

(* queue_pack fails, out_index stays, and what packets it has made are     *)
(* sent: none, some of them, or all with a trail that is not complete.     *)
(* What is not made need not be told from what the network loses.          *)
SendFails ==
  /\ Sending
  /\ state[cursor] = "ready"
  /\ HasNews(cursor)
  /\ PackFails
  /\ \E trail \in PartialTrails(outIndex[cursor]) :
       SendTo(cursor,
              ChunksOf(NewIndexes(outIndex[cursor], Len(hostQueue)) \o trail,
                       HostEntries))
  /\ UNCHANGED <<hostStatus, opened, addressed, hostTime, hostQueue,
                 queueIndex, state, remote, slotQueue, inIndex, outIndex,
                 phase, toHost>>

(* A mutant: a heartbeat without a trail. *)
SendHeartbeatBare ==
  /\ Sending
  /\ state[cursor] = "ready"
  /\ ~HasNews(cursor)
  /\ slotClock[cursor] <= 0
  /\ SendTo(cursor, <<Heartbeat(hostTime, 0)>>)
  /\ UNCHANGED <<hostStatus, opened, addressed, hostTime, hostQueue,
                 queueIndex, state, remote, slotQueue, inIndex, outIndex,
                 phase, toHost>>

SendHeartbeat ==
  /\ Sending
  /\ state[cursor] = "ready"
  /\ ~HasNews(cursor)
  /\ slotClock[cursor] <= 0
  /\ \E trail \in Trails(outIndex[cursor]) :
       SendTo(cursor,
              <<Heartbeat(hostTime, 0)>> \o ChunksOf(trail, HostEntries))
  /\ UNCHANGED <<hostStatus, opened, addressed, hostTime, hostQueue,
                 queueIndex, state, remote, slotQueue, inIndex, outIndex,
                 phase, toHost>>

SendNothing ==
  /\ Sending
  /\ \/ state[cursor] = "empty"
     \/ state[cursor] = "ready" /\ ~HasNews(cursor) /\ slotClock[cursor] > 0
  /\ UNCHANGED <<hostStatus, opened, addressed, hostTime, hostQueue,
                 queueIndex, slotVars, phase, netVars>>

TickEnd ==
  /\ phase = "send"
  /\ cursor >= opened
  /\ phase' = "idle"
  /\ cursor' = 1
  /\ UNCHANGED <<hostStatus, opened, addressed, hostTime, hostQueue,
                 queueIndex, slotVars, netVars>>

Tick ==
  \/ \E e \in Elapsed : TickBegin(e)
  \/ SyncMessage
  \/ SyncLost
  \/ SyncAbort
  \/ SyncNextSlot
  \/ SyncDone
  \/ SendResponse
  \/ SendMessages
  \/ SendFails
  \/ SendHeartbeat
  \/ SendNothing
  \/ TickEnd

HostNext ==
  \/ \E n \in 1..(NumSlots + 1) : HostOpen(n)
  \/ HostResolve
  \/ \E d \in Data : HostQueue(d)
  \/ HostDestroy
  \/ \E p \in toHost :
       \/ HostReceive(p)
       \/ HostAbort(p)
       \/ \E j \in Slots : HostAssign(p, j)
  \/ Tick

===========================================================================
