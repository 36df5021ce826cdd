---------------------------- MODULE PeerClient ----------------------------
(***************************************************************************)
(* Peers in PEER_CLIENT mode (peer.c), each with the one slot that         *)
(* peer_tick uses.  A client first talks to slot 0 of the host.  The       *)
(* session response names the slot it has been given; the driver of the    *)
(* sockets then turns that address into the new remote.id.                 *)
(*                                                                         *)
(* Left out: a client's time_local, which only decides when its ticks end  *)
(* with PEER_ERROR_TIME_OVERFLOW and have no other effect.                 *)
(***************************************************************************)
EXTENDS PeerNet

CONSTANTS
  Garbage,  \* messages a read past the end of a queue may return
  MaxOut    \* bound: how many messages the application gives a client

ASSUME ClientAssumption == Garbage \subseteq Message /\ MaxOut \in Nat

VARIABLES
  clientStatus,  \* "init", "open", or "down" after an abort or peer_destroy
  session,       \* slots[0].remote.id
  resolved,      \* slots[0].remote.is_id_resolved
  address,       \* slots[0].remote.address_data, once a response has come
  actor,         \* actor
  outbox,        \* slots[0].queue: the client's own messages
  sent,          \* slots[0].out_index
  clientClock,   \* slots[0].clock_heartbeat
  queue,         \* queue: the mutual messages received from the host
  time           \* time: the newest time received from the host

clientVars == <<clientStatus, session, resolved, address, actor, outbox,
                sent, clientClock, queue, time>>

ClientTypeOK ==
  /\ clientStatus \in [Clients -> {"init", "open", "down"}]
  /\ session \in [Clients -> SlotIds \cup {Undefined}]
  /\ resolved \in [Clients -> BOOLEAN]
  /\ address \in [Clients -> Slots \cup {Undefined}]
  /\ actor \in [Clients -> Slots \cup {Undefined}]
  /\ outbox \in [Clients -> Seq(Message)]
  /\ sent \in [Clients -> Nat]
  /\ \A c \in Clients : sent[c] <= Len(outbox[c])
  /\ clientClock \in [Clients -> Int]
  /\ DOMAIN queue = Clients
  /\ \A c \in Clients : /\ DOMAIN queue[c] \subseteq Nat
                        /\ \A i \in DOMAIN queue[c] : queue[c][i] \in Message
  /\ time \in [Clients -> Nat]

(* peer_init *)
ClientInit ==
  /\ clientStatus = [c \in Clients |-> "init"]
  /\ session = [c \in Clients |-> Undefined]
  /\ resolved = [c \in Clients |-> FALSE]
  /\ address = [c \in Clients |-> Undefined]
  /\ actor = [c \in Clients |-> Undefined]
  /\ outbox = [c \in Clients |-> <<>>]
  /\ sent = [c \in Clients |-> 0]
  /\ clientClock = [c \in Clients |-> 0]
  /\ queue = [c \in Clients |-> [i \in {} |-> ZeroMessage]]
  /\ time = [c \in Clients |-> 0]

---------------------------------------------------------------------------
(* The calls of the application. *)

(* peer_open with one id *)
ClientOpen(c) ==
  /\ clientStatus[c] = "init"
  /\ clientStatus' = [clientStatus EXCEPT ![c] = "open"]
  /\ UNCHANGED <<session, resolved, address, actor, outbox, sent, clientClock,
                 queue, time, netVars>>

(* peer_connect to slot 0 of the host *)
ClientConnect(c) ==
  /\ clientStatus[c] = "open"
  /\ session[c] = Undefined
  /\ session' = [session EXCEPT ![c] = 0]
  /\ resolved' = [resolved EXCEPT ![c] = TRUE]
  /\ address' = [address EXCEPT ![c] = Undefined]
  /\ UNCHANGED <<clientStatus, actor, outbox, sent, clientClock, queue, time,
                 netVars>>

(* peer_queue *)
ClientQueue(c, d) ==
  /\ clientStatus[c] = "open"
  /\ Len(outbox[c]) < MaxOut
  /\ outbox' = [outbox EXCEPT ![c] =
                  Append(@, [time |-> 0, actor |-> actor[c], data |-> d])]
  /\ UNCHANGED <<clientStatus, session, resolved, address, actor, sent,
                 clientClock, queue, time, netVars>>

ClientDestroy(c) ==
  /\ clientStatus[c] = "open"
  /\ Stops
  /\ clientStatus' = [clientStatus EXCEPT ![c] = "down"]
  /\ UNCHANGED <<session, resolved, address, actor, outbox, sent, clientClock,
                 queue, time, netVars>>

(* resolve_address_and_id: the remote id by the port of the response *)
ClientResolve(c) ==
  /\ clientStatus[c] = "open"
  /\ ~resolved[c]
  /\ address[c] # Undefined
  /\ session[c] # Undefined
  /\ session' = [session EXCEPT ![c] = address[c]]
  /\ resolved' = [resolved EXCEPT ![c] = TRUE]
  /\ UNCHANGED <<clientStatus, address, actor, outbox, sent, clientClock,
                 queue, time, netVars>>

---------------------------------------------------------------------------
(* peer_input, one packet *)

(* A mutant: the source of a packet is not compared. *)
ExpectedFromAny(c, p) == p.dst = c

Expected(c, p) == p.dst = c /\ p.src = session[c]

Responses(p) == {ch \in p.chunks : ch.kind = "session_response"}

Times(p) == {ch.time : ch \in p.chunks}

(* "Synchronize mutual time": the newest of the time known and the times   *)
(* received.                                                               *)
Newest(t, old, times) ==
  /\ t \in times \cup {old}
  /\ \A u \in times \cup {old} : u <= t

ClientInput(c, p) ==
  /\ clientStatus[c] = "open"
  /\ Expected(c, p)
  /\ queue' = [queue EXCEPT ![c] = QueueInsert(@, ApplicationChunks(p.chunks))]
  /\ \E t \in Times(p) \cup {time[c]} :
       /\ Newest(t, time[c], Times(p))
       /\ time' = [time EXCEPT ![c] = t]
  /\ UNCHANGED <<clientStatus, session, sent, clientClock, netVars>>

ClientReceive(c, p) ==
  /\ ClientInput(c, p)
  /\ Responses(p) = {}
  /\ UNCHANGED <<resolved, address, actor, outbox>>

(* The actor id of a session response goes to the old messages too. *)
WithActor(q, a) == [k \in 1..Len(q) |-> [q[k] EXCEPT !.actor = a]]

ClientResponse(c, p) ==
  /\ ClientInput(c, p)
  /\ \E ch \in Responses(p) :
       /\ actor' = [actor EXCEPT ![c] = ch.actor]
       /\ address' = [address EXCEPT ![c] = ch.address]
       /\ resolved' = [resolved EXCEPT ![c] = FALSE]
       /\ outbox' = [outbox EXCEPT ![c] = WithActor(@, ch.actor)]

---------------------------------------------------------------------------
(* peer_tick *)

(* Packets to remote.id = PEER_UNDEFINED go nowhere: the pool refuses them *)
(* (its assertion on a tick before peer_connect is not modelled).          *)
ClientSend(c, chunks) ==
  toHost' = IF session[c] = Undefined
            THEN toHost
            ELSE toHost \cup Pack(c, session[c], chunks)

OutEntries(c) == [i \in 0..(Len(outbox[c]) - 1) |-> outbox[c][i + 1]]

(* queue_pack of the client's own messages; the clock is not set *)
TickSend(c, e) ==
  /\ clientStatus[c] = "open"
  /\ sent[c] < Len(outbox[c])
  /\ \E trail \in Trails(sent[c]) :
       ClientSend(c, ChunksOf(NewIndexes(sent[c], Len(outbox[c])) \o trail,
                              OutEntries(c)))
  /\ sent' = [sent EXCEPT ![c] = Len(outbox[c])]
  /\ clientClock' = [clientClock EXCEPT ![c] = CountDown(@, e)]
  /\ UNCHANGED <<clientStatus, session, resolved, address, actor, outbox,
                 queue, time, toClient>>

(* queue_pack fails: what it has made is sent, out_index stays. *)
TickSendFails(c, e) ==
  /\ clientStatus[c] = "open"
  /\ sent[c] < Len(outbox[c])
  /\ PackFails
  /\ \E trail \in PartialTrails(sent[c]) :
       ClientSend(c, ChunksOf(NewIndexes(sent[c], Len(outbox[c])) \o trail,
                              OutEntries(c)))
  /\ clientClock' = [clientClock EXCEPT ![c] = CountDown(@, e)]
  /\ UNCHANGED <<clientStatus, session, resolved, address, actor, outbox, sent,
                 queue, time, toClient>>

HeartbeatDue(c, e) ==
  sent[c] = Len(outbox[c]) /\ CountDown(clientClock[c], e) <= 0

(* The trail of a heartbeat is read from the mutual queue, at indexes of   *)
(* the client's own queue.                                                 *)
TrailEntries(c, junk) ==
  [i \in 0..(sent[c] - 1) |->
     CASE i \in DOMAIN queue[c] -> queue[c][i]
       [] i \in DOMAIN junk     -> junk[i]
       [] OTHER                 -> ZeroMessage]

TickHeartbeat(c, e) ==
  /\ clientStatus[c] = "open"
  /\ HeartbeatDue(c, e)
  /\ NDEBUG \/ BeyondQueue(queue[c], sent[c]) = {}
  /\ \E trail \in Trails(sent[c]),
        junk \in [BeyondQueue(queue[c], sent[c]) -> Garbage] :
       ClientSend(c, <<Heartbeat(0, actor[c])>>
                       \o ChunksOf(trail, TrailEntries(c, junk)))
  /\ clientClock' = [clientClock EXCEPT ![c] = Timeout]
  /\ UNCHANGED <<clientStatus, session, resolved, address, actor, outbox,
                 sent, queue, time, toClient>>

(* assert(index >= 0 && index <= q->size), or the fault of the read that   *)
(* follows it.                                                             *)
TickAbort(c, e) ==
  /\ clientStatus[c] = "open"
  /\ HeartbeatDue(c, e)
  /\ BeyondQueue(queue[c], sent[c]) # {}
  /\ clientStatus' = [clientStatus EXCEPT ![c] = "down"]
  /\ UNCHANGED <<session, resolved, address, actor, outbox, sent, clientClock,
                 queue, time, netVars>>

TickQuiet(c, e) ==
  /\ clientStatus[c] = "open"
  /\ sent[c] = Len(outbox[c])
  /\ CountDown(clientClock[c], e) > 0
  /\ clientClock' = [clientClock EXCEPT ![c] = CountDown(@, e)]
  /\ UNCHANGED <<clientStatus, session, resolved, address, actor, outbox,
                 sent, queue, time, netVars>>

ClientTick(c, e) ==
  \/ TickSend(c, e)
  \/ TickSendFails(c, e)
  \/ TickHeartbeat(c, e)
  \/ TickAbort(c, e)
  \/ TickQuiet(c, e)

ClientNext(c) ==
  \/ ClientOpen(c)
  \/ ClientConnect(c)
  \/ \E d \in Data : ClientQueue(c, d)
  \/ ClientDestroy(c)
  \/ ClientResolve(c)
  \/ \E p \in toClient : ClientReceive(c, p) \/ ClientResponse(c, p)
  \/ \E e \in Elapsed : ClientTick(c, e)

===========================================================================
