---------------------------- MODULE PeerSystem ----------------------------
(***************************************************************************)
(* One host and its clients over an unreliable network.  Peers share       *)
(* nothing but packets; a client's step falls between two calls of the     *)
(* host, never inside its tick.                                            *)
(***************************************************************************)
EXTENDS PeerHost, PeerClient

vars == <<hostVars, clientVars, netVars>>

Init ==
  /\ NetInit
  /\ HostInit
  /\ ClientInit

Next ==
  \/ HostNext /\ UNCHANGED clientVars
  \/ /\ phase = "idle"
     /\ \E c \in Clients : ClientNext(c)
     /\ UNCHANGED hostVars

Spec == Init /\ [][Next]_vars

---------------------------------------------------------------------------
(* The variables have their types, and queue_index and out_index never     *)
(* pass the end of the queue they point into.                              *)
TypeOK ==
  /\ NetTypeOK
  /\ HostTypeOK
  /\ ClientTypeOK

(* "Deterministic order of those messages": whatever is lost, repeated or  *)
(* reordered, every message in a client's mutual queue is the one the host *)
(* synchronized at that index, with the same time, actor and data.         *)
Agreement ==
  \A c \in Clients : \A i \in DOMAIN queue[c] :
    i < queueIndex /\ queue[c][i] = hostQueue[i + 1]

(* The mutual queue is ordered by time, no synchronized message is newer   *)
(* than the host's time, and no client's time runs ahead of the host's.    *)
TimeOrder ==
  /\ \A k \in 1..queueIndex :
       /\ hostQueue[k].time <= hostTime
       /\ \A m \in 1..k : hostQueue[m].time <= hostQueue[k].time
  /\ \A c \in Clients : time[c] <= hostTime

(* A client speaks as the actor whose slot the host gave to it, and every  *)
(* packet to a slot comes from the client of that slot.                    *)
SessionsRouted ==
  /\ \A c \in Clients :
       /\ actor[c] # Undefined =>
            /\ remote[actor[c]] = c
            /\ state[actor[c]] = "ready"
            /\ address[c] = actor[c]
       /\ session[c] \in Slots => session[c] = actor[c]
  /\ \A p \in toHost : p.dst \in Slots => remote[p.dst] = p.src

(* Once a client has moved from slot 0 to its own slot, no late or         *)
(* repeated session response moves it or changes its actor id.             *)
SessionSticky ==
  [][\A c \in Clients : session[c] \in Slots =>
       session'[c] = session[c] /\ actor'[c] = actor[c]]_vars

(* Whatever may still arrive at a client has been synchronized: a packet   *)
(* that is delayed for long carries nothing that has changed since.        *)
InFlight ==
  \A p \in toClient : \A ch \in p.chunks :
    /\ ch.time <= hostTime
    /\ ch.kind = "application" =>
         ch.index < queueIndex /\ Payload(ch) = hostQueue[ch.index + 1]

(* Where the messages of actor j are in the mutual queue. *)
OwnPlaces(j) == {m \in 1..Len(hostQueue) : hostQueue[m].actor = j}

(* The messages of actor j enter the mutual queue in the order its client  *)
(* gave them, none twice and none before an earlier one: the n-th of them  *)
(* there is the n-th it queued.                                            *)
InOwnOrder(j) ==
  \A m \in OwnPlaces(j) :
    LET n == Cardinality({k \in OwnPlaces(j) : k <= m})
    IN  /\ remote[j] # NoClient
        /\ n <= Len(outbox[remote[j]])
        /\ hostQueue[m].data = outbox[remote[j]][n].data

(* Whatever the host may still take from a packet to slot j is a message   *)
(* of its client, under the index the client gave it.  The trail of a      *)
(* client's heartbeat is read from the mutual queue, so that it may hold   *)
(* others, and those are echoes.                                           *)
Unechoed(j) ==
  \A p \in toHost : p.dst = j =>
    \A ch \in Taken(p) :
      /\ ch.index < Len(outbox[p.src])
      /\ ch.data = outbox[p.src][ch.index + 1].data

(* Whatever is lost, repeated or reordered, the messages of a client are   *)
(* synchronized in their order unless an echo of one of them has been      *)
(* sent.                                                                   *)
ClientOrder == \A j \in Slots : Unechoed(j) => InOwnOrder(j)

(* A read past the end of a queue may return a new message of actor j. *)
Junk(j) == {g \in Garbage : NDEBUG /\ g.time = 0 /\ g.actor = j}

(* "Client's messages should not have time set": the host tells an echo by *)
(* its time, so that none is taken before a message of its actor has been  *)
(* synchronized at time 0, in a tick before the clock has moved.           *)
EchoCause ==
  \A j \in Slots :
    \/ Unechoed(j)
    \/ \E k \in 1..queueIndex : hostQueue[k].actor = j /\ hostQueue[k].time = 0
    \/ Junk(j) # {}

SaidBy(c) == {outbox[c][n].data : n \in 1..Len(outbox[c])}

(* What the client of slot j has said, or a stray read may make it say. *)
Words(j) ==
  {g.data : g \in Junk(j)} \cup UNION {SaidBy(c) : c \in Clients \cap {remote[j]}}

(* Echoes or not, no actor is given words its client did not queue. *)
Attributed ==
  \A j \in Slots : \A m \in OwnPlaces(j) : hostQueue[m].data \in Words(j)

(* The messages of the client of slot j that the host has taken. *)
TakenFrom(j) ==
  {n \in 1..inIndex[j] : remote[j] # NoClient /\ n <= Len(outbox[remote[j]])}

(* A failed send is done again, with the same messages, and a message the  *)
(* host has no memory for is passed over: still, unless an echo has been   *)
(* sent, the messages of a client that are in the mutual queue are some of *)
(* its own, in their order, each at most once.                             *)
ClientSubsequence ==
  \A j \in Slots : Unechoed(j) =>
    \E origin \in [OwnPlaces(j) -> TakenFrom(j)] :
      /\ \A m, n \in OwnPlaces(j) : m < n => origin[m] < origin[n]
      /\ \A m \in OwnPlaces(j) :
           hostQueue[m].data = outbox[remote[j]][origin[m]].data

(* The host's synchronized messages, its time and the clients' mutual      *)
(* queues are an instance of the abstract log.                             *)
Log == INSTANCE MutualLog WITH
  log  <- SubSeq(hostQueue, 1, queueIndex),
  now  <- hostTime,
  view <- queue

ImplementsMutualLog == Log!LogSpec
---------------------------------------------------------------------------
(* Stated by the code, and not so. *)

(* "Ensure deterministic order", and "Client's messages should not have    *)
(* time set": nothing but a client's own messages, in their order, becomes *)
(* synchronized as a message of it.                                        *)
OrderKept == \A j \in Slots : InOwnOrder(j)

(* assert(index >= 0 && index <= q->size): when a client is about to send  *)
(* a heartbeat, its out_index lies in the queue the trail is read from.    *)
TrailIndexInQueue ==
  \A c \in Clients, e \in Elapsed :
    clientStatus[c] = "open" /\ HeartbeatDue(c, e)
      => BeyondQueue(queue[c], sent[c]) = {}

===========================================================================
