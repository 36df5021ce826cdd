-------------------------- MODULE PeerOrderProofs --------------------------
(***************************************************************************)
(* What becomes of a client's messages, for every time_elapsed and every   *)
(* result of a read past the end of a queue.  The trail of a client's      *)
(* heartbeat carries messages of the mutual queue under indexes of the     *)
(* client's own.  Those the host takes are echoes of what the client said  *)
(* before, and as long as there is none its messages are synchronized in   *)
(* the order they were queued, each at most once.                          *)
(***************************************************************************)
EXTENDS PeerSessionProofs, FiniteSetTheorems

(* A message of actor j that bears no time in the mutual queue, or that a  *)
(* stray read returns: what the host does not tell from a new one.         *)
EchoOf(j, ch) ==
  \/ \E k \in 1..queueIndex : /\ hostQueue[k].actor = j
                              /\ hostQueue[k].time = 0
                              /\ hostQueue[k].data = ch.data
  \/ \E g \in Junk(j) : g.data = ch.data

(* What client c may send to slot j: a message under an index it has used, *)
(* that is refused, or its own, or an echo.                                *)
UpChunk(c, j) ==
  {ch \in Chunk : ch.kind = "application" =>
     /\ ch.index < Len(outbox[c])
     /\ \/ Rejected(j, ch)
        \/ ch.data = outbox[c][ch.index + 1].data
        \/ EchoOf(j, ch)}

Uplink ==
  \A p \in toHost : p.dst \in Slots => p.chunks \subseteq UpChunk(p.src, p.dst)

(* Without echoes, the messages received in a slot are those its client    *)
(* queued, at their indexes.                                               *)
Match(j) ==
  \A i \in DOMAIN slotQueue[j] :
    /\ remote[j] # NoClient
    /\ i < Len(outbox[remote[j]])
    /\ slotQueue[j][i].data = outbox[remote[j]][i + 1].data

SlotMatch == \A j \in Slots : Unechoed(j) => Match(j)

(* With them, they are still words of the client. *)
SlotWords ==
  \A j \in Slots : \A i \in DOMAIN slotQueue[j] : slotQueue[j][i].data \in Words(j)

OInv ==
  /\ SInv
  /\ Uplink
  /\ SlotMatch
  /\ SlotWords
  /\ Attributed

---------------------------------------------------------------------------
(* What the clients have queued *)

(* A session response gives the client's messages an actor and nothing     *)
(* else, so their data stay where they are.                                *)
LEMMA OutboxGrows ==
  ASSUME ClientTypeOK, NEW c \in Clients, ClientNext(c), NEW b \in Clients
  PROVE  /\ Len(outbox[b]) \in Nat
         /\ Len(outbox'[b]) \in Nat
         /\ Len(outbox[b]) <= Len(outbox'[b])
         /\ \A n \in 1..Len(outbox[b]) : outbox'[b][n].data = outbox[b][n].data
<1>0. outbox[b] \in Seq(Message) /\ outbox[c] \in Seq(Message)
      /\ outbox \in [Clients -> Seq(Message)]
  BY DEF ClientTypeOK
<1>1. CASE outbox' = outbox
  BY <1>0, <1>1
<1>2. ASSUME NEW d \in Data, ClientQueue(c, d)
      PROVE  /\ Len(outbox'[b]) \in Nat
             /\ Len(outbox[b]) <= Len(outbox'[b])
             /\ \A n \in 1..Len(outbox[b]) :
                  outbox'[b][n].data = outbox[b][n].data
  <2>. DEFINE m == [time |-> 0, actor |-> actor[c], data |-> d]
  <2>1. m \in Message
    BY DEF ClientTypeOK, Message, Slots, Undefined
  <2>2. outbox' = [outbox EXCEPT ![c] = Append(outbox[c], m)]
    BY <1>2 DEF ClientQueue
  <2>. HIDE DEF m
  <2>3. CASE b = c
    <3>1. outbox'[b] = Append(outbox[b], m)
      BY <1>0, <2>2, <2>3
    <3>. QED
      BY <1>0, <2>1, <3>1
  <2>4. CASE b # c
    BY <1>0, <2>2, <2>4
  <2>. QED
    BY <2>3, <2>4
<1>3. ASSUME NEW a, outbox' = [outbox EXCEPT ![c] = WithActor(outbox[c], a)]
      PROVE  /\ Len(outbox'[b]) \in Nat
             /\ Len(outbox[b]) <= Len(outbox'[b])
             /\ \A n \in 1..Len(outbox[b]) :
                  outbox'[b][n].data = outbox[b][n].data
  <2>1. CASE b = c
    <3>1. outbox'[b] = WithActor(outbox[b], a)
      BY <1>0, <1>3, <2>1
    <3>2. Len(WithActor(outbox[b], a)) = Len(outbox[b])
      BY <1>0 DEF WithActor
    <3>3. ASSUME NEW n \in 1..Len(outbox[b])
          PROVE  WithActor(outbox[b], a)[n].data = outbox[b][n].data
      <4>1. WithActor(outbox[b], a)[n] = [outbox[b][n] EXCEPT !.actor = a]
        BY <1>0 DEF WithActor
      <4>2. outbox[b][n] \in Message
        BY <1>0
      <4>. QED
        BY <4>1, <4>2 DEF Message
    <3>. QED
      BY <1>0, <3>1, <3>2, <3>3
  <2>2. CASE b # c
    BY <1>0, <1>3, <2>2
  <2>. QED
    BY <2>1, <2>2
<1>4. \/ outbox' = outbox
      \/ \E d \in Data : ClientQueue(c, d)
      \/ \E a : outbox' = [outbox EXCEPT ![c] = WithActor(outbox[c], a)]
  BY DEF ClientNext, ClientOpen, ClientConnect, ClientDestroy, ClientResolve,
         ClientReceive, ClientResponse, ClientTick, TickSend, TickSendFails,
         TickHeartbeat, TickAbort, TickQuiet
<1>. QED
  BY <1>0, <1>1, <1>2, <1>3, <1>4

(* The client's queues keep their messages. *)
OutboxKept ==
  \A b \in Clients :
    /\ Len(outbox[b]) \in Nat
    /\ Len(outbox'[b]) \in Nat
    /\ Len(outbox[b]) <= Len(outbox'[b])
    /\ \A n \in 1..Len(outbox[b]) : outbox'[b][n].data = outbox[b][n].data

LEMMA OutboxKeptStep ==
  ASSUME SInv, [Next]_vars
  PROVE  OutboxKept
<1>1. ClientTypeOK
  BY DEF SInv, IInv, TypeOK
<1>2. CASE outbox' = outbox
  BY <1>1, <1>2 DEF OutboxKept, ClientTypeOK
<1>3. ASSUME NEW c \in Clients, ClientNext(c)
      PROVE  OutboxKept
  BY <1>1, <1>3, OutboxGrows DEF OutboxKept
<1>4. outbox' = outbox \/ \E c \in Clients : ClientNext(c)
  BY DEF Next, vars, clientVars
<1>. QED
  BY <1>2, <1>3, <1>4

LEMMA RemoteKeptStep ==
  ASSUME SInv, [Next]_vars, NEW j \in Slots, remote[j] # NoClient
  PROVE  remote'[j] = remote[j]
<1>1. CASE HostNext
  BY <1>1, SlotsKeepClients DEF SInv, IInv, TypeOK
<1>2. CASE remote' = remote
  BY <1>2
<1>. QED
  BY <1>1, <1>2 DEF Next, vars, hostVars, slotVars

(* Nothing that was said is taken back. *)
LEMMA WordsKept ==
  ASSUME SInv, [Next]_vars, NEW j \in Slots
  PROVE  Words(j) \subseteq Words(j)'
<1>1. OutboxKept
  BY OutboxKeptStep
<1>2. ASSUME NEW c \in Clients, NEW d \in SaidBy(c)
      PROVE  d \in SaidBy(c)'
  <2>1. PICK n \in 1..Len(outbox[c]) : d = outbox[c][n].data
    BY <1>2 DEF SaidBy
  <2>2. n \in 1..Len(outbox'[c]) /\ d = outbox'[c][n].data
    BY <1>1, <2>1 DEF OutboxKept
  <2>. QED
    BY <2>2 DEF SaidBy
<1>3. ASSUME NEW c \in Clients, remote[j] = c
      PROVE  remote'[j] = c
  BY <1>3, HostAssumption, RemoteKeptStep
<1>4. Junk(j)' = Junk(j)
  BY DEF Junk
<1>. QED
  BY <1>2, <1>3, <1>4 DEF Words

LEMMA MutualKeptStep ==
  ASSUME SInv, [Next]_vars
  PROVE  /\ queueIndex \in Nat /\ queueIndex' \in Nat
         /\ queueIndex <= queueIndex'
         /\ \A k \in 1..queueIndex : hostQueue'[k] = hostQueue[k]
<1>1. HostTypeOK /\ HostTypeOK' /\ Pending
  BY SInvStep DEF SInv, IInv, TypeOK
<1>2. queueIndex \in Nat /\ queueIndex' \in Nat
  BY <1>1 DEF HostTypeOK
<1>3. CASE HostNext
  BY <1>1, <1>2, <1>3, HostLogStep
<1>4. CASE UNCHANGED <<queueIndex, hostQueue>>
  BY <1>2, <1>4
<1>. QED
  BY <1>2, <1>3, <1>4 DEF Next, vars, hostVars

LEMMA UpChunkKept ==
  ASSUME SInv, [Next]_vars, NEW c \in Clients, NEW j \in Slots
  PROVE  UpChunk(c, j) \subseteq UpChunk(c, j)'
<1>1. OutboxKept
  BY OutboxKeptStep
<1>2. /\ queueIndex \in Nat /\ queueIndex' \in Nat
      /\ queueIndex <= queueIndex'
      /\ \A k \in 1..queueIndex : hostQueue'[k] = hostQueue[k]
  BY MutualKeptStep
<1>3. SUFFICES ASSUME NEW ch \in UpChunk(c, j) PROVE ch \in UpChunk(c, j)'
  OBVIOUS
<1>4. /\ ch \in Chunk
      /\ ch.kind = "application" =>
           /\ ch.index < Len(outbox[c])
           /\ \/ Rejected(j, ch)
              \/ ch.data = outbox[c][ch.index + 1].data
              \/ EchoOf(j, ch)
  BY <1>3 DEF UpChunk
<1>5. ASSUME ch.kind = "application"
      PROVE  /\ ch.index < Len(outbox'[c])
             /\ \/ Rejected(j, ch)
                \/ ch.data = outbox'[c][ch.index + 1].data
                \/ EchoOf(j, ch)'
  <2>1. ch.index \in Nat
    BY <1>4, <1>5 DEF Chunk, ApplicationChunk
  <2>2. ch.index + 1 \in 1..Len(outbox[c]) /\ ch.index < Len(outbox'[c])
    BY <1>1, <1>4, <1>5, <2>1 DEF OutboxKept
  <2>3. outbox'[c][ch.index + 1].data = outbox[c][ch.index + 1].data
    BY <1>1, <2>2 DEF OutboxKept
  <2>4. EchoOf(j, ch) => EchoOf(j, ch)'
    BY <1>2 DEF EchoOf, Junk
  <2>. QED
    BY <1>4, <1>5, <2>2, <2>3, <2>4
<1>6. Rejected(j, ch)' <=> Rejected(j, ch)
  BY DEF Rejected
<1>. QED
  BY <1>4, <1>5, <1>6 DEF UpChunk

(* Once an echo has been sent it stays on its way. *)
LEMMA UnechoedBefore ==
  ASSUME SInv, Uplink, [Next]_vars, NEW j \in Slots, Unechoed(j)'
  PROVE  Unechoed(j)
<1>1. OutboxKept /\ NetTypeOK
  BY OutboxKeptStep DEF SInv, IInv, TypeOK
<1>2. toHost \subseteq toHost'
  <2>1. CASE HostNext
    BY <2>1 DEF HostNext, Tick, HostOpen, HostResolve, HostQueue, HostDestroy,
         HostReceive, HostAbort, HostAssign, TickBegin, SyncMessage,
         SyncLost, SyncAbort, SyncNextSlot, SyncDone, SendResponse,
         SendMessages, SendFails, SendHeartbeat, SendNothing, TickEnd, netVars
  <2>2. ASSUME NEW c \in Clients, ClientNext(c)
        PROVE  toHost \subseteq toHost'
    BY <2>2 DEF ClientNext, ClientOpen, ClientConnect, ClientQueue,
         ClientDestroy, ClientResolve, ClientReceive, ClientResponse,
         ClientInput, ClientTick, TickSend, TickSendFails, TickHeartbeat,
         TickAbort, TickQuiet, ClientSend, netVars
  <2>. QED
    BY <2>1, <2>2 DEF Next, vars, netVars
<1>3. SUFFICES ASSUME NEW p \in toHost, p.dst = j, NEW ch \in Taken(p)
               PROVE  /\ ch.index < Len(outbox[p.src])
                      /\ ch.data = outbox[p.src][ch.index + 1].data
  BY DEF Unechoed
<1>4. /\ p.src \in Clients
      /\ ch \in UpChunk(p.src, p.dst)
      /\ ch.kind = "application"
  BY <1>1, <1>3 DEF Uplink, Taken, ApplicationChunks, NetTypeOK
<1>5. ch.index \in Nat /\ ch.index < Len(outbox[p.src])
  BY <1>4 DEF UpChunk, Chunk, ApplicationChunk
<1>6. Taken(p)' = Taken(p)
  BY DEF Taken, RejectedChunks, Rejected
<1>7. ch.data = outbox'[p.src][ch.index + 1].data
  BY <1>2, <1>3, <1>6 DEF Unechoed
<1>8. ch.index + 1 \in 1..Len(outbox[p.src])
  BY <1>1, <1>4, <1>5 DEF OutboxKept
<1>. QED
  BY <1>1, <1>4, <1>5, <1>7, <1>8 DEF OutboxKept

---------------------------------------------------------------------------
(* What the clients send *)

(* queue_pack of the client's own queue sends its own messages. *)
LEMMA SentIsOwn ==
  ASSUME ClientTypeOK, NEW c \in Clients, NEW j \in Slots,
         sent[c] < Len(outbox[c]),
         NEW trail \in PartialTrails(sent[c])
  PROVE  ChunksOf(NewIndexes(sent[c], Len(outbox[c])) \o trail, OutEntries(c))
           \in Seq(UpChunk(c, j))
<1>. DEFINE I == 0..(Len(outbox[c]) - 1)
            fresh == NewIndexes(sent[c], Len(outbox[c]))
<1>1. /\ outbox[c] \in Seq(Message)
      /\ sent[c] \in 0..Len(outbox[c])
      /\ sent[c] \in Nat
      /\ Len(outbox[c]) \in Nat
  BY DEF ClientTypeOK
<1>2. \A i \in I : Application(i, OutEntries(c)[i]) \in UpChunk(c, j)
  <2>1. SUFFICES ASSUME NEW i \in I
                 PROVE  Application(i, OutEntries(c)[i]) \in UpChunk(c, j)
    OBVIOUS
  <2>2. /\ OutEntries(c)[i] = outbox[c][i + 1]
        /\ outbox[c][i + 1] \in Message
        /\ i \in Nat
    BY <1>1 DEF OutEntries
  <2>3. Application(i, OutEntries(c)[i]) \in Chunk
    BY <2>2, ApplicationType
  <2>4. /\ Application(i, OutEntries(c)[i]).index = i
        /\ Application(i, OutEntries(c)[i]).data = outbox[c][i + 1].data
    BY <2>2 DEF Application
  <2>. QED
    BY <1>1, <2>1, <2>3, <2>4 DEF UpChunk
<1>3. fresh \in Seq(I)
  BY <1>1, NewIndexesType
<1>4. trail \in Seq(I)
  <2>1. trail \in Seq(0..(sent[c] - 1))
    BY <1>1, PartialTrailIndexes
  <2>. QED
    BY <1>1, <2>1, SeqMonotonic
<1>5. fresh \o trail \in Seq(I) /\ I \in SUBSET Nat
  BY <1>1, <1>3, <1>4, ConcatProperties
<1>. HIDE DEF fresh
<1>6. ChunksOf(fresh \o trail, OutEntries(c)) \in Seq(UpChunk(c, j))
  BY <1>2, <1>5, ChunksOfType
<1>. QED
  BY <1>6 DEF fresh

(* What a heartbeat carries is refused or is an echo: a message of the     *)
(* mutual queue has a time, or another actor, or is one of actor j at time *)
(* 0; an entry that is not ready has the host's actor id.                  *)
LEMMA HeartbeatTrail ==
  ASSUME SInv, NEW c \in Clients, NEW j \in Slots,
         NDEBUG \/ BeyondQueue(queue[c], sent[c]) = {},
         NEW junk \in [BeyondQueue(queue[c], sent[c]) -> Garbage],
         NEW trail \in Trails(sent[c])
  PROVE  <<Heartbeat(0, actor[c])>> \o ChunksOf(trail, TrailEntries(c, junk))
           \in Seq(UpChunk(c, j))
<1>. USE ClientAssumption
<1>. DEFINE I == 0..(sent[c] - 1)
            E == TrailEntries(c, junk)
<1>1. /\ ClientTypeOK /\ HostTypeOK
      /\ sent[c] \in Nat
      /\ Len(outbox[c]) \in Nat
      /\ sent[c] <= Len(outbox[c])
      /\ Agreement
      /\ queueIndex \in Nat
  <2>1. ClientTypeOK /\ HostTypeOK /\ Agreement
    BY DEF SInv, IInv, TypeOK
  <2>2. sent[c] \in Nat /\ sent[c] <= Len(outbox[c]) /\ outbox[c] \in Seq(Message)
    BY <2>1 DEF ClientTypeOK
  <2>3. queueIndex \in Nat
    BY <2>1 DEF HostTypeOK
  <2>. QED
    BY <2>1, <2>2, <2>3
<1>2. ASSUME NEW i \in I, NEW m \in Message,
             m.time # 0 \/ m.actor # j \/ EchoOf(j, Application(i, m))
      PROVE  Application(i, m) \in UpChunk(c, j)
  <2>1. Application(i, m) \in Chunk
    BY <1>1, <1>2, ApplicationType
  <2>2. /\ Application(i, m).index = i
        /\ Application(i, m).time = m.time
        /\ Application(i, m).actor = m.actor
    BY DEF Application
  <2>3. Rejected(j, Application(i, m)) \/ EchoOf(j, Application(i, m))
    BY <1>2, <2>2 DEF Rejected
  <2>4. i < Len(outbox[c])
    BY <1>1, <1>2
  <2>. HIDE DEF I
  <2>. QED
    BY <2>1, <2>2, <2>3, <2>4 DEF UpChunk
<1>3. ASSUME NEW i \in I
      PROVE  Application(i, E[i]) \in UpChunk(c, j)
  <2>1. CASE i \in DOMAIN queue[c]
    <3>0. i \notin DOMAIN junk
      BY <1>1, <2>1 DEF BeyondQueue
    <3>1. E[i] = queue[c][i]
      BY <2>1, <3>0 DEF TrailEntries
    <3>2. /\ queue[c][i] \in Message
          /\ i < queueIndex
          /\ i + 1 \in 1..queueIndex
          /\ queue[c][i] = hostQueue[i + 1]
      BY <1>1, <2>1 DEF ClientTypeOK, Agreement
    <3>3. Application(i, queue[c][i]).data = queue[c][i].data
      BY DEF Application
    <3>4. queue[c][i].time # 0 \/ queue[c][i].actor # j
          \/ EchoOf(j, Application(i, queue[c][i]))
      BY <3>2, <3>3 DEF EchoOf
    <3>. HIDE DEF E, I
    <3>. QED
      BY <1>2, <1>3, <3>1, <3>2, <3>4
  <2>2. CASE i \notin DOMAIN queue[c] /\ i \in DOMAIN junk
    <3>1. E[i] = junk[i]
      BY <2>2 DEF TrailEntries
    <3>2. junk[i] \in Garbage /\ NDEBUG /\ junk[i] \in Message
      BY <2>2
    <3>3. Application(i, junk[i]).data = junk[i].data
      BY DEF Application
    <3>4. junk[i].time # 0 \/ junk[i].actor # j
          \/ EchoOf(j, Application(i, junk[i]))
      BY <3>2, <3>3 DEF EchoOf, Junk
    <3>. HIDE DEF E, I
    <3>. QED
      BY <1>2, <1>3, <3>1, <3>2, <3>4
  <2>3. CASE i \notin DOMAIN queue[c] /\ i \notin DOMAIN junk
    <3>1. E[i] = ZeroMessage
      BY <2>3 DEF TrailEntries
    <3>2. ZeroMessage \in Message /\ ZeroMessage.actor = 0
      BY DEF ZeroMessage, Message
    <3>3. j # 0
      BY SlotsAssumption DEF Slots
    <3>. HIDE DEF E, I
    <3>. QED
      BY <1>2, <1>3, <3>1, <3>2, <3>3
  <2>. QED
    BY <2>1, <2>2, <2>3
<1>4. trail \in Seq(I) /\ I \in SUBSET Nat
  BY <1>1, TrailIndexes
<1>. HIDE DEF E
<1>5. ChunksOf(trail, E) \in Seq(UpChunk(c, j))
  BY <1>3, <1>4, ChunksOfType
<1>6. <<Heartbeat(0, actor[c])>> \in Seq(UpChunk(c, j))
  <2>1. actor[c] \in Int
    BY <1>1, SlotsAssumption DEF ClientTypeOK, Slots, Undefined
  <2>2. Heartbeat(0, actor[c]) \in Chunk /\ Heartbeat(0, actor[c]).kind = "heartbeat"
    BY <2>1 DEF Heartbeat, Chunk
  <2>3. Heartbeat(0, actor[c]) \in UpChunk(c, j)
    BY <2>2 DEF UpChunk
  <2>. QED
    BY <2>3
<1>7. <<Heartbeat(0, actor[c])>> \o ChunksOf(trail, E) \in Seq(UpChunk(c, j))
  BY <1>5, <1>6, ConcatProperties
<1>. QED
  BY <1>7 DEF E

LEMMA UplinkStep ==
  ASSUME SInv, Uplink, [Next]_vars
  PROVE  Uplink'
<1>1. SInv /\ NetTypeOK /\ ClientTypeOK /\ HostTypeOK
  BY DEF SInv, IInv, TypeOK
<1>2. SUFFICES ASSUME NEW p \in toHost', p.dst \in Slots
               PROVE  p.chunks \subseteq UpChunk(p.src, p.dst)'
  BY DEF Uplink
<1>3. CASE p \in toHost
  <2>1. p.src \in Clients /\ p.chunks \subseteq UpChunk(p.src, p.dst)
    BY <1>1, <1>2, <1>3 DEF Uplink, NetTypeOK
  <2>2. UpChunk(p.src, p.dst) \subseteq UpChunk(p.src, p.dst)'
    BY <1>1, <1>2, <2>1, UpChunkKept
  <2>. QED
    BY <2>1, <2>2
<1>4. ASSUME NEW c \in Clients, ClientNext(c), p \notin toHost
      PROVE  p.chunks \subseteq UpChunk(p.src, p.dst)'
  <2>1. p.src = c /\ p.dst = session[c]
    BY <1>1, <1>2, <1>4, SentToSession
  <2>2. PICK e \in Elapsed :
          TickSend(c, e) \/ TickSendFails(c, e) \/ TickHeartbeat(c, e)
    BY <1>2, <1>4 DEF ClientNext, ClientOpen, ClientConnect, ClientQueue,
       ClientDestroy, ClientResolve, ClientReceive, ClientResponse,
       ClientInput, ClientTick, TickAbort, TickQuiet, netVars
  <2>3. ASSUME NEW chunks \in Seq(UpChunk(c, p.dst)), ClientSend(c, chunks)
        PROVE  p.chunks \subseteq UpChunk(p.src, p.dst)'
    <3>1. p \in Pack(c, session[c], chunks)
      BY <1>2, <1>4, <2>3 DEF ClientSend
    <3>2. p.chunks \subseteq UpChunk(c, p.dst)
      BY <3>1, PackType
    <3>3. UpChunk(c, p.dst) \subseteq UpChunk(c, p.dst)'
      BY <1>1, <1>2, UpChunkKept
    <3>. QED
      BY <2>1, <3>2, <3>3
  <2>4. CASE TickSend(c, e) \/ TickSendFails(c, e)
    <3>1. sent[c] < Len(outbox[c])
      BY <2>4 DEF TickSend, TickSendFails
    <3>2. PICK trail \in PartialTrails(sent[c]) :
            ClientSend(c, ChunksOf(NewIndexes(sent[c], Len(outbox[c])) \o trail,
                                   OutEntries(c)))
      BY <2>4 DEF TickSend, TickSendFails, PartialTrails
    <3>. QED
      BY <1>1, <1>2, <2>3, <3>1, <3>2, SentIsOwn
  <2>5. CASE TickHeartbeat(c, e)
    <3>1. NDEBUG \/ BeyondQueue(queue[c], sent[c]) = {}
      BY <2>5 DEF TickHeartbeat
    <3>2. PICK trail \in Trails(sent[c]),
               junk \in [BeyondQueue(queue[c], sent[c]) -> Garbage] :
            ClientSend(c, <<Heartbeat(0, actor[c])>>
                            \o ChunksOf(trail, TrailEntries(c, junk)))
      BY <2>5 DEF TickHeartbeat
    <3>. QED
      BY <1>1, <1>2, <2>3, <3>1, <3>2, HeartbeatTrail
  <2>. QED
    BY <2>2, <2>4, <2>5
<1>5. CASE HostNext
  <2>1. toHost' = toHost
    BY <1>5 DEF HostNext, Tick, HostOpen, HostResolve, HostQueue, HostDestroy,
         HostReceive, HostAbort, HostAssign, TickBegin, SyncMessage,
         SyncLost, SyncAbort, SyncNextSlot, SyncDone, SendResponse,
         SendMessages, SendFails, SendHeartbeat, SendNothing, TickEnd, netVars
  <2>. QED
    BY <1>2, <1>3, <2>1
<1>. QED
  BY <1>2, <1>3, <1>4, <1>5 DEF Next, vars, netVars

---------------------------------------------------------------------------
(* What the host receives *)

(* One packet: what was there stays, what is new was taken from it. *)
LEMMA ReceiveEffect ==
  ASSUME HostTypeOK, NetTypeOK, NEW p \in toHost, HostReceive(p)
  PROVE  /\ p.dst \in Slots
         /\ p.src \in Clients
         /\ remote[p.dst] = p.src
         /\ remote' = remote
         /\ \A j \in Slots \ {p.dst} : slotQueue'[j] = slotQueue[j]
         /\ \A i \in DOMAIN slotQueue[p.dst] :
              slotQueue'[p.dst][i] = slotQueue[p.dst][i]
         /\ \A i \in DOMAIN slotQueue'[p.dst] \ DOMAIN slotQueue[p.dst] :
              \E ch \in Taken(p) : /\ ch.index = i
                                   /\ slotQueue'[p.dst][i].data = ch.data
<1>1. /\ p.dst \in Slots
      /\ remote[p.dst] = p.src
      /\ p.src \in Clients
      /\ remote' = remote
  BY DEF HostReceive, Matched, NetTypeOK
<1>. DEFINE r == QueueInsert(slotQueue[p.dst], Taken(p))
<1>2. /\ slotQueue'[p.dst] = r
      /\ \A j \in Slots \ {p.dst} : slotQueue'[j] = slotQueue[j]
  BY <1>1 DEF HostReceive, HostTypeOK
<1>3. /\ DOMAIN r = DOMAIN slotQueue[p.dst] \cup {ch.index : ch \in Taken(p)}
      /\ \A i \in DOMAIN slotQueue[p.dst] : r[i] = slotQueue[p.dst][i]
      /\ \A i \in DOMAIN r \ DOMAIN slotQueue[p.dst] :
           \E ch \in Taken(p) : ch.index = i /\ r[i] = Payload(ch)
  BY QueueInsertEffect
<1>. HIDE DEF r
<1>4. \A i \in DOMAIN r \ DOMAIN slotQueue[p.dst] :
        \E ch \in Taken(p) : ch.index = i /\ r[i].data = ch.data
  <2>1. ASSUME NEW i \in DOMAIN r \ DOMAIN slotQueue[p.dst]
        PROVE  \E ch \in Taken(p) : ch.index = i /\ r[i].data = ch.data
    <3>1. PICK ch \in Taken(p) : ch.index = i /\ r[i] = Payload(ch)
      BY <1>3, <2>1, Zenon
    <3>2. Payload(ch).data = ch.data
      BY DEF Payload
    <3>. QED
      BY <3>1, <3>2, Zenon
  <2>. QED
    BY <2>1
<1>. QED
  BY <1>1, <1>2, <1>3, <1>4

LEMMA SlotQueueStep ==
  ASSUME [Next]_vars
  PROVE  slotQueue' = slotQueue \/ \E p \in toHost : HostReceive(p)
BY DEF Next, vars, hostVars, HostNext, Tick, HostOpen, HostResolve, HostQueue,
       HostDestroy, HostAbort, HostAssign, TickBegin, SyncMessage, SyncLost,
       SyncAbort, SyncNextSlot, SyncDone, SendResponse, SendMessages,
       SendFails, SendHeartbeat, SendNothing, TickEnd, slotVars

(* A match that holds goes on to hold while the client queues more. *)
LEMMA EntryKept ==
  ASSUME SInv, [Next]_vars, NEW j \in Slots, NEW i \in Nat, NEW d,
         remote[j] # NoClient, i < Len(outbox[remote[j]]),
         d = outbox[remote[j]][i + 1].data
  PROVE  /\ remote'[j] # NoClient
         /\ i < Len(outbox'[remote'[j]])
         /\ d = outbox'[remote'[j]][i + 1].data
<1>1. remote'[j] = remote[j]
  BY RemoteKeptStep
<1>2. remote[j] \in Clients
  BY DEF SInv, IInv, TypeOK, HostTypeOK
<1>3. OutboxKept
  BY OutboxKeptStep
<1>4. i + 1 \in 1..Len(outbox[remote[j]])
  BY <1>2, <1>3 DEF OutboxKept
<1>. QED
  BY <1>1, <1>2, <1>3, <1>4 DEF OutboxKept

LEMMA SlotMatchStep ==
  ASSUME SInv, Uplink, SlotMatch, [Next]_vars
  PROVE  SlotMatch'
<1>1. HostTypeOK /\ NetTypeOK
  BY DEF SInv, IInv, TypeOK
<1>2. SUFFICES ASSUME NEW j \in Slots, Unechoed(j)', NEW i \in DOMAIN slotQueue'[j]
               PROVE  /\ remote'[j] # NoClient
                      /\ i < Len(outbox'[remote'[j]])
                      /\ slotQueue'[j][i].data = outbox'[remote'[j]][i + 1].data
  BY DEF SlotMatch, Match
<1>3. Unechoed(j)
  BY <1>2, UnechoedBefore
<1>4. ASSUME i \in DOMAIN slotQueue[j], slotQueue'[j][i] = slotQueue[j][i]
      PROVE  /\ remote'[j] # NoClient
             /\ i < Len(outbox'[remote'[j]])
             /\ slotQueue'[j][i].data = outbox'[remote'[j]][i + 1].data
  <2>1. /\ i \in Nat
        /\ remote[j] # NoClient
        /\ i < Len(outbox[remote[j]])
        /\ slotQueue[j][i].data = outbox[remote[j]][i + 1].data
    BY <1>1, <1>3, <1>4 DEF SlotMatch, Match, HostTypeOK
  <2>. QED
    BY <1>4, <2>1, EntryKept
<1>5. ASSUME NEW p \in toHost, HostReceive(p), j = p.dst,
             i \notin DOMAIN slotQueue[j]
      PROVE  /\ remote'[j] # NoClient
             /\ i < Len(outbox'[remote'[j]])
             /\ slotQueue'[j][i].data = outbox'[remote'[j]][i + 1].data
  <2>1. /\ remote[j] = p.src
        /\ p.src \in Clients
        /\ \E ch \in Taken(p) : ch.index = i /\ slotQueue'[j][i].data = ch.data
    BY <1>1, <1>2, <1>5, ReceiveEffect
  <2>2. PICK ch \in Taken(p) : ch.index = i /\ slotQueue'[j][i].data = ch.data
    BY <2>1
  <2>3. /\ ch.index < Len(outbox[p.src])
        /\ ch.data = outbox[p.src][ch.index + 1].data
    BY <1>3, <1>5 DEF Unechoed
  <2>4. ch.index \in Nat
    BY <1>1 DEF Taken, ApplicationChunks, NetTypeOK, Chunk, ApplicationChunk
  <2>5. remote[j] # NoClient
    BY <2>1, HostAssumption
  <2>. QED
    BY <2>1, <2>2, <2>3, <2>4, <2>5, EntryKept
<1>6. CASE slotQueue' = slotQueue
  BY <1>2, <1>4, <1>6
<1>7. ASSUME NEW p \in toHost, HostReceive(p)
      PROVE  \/ i \in DOMAIN slotQueue[j] /\ slotQueue'[j][i] = slotQueue[j][i]
             \/ j = p.dst /\ i \notin DOMAIN slotQueue[j]
  BY <1>1, <1>2, <1>7, ReceiveEffect
<1>. QED
  BY <1>4, <1>5, <1>6, <1>7, SlotQueueStep

(* An echo of a message of actor j repeats what its client has said. *)
LEMMA TakenWords ==
  ASSUME OInv, NEW p \in toHost, p.dst \in Slots, remote[p.dst] = p.src,
         NEW ch \in Taken(p)
  PROVE  ch.data \in Words(p.dst)
<1>1. NetTypeOK /\ HostTypeOK
  BY DEF OInv, SInv, IInv, TypeOK
<1>2. /\ p.src \in Clients
      /\ ch \in UpChunk(p.src, p.dst)
      /\ ch.kind = "application"
      /\ ~Rejected(p.dst, ch)
  BY <1>1 DEF OInv, Uplink, Taken, ApplicationChunks, RejectedChunks, NetTypeOK
<1>3. CASE ch.data = outbox[p.src][ch.index + 1].data
  <2>1. ch.index \in Nat /\ ch.index < Len(outbox[p.src])
    BY <1>2 DEF UpChunk, Chunk, ApplicationChunk
  <2>2. Len(outbox[p.src]) \in Nat
    BY <1>2 DEF OInv, SInv, IInv, TypeOK, ClientTypeOK
  <2>3. ch.index + 1 \in 1..Len(outbox[p.src])
    BY <2>1, <2>2
  <2>4. ch.data \in SaidBy(p.src)
    BY <1>3, <2>3 DEF SaidBy
  <2>. QED
    BY <1>2, <2>4 DEF Words
<1>4. ASSUME NEW k \in 1..queueIndex, hostQueue[k].actor = p.dst,
             hostQueue[k].data = ch.data
      PROVE  ch.data \in Words(p.dst)
  <2>1. k \in 1..Len(hostQueue)
    BY <1>1 DEF HostTypeOK
  <2>2. k \in OwnPlaces(p.dst)
    BY <1>4, <2>1 DEF OwnPlaces
  <2>. QED
    BY <1>4, <2>2 DEF OInv, Attributed
<1>5. ASSUME NEW g \in Junk(p.dst), g.data = ch.data
      PROVE  ch.data \in Words(p.dst)
  BY <1>5 DEF Words
<1>. QED
  BY <1>2, <1>3, <1>4, <1>5 DEF UpChunk, EchoOf

LEMMA SlotWordsStep ==
  ASSUME OInv, [Next]_vars
  PROVE  SlotWords'
<1>1. SInv /\ HostTypeOK /\ NetTypeOK /\ SlotWords
  BY DEF OInv, SInv, IInv, TypeOK
<1>2. SUFFICES ASSUME NEW j \in Slots, NEW i \in DOMAIN slotQueue'[j]
               PROVE  slotQueue'[j][i].data \in Words(j)'
  BY DEF SlotWords
<1>3. Words(j) \subseteq Words(j)'
  BY <1>1, WordsKept
<1>4. ASSUME i \in DOMAIN slotQueue[j], slotQueue'[j][i] = slotQueue[j][i]
      PROVE  slotQueue'[j][i].data \in Words(j)'
  BY <1>1, <1>3, <1>4 DEF SlotWords
<1>5. ASSUME NEW p \in toHost, HostReceive(p), j = p.dst,
             i \notin DOMAIN slotQueue[j]
      PROVE  slotQueue'[j][i].data \in Words(j)'
  <2>1. /\ remote[j] = p.src
        /\ \E ch \in Taken(p) : ch.index = i /\ slotQueue'[j][i].data = ch.data
    BY <1>1, <1>2, <1>5, ReceiveEffect
  <2>2. PICK ch \in Taken(p) : slotQueue'[j][i].data = ch.data
    BY <2>1
  <2>3. ch.data \in Words(j)
    BY <1>5, <2>1, TakenWords
  <2>. QED
    BY <1>3, <2>2, <2>3
<1>6. CASE slotQueue' = slotQueue
  BY <1>2, <1>4, <1>6
<1>7. ASSUME NEW p \in toHost, HostReceive(p)
      PROVE  \/ i \in DOMAIN slotQueue[j] /\ slotQueue'[j][i] = slotQueue[j][i]
             \/ j = p.dst /\ i \notin DOMAIN slotQueue[j]
  BY <1>1, <1>2, <1>7, ReceiveEffect
<1>. QED
  BY <1>4, <1>5, <1>6, <1>7, SlotQueueStep

---------------------------------------------------------------------------
(* The mutual queue *)

(* The steps that leave the clients' messages where they are in the mutual *)
(* queue.                                                                  *)
PlacesKept ==
  \A j \in Slots :
    /\ OwnPlaces(j)' = OwnPlaces(j)
    /\ \A m \in OwnPlaces(j) : hostQueue'[m].data = hostQueue[m].data
    /\ inIndex[j] <= inIndex'[j]
    /\ remote[j] # NoClient => remote'[j] = remote[j]

(* A host's own messages, and the times they get, are no client's matter. *)
LEMMA PlacesKeptStep ==
  ASSUME SInv, [Next]_vars, ~SyncMessage
  PROVE  /\ PlacesKept
         /\ UNCHANGED inIndex \/ SyncLost
<1>. USE SlotsAssumption
<1>1. HostTypeOK /\ hostQueue \in Seq(Message) /\ inIndex \in [Slots -> Nat]
  BY DEF SInv, IInv, TypeOK, HostTypeOK
<1>2. \A j \in Slots : remote[j] # NoClient => remote'[j] = remote[j]
  BY RemoteKeptStep
<1>3. UNCHANGED inIndex \/ SyncLost
  BY DEF Next, vars, hostVars, slotVars, HostNext, Tick, HostOpen, HostResolve,
         HostQueue, HostDestroy, HostReceive, HostAbort, HostAssign, TickBegin,
         SyncAbort, SyncNextSlot, SyncDone, SendResponse, SendMessages, SendFails,
         SendHeartbeat, SendNothing, TickEnd
<1>4. \A j \in Slots : inIndex[j] <= inIndex'[j]
  <2>1. CASE UNCHANGED inIndex
    BY <1>1, <2>1
  <2>2. CASE SyncLost
    <3>1. inIndex' = [inIndex EXCEPT ![cursor] = inIndex[cursor] + 1]
      BY <2>2 DEF SyncLost
    <3>. QED
      BY <1>1, <3>1
  <2>. QED
    BY <1>3, <2>1, <2>2
<1>5. \A j \in Slots :
        /\ OwnPlaces(j)' = OwnPlaces(j)
        /\ \A m \in OwnPlaces(j) : hostQueue'[m].data = hostQueue[m].data
  <2>1. CASE UNCHANGED hostQueue
    BY <2>1 DEF OwnPlaces
  <2>2. ASSUME NEW d \in Data, HostQueue(d), NEW j \in Slots
        PROVE  /\ OwnPlaces(j)' = OwnPlaces(j)
               /\ \A m \in OwnPlaces(j) : hostQueue'[m].data = hostQueue[m].data
    <3>. DEFINE new == [time |-> 0, actor |-> 0, data |-> d]
    <3>1. hostQueue' = Append(hostQueue, new) /\ new \in Message /\ new.actor # j
      BY <2>2 DEF HostQueue, Message, Slots
    <3>. HIDE DEF new
    <3>2. /\ Len(hostQueue') = Len(hostQueue) + 1
          /\ Len(hostQueue) \in Nat
          /\ hostQueue'[Len(hostQueue) + 1] = new
          /\ \A k \in 1..Len(hostQueue) : hostQueue'[k] = hostQueue[k]
      BY <1>1, <3>1
    <3>. QED
      BY <3>1, <3>2 DEF OwnPlaces
  <2>3. ASSUME NEW e \in Elapsed, TickBegin(e), NEW j \in Slots
        PROVE  /\ OwnPlaces(j)' = OwnPlaces(j)
               /\ \A m \in OwnPlaces(j) : hostQueue'[m].data = hostQueue[m].data
    <3>1. /\ Len(hostQueue') = Len(hostQueue)
          /\ \A k \in 1..Len(hostQueue) :
               hostQueue'[k] = IF k > queueIndex
                               THEN [hostQueue[k] EXCEPT !.time = hostTime']
                               ELSE hostQueue[k]
      BY <1>1, <2>3 DEF TickBegin, Stamped
    <3>2. \A k \in 1..Len(hostQueue) : hostQueue[k] \in Message
      BY <1>1
    <3>3. \A k \in 1..Len(hostQueue) :
            /\ hostQueue'[k].actor = hostQueue[k].actor
            /\ hostQueue'[k].data = hostQueue[k].data
      BY <3>1, <3>2 DEF Message
    <3>. QED
      BY <3>1, <3>3 DEF OwnPlaces
  <2>4. \/ UNCHANGED hostQueue
        \/ \E d \in Data : HostQueue(d)
        \/ \E e \in Elapsed : TickBegin(e)
    BY DEF Next, vars, hostVars, HostNext, Tick, HostOpen, HostResolve,
         HostDestroy, HostReceive, HostAbort, HostAssign, SyncLost, SyncAbort,
         SyncNextSlot, SyncDone, SendResponse, SendMessages, SendFails,
         SendHeartbeat, SendNothing, TickEnd
  <2>. QED
    BY <2>1, <2>2, <2>3, <2>4
<1>. QED
  BY <1>2, <1>3, <1>4, <1>5 DEF PlacesKept

(* The host takes the next message of a slot: without echoes, the one its  *)
(* client queued at that index.                                            *)
LEMMA SyncMessageEffect ==
  ASSUME OInv, Next, SyncMessage
  PROVE  \E j \in Slots :
           /\ Len(hostQueue) \in Nat
           /\ Len(hostQueue') = Len(hostQueue) + 1
           /\ \A k \in 1..Len(hostQueue) : hostQueue'[k] = hostQueue[k]
           /\ OwnPlaces(j)' = OwnPlaces(j) \cup {Len(hostQueue) + 1}
           /\ \A k \in Slots \ {j} : /\ OwnPlaces(k)' = OwnPlaces(k)
                                     /\ inIndex'[k] = inIndex[k]
           /\ inIndex[j] \in Nat
           /\ inIndex'[j] = inIndex[j] + 1
           /\ remote' = remote
           /\ outbox' = outbox
           /\ hostQueue'[Len(hostQueue) + 1].data \in Words(j)
           /\ Unechoed(j) =>
                /\ remote[j] \in Clients
                /\ inIndex[j] < Len(outbox[remote[j]])
                /\ hostQueue'[Len(hostQueue) + 1].data
                     = outbox[remote[j]][inIndex[j] + 1].data
<1>. USE SlotsAssumption
<1>1. /\ HostTypeOK
      /\ hostQueue \in Seq(Message)
      /\ Len(hostQueue) \in Nat
      /\ inIndex \in [Slots -> Nat]
      /\ remote \in [Slots -> Clients \cup {NoClient}]
  BY DEF OInv, SInv, IInv, TypeOK, HostTypeOK
<1>2. PICK j \in Slots : j = cursor
  <2>1. cursor < opened /\ opened \in 0..(NumSlots + 1) /\ cursor \in 1..(NumSlots + 1)
    BY <1>1 DEF SyncMessage, HostTypeOK
  <2>. QED
    BY <2>1 DEF Slots
<1>. DEFINE i == inIndex[j]
            new == [time  |-> hostTime, actor |-> j,
                    data  |-> slotQueue[j][i].data]
<1>3. /\ i \in DOMAIN slotQueue[j]
      /\ inIndex' = [inIndex EXCEPT ![j] = i + 1]
      /\ remote' = remote
      /\ hostQueue' = Append(hostQueue, new)
  BY <1>2 DEF SyncMessage, Ready
<1>4. i \in Nat
  BY <1>1, <1>2
<1>5. /\ slotQueue[j][i].data \in Words(j)
      /\ Unechoed(j) =>
           /\ remote[j] \in Clients
           /\ i < Len(outbox[remote[j]])
           /\ slotQueue[j][i].data = outbox[remote[j]][i + 1].data
  BY <1>1, <1>2, <1>3 DEF OInv, SlotMatch, Match, SlotWords
<1>6. outbox' = outbox
  <2>1. phase # "idle"
    BY DEF SyncMessage
  <2>. QED
    BY <2>1 DEF Next, clientVars
<1>7. /\ new.actor = j
      /\ new.data = slotQueue[j][i].data
  OBVIOUS
<1>. HIDE DEF new
<1>8. /\ Len(hostQueue') = Len(hostQueue) + 1
      /\ \A k \in 1..Len(hostQueue) : hostQueue'[k] = hostQueue[k]
      /\ hostQueue'[Len(hostQueue) + 1] = new
  BY <1>1, <1>3
<1>9. /\ OwnPlaces(j)' = OwnPlaces(j) \cup {Len(hostQueue) + 1}
      /\ \A k \in Slots \ {j} : OwnPlaces(k)' = OwnPlaces(k)
  <2>1. 1..(Len(hostQueue) + 1) = 1..Len(hostQueue) \cup {Len(hostQueue) + 1}
    BY <1>1
  <2>2. ASSUME NEW k \in Slots, NEW m
        PROVE  m \in OwnPlaces(k)' <=> \/ m \in OwnPlaces(k)
                                       \/ m = Len(hostQueue) + 1 /\ j = k
    <3>1. m \in OwnPlaces(k)'
            <=> m \in 1..(Len(hostQueue) + 1) /\ hostQueue'[m].actor = k
      BY <1>8 DEF OwnPlaces
    <3>2. m \in OwnPlaces(k)
            <=> m \in 1..Len(hostQueue) /\ hostQueue[m].actor = k
      BY DEF OwnPlaces
    <3>3. m = Len(hostQueue) + 1 => hostQueue'[m].actor = j
      BY <1>7, <1>8
    <3>4. m \in 1..Len(hostQueue) => hostQueue'[m] = hostQueue[m]
      BY <1>8
    <3>. QED
      BY <1>1, <2>1, <3>1, <3>2, <3>3, <3>4
  <2>3. OwnPlaces(j)' = OwnPlaces(j) \cup {Len(hostQueue) + 1}
    BY <2>2
  <2>4. ASSUME NEW k \in Slots \ {j} PROVE OwnPlaces(k)' = OwnPlaces(k)
    BY <2>2, <2>4
  <2>. QED
    BY <2>3, <2>4
<1>10. /\ inIndex'[j] = i + 1
       /\ \A k \in Slots \ {j} : inIndex'[k] = inIndex[k]
  BY <1>1, <1>3
<1>. QED
  BY <1>1, <1>3, <1>4, <1>5, <1>6, <1>7, <1>8, <1>9, <1>10

LEMMA AttributedStep ==
  ASSUME OInv, [Next]_vars
  PROVE  Attributed'
<1>1. SInv /\ Attributed
  BY DEF OInv
<1>2. \A j \in Slots : Words(j) \subseteq Words(j)'
  BY <1>1, WordsKept
<1>3. CASE ~(Next /\ SyncMessage)
  <2>1. PlacesKept
    <3>1. ~SyncMessage \/ UNCHANGED vars
      BY <1>3
    <3>2. UNCHANGED vars => PlacesKept
      BY <1>1 DEF vars, hostVars, slotVars, PlacesKept, OwnPlaces, SInv, IInv,
         TypeOK, HostTypeOK
    <3>. QED
      BY <1>1, <3>1, <3>2, PlacesKeptStep
  <2>. QED
    BY <1>1, <1>2, <2>1 DEF PlacesKept, Attributed
<1>4. CASE Next /\ SyncMessage
  <2>. DEFINE L == Len(hostQueue)
  <2>1. PICK j \in Slots :
           /\ L \in Nat
           /\ \A k \in 1..L : hostQueue'[k] = hostQueue[k]
           /\ OwnPlaces(j)' = OwnPlaces(j) \cup {L + 1}
           /\ \A k \in Slots \ {j} : OwnPlaces(k)' = OwnPlaces(k)
           /\ hostQueue'[L + 1].data \in Words(j)
    BY <1>4, SyncMessageEffect
  <2>2. ASSUME NEW k \in Slots, NEW m \in OwnPlaces(k)
        PROVE  hostQueue'[m].data \in Words(k)'
    <3>1. m \in 1..L
      BY <2>2 DEF OwnPlaces
    <3>. QED
      BY <1>1, <1>2, <2>1, <2>2, <3>1 DEF Attributed
  <2>3. ASSUME NEW k \in Slots, NEW m \in OwnPlaces(k)'
        PROVE  m \in OwnPlaces(k) \/ (k = j /\ m = L + 1)
    BY <2>1, <2>3
  <2>. QED
    BY <1>2, <2>1, <2>2, <2>3 DEF Attributed
<1>. QED
  BY <1>3, <1>4

(* The function that shows where the messages of slot j come from. *)
Shows(j, origin) ==
  /\ \A m, n \in OwnPlaces(j) : m < n => origin[m] < origin[n]
  /\ \A m \in OwnPlaces(j) :
       hostQueue[m].data = outbox[remote[j]][origin[m]].data

LEMMA SubsequenceStep ==
  ASSUME OInv, ClientSubsequence, [Next]_vars
  PROVE  ClientSubsequence'
<1>0. /\ inIndex \in [Slots -> Nat]
      /\ remote \in [Slots -> Clients \cup {NoClient}]
      /\ hostQueue \in Seq(Message)
      /\ HostTypeOK
  BY DEF OInv, SInv, IInv, TypeOK, HostTypeOK
<1>1. OutboxKept
  BY OutboxKeptStep DEF OInv
<1>2. \A j \in Slots : Unechoed(j)' =>
        /\ Unechoed(j)
        /\ \E origin \in [OwnPlaces(j) -> TakenFrom(j)] : Shows(j, origin)
  BY UnechoedBefore DEF OInv, ClientSubsequence, Shows
<1>3. ASSUME \A j \in Slots : Unechoed(j)' =>
               \E origin \in [OwnPlaces(j)' -> TakenFrom(j)'] : Shows(j, origin)'
      PROVE  ClientSubsequence'
  BY <1>3 DEF ClientSubsequence, Shows
<1>4. ASSUME NEW j \in Slots, Unechoed(j)',
             OwnPlaces(j)' = OwnPlaces(j),
             \A m \in OwnPlaces(j) : hostQueue'[m].data = hostQueue[m].data,
             inIndex[j] <= inIndex'[j], inIndex'[j] \in Nat,
             remote[j] # NoClient => remote'[j] = remote[j]
      PROVE  \E origin \in [OwnPlaces(j)' -> TakenFrom(j)'] : Shows(j, origin)'
  <2>1. PICK origin \in [OwnPlaces(j) -> TakenFrom(j)] : Shows(j, origin)
    BY <1>2, <1>4
  <2>2. ASSUME NEW n \in TakenFrom(j)
        PROVE  /\ n \in TakenFrom(j)'
               /\ outbox'[remote'[j]][n].data = outbox[remote[j]][n].data
    <3>1. /\ n \in 1..inIndex[j]
          /\ remote[j] \in Clients
          /\ remote'[j] = remote[j]
          /\ remote[j] # NoClient
          /\ n <= Len(outbox[remote[j]])
          /\ n \in Nat
      BY <1>0, <1>4 DEF TakenFrom
    <3>2. n \in 1..Len(outbox[remote[j]]) /\ n <= Len(outbox'[remote[j]])
      BY <1>1, <3>1 DEF OutboxKept
    <3>3. n \in 1..inIndex'[j]
      BY <1>0, <1>4, <3>1
    <3>. QED
      BY <1>1, <3>1, <3>2, <3>3 DEF OutboxKept, TakenFrom
  <2>3. origin \in [OwnPlaces(j)' -> TakenFrom(j)']
    BY <1>4, <2>2
  <2>4. Shows(j, origin)'
    BY <1>4, <2>1, <2>2 DEF Shows
  <2>. QED
    BY <2>3, <2>4
<1>5. CASE ~(Next /\ SyncMessage)
  <2>1. PlacesKept /\ (UNCHANGED inIndex \/ SyncLost)
    <3>1. ~SyncMessage \/ UNCHANGED vars
      BY <1>5
    <3>2. UNCHANGED vars => PlacesKept /\ UNCHANGED inIndex
      BY <1>0 DEF vars, hostVars, slotVars, PlacesKept, OwnPlaces
    <3>. QED
      BY <3>1, <3>2, PlacesKeptStep DEF OInv
  <2>2. \A j \in Slots : inIndex'[j] \in Nat
    <3>1. HostTypeOK'
      BY SInvStep DEF OInv, SInv, IInv, TypeOK
    <3>. QED
      BY <3>1 DEF HostTypeOK
  <2>. QED
    BY <1>3, <1>4, <2>1, <2>2 DEF PlacesKept
<1>6. CASE Next /\ SyncMessage
  <2>. DEFINE L == Len(hostQueue)
  <2>1. PICK j \in Slots :
           /\ L \in Nat
           /\ \A k \in 1..L : hostQueue'[k] = hostQueue[k]
           /\ OwnPlaces(j)' = OwnPlaces(j) \cup {L + 1}
           /\ \A k \in Slots \ {j} : /\ OwnPlaces(k)' = OwnPlaces(k)
                                     /\ inIndex'[k] = inIndex[k]
           /\ inIndex[j] \in Nat
           /\ inIndex'[j] = inIndex[j] + 1
           /\ remote' = remote
           /\ outbox' = outbox
           /\ Unechoed(j) =>
                /\ remote[j] \in Clients
                /\ inIndex[j] < Len(outbox[remote[j]])
                /\ hostQueue'[L + 1].data
                     = outbox[remote[j]][inIndex[j] + 1].data
    BY <1>6, SyncMessageEffect
  <2>2. ASSUME NEW k \in Slots \ {j}, Unechoed(k)'
        PROVE  \E origin \in [OwnPlaces(k)' -> TakenFrom(k)'] : Shows(k, origin)'
    <3>1. \A m \in OwnPlaces(k) : hostQueue'[m].data = hostQueue[m].data
      BY <2>1 DEF OwnPlaces
    <3>2. inIndex'[k] \in Nat /\ inIndex[k] <= inIndex'[k]
      BY <1>0, <2>1
    <3>. QED
      BY <1>4, <2>1, <2>2, <3>1, <3>2
  <2>3. ASSUME Unechoed(j)'
        PROVE  \E origin \in [OwnPlaces(j)' -> TakenFrom(j)'] : Shows(j, origin)'
    <3>0. /\ remote[j] \in Clients
          /\ inIndex[j] < Len(outbox[remote[j]])
          /\ hostQueue'[L + 1].data = outbox[remote[j]][inIndex[j] + 1].data
      BY <1>2, <2>1, <2>3
    <3>1. PICK old \in [OwnPlaces(j) -> TakenFrom(j)] : Shows(j, old)
      BY <1>2, <2>3
    <3>. DEFINE P == OwnPlaces(j)
                i == inIndex[j]
                origin == [m \in P \cup {L + 1} |-> IF m = L + 1 THEN i + 1 ELSE old[m]]
    <3>2. \A m \in P : m \in 1..L /\ m # L + 1
      BY <2>1 DEF OwnPlaces
    <3>3. TakenFrom(j)' = {n \in 1..(i + 1) : n <= Len(outbox[remote[j]])}
      BY <2>1, <3>0, HostAssumption DEF TakenFrom
    <3>4. \A m \in P : old[m] \in 1..i /\ old[m] <= Len(outbox[remote[j]])
      BY DEF TakenFrom
    <3>5. Len(outbox[remote[j]]) \in Nat
      BY <1>1, <3>0 DEF OutboxKept
    <3>6. origin \in [P \cup {L + 1} -> TakenFrom(j)']
      <4>1. i + 1 \in TakenFrom(j)'
        BY <2>1, <3>0, <3>3, <3>5
      <4>2. \A m \in P : old[m] \in TakenFrom(j)'
        BY <2>1, <3>3, <3>4
      <4>. QED
        BY <4>1, <4>2
    <3>7. /\ origin[L + 1] = i + 1
          /\ \A m \in P : origin[m] = old[m]
      BY <3>2
    <3>. HIDE DEF origin, i, P
    <3>8. ASSUME NEW m \in P \cup {L + 1}, NEW n \in P \cup {L + 1}, m < n
          PROVE  origin[m] < origin[n]
      <4>1. CASE m \in P /\ n \in P
        BY <3>1, <3>7, <3>8, <4>1 DEF Shows, P
      <4>2. CASE m \in P /\ n = L + 1
        <5>1. old[m] \in 1..i /\ i \in Nat
          BY <2>1, <3>4, <4>2 DEF i
        <5>. QED
          BY <3>7, <4>2, <5>1
      <4>3. CASE m = L + 1
        BY <2>1, <3>2, <3>8, <4>3
      <4>. QED
        BY <4>1, <4>2, <4>3
    <3>9. ASSUME NEW m \in P \cup {L + 1}
          PROVE  hostQueue'[m].data = outbox[remote[j]][origin[m]].data
      <4>1. CASE m \in P
        BY <2>1, <3>1, <3>2, <3>7, <4>1 DEF Shows, P
      <4>2. CASE m = L + 1
        BY <2>1, <3>0, <3>7, <4>2 DEF i
      <4>. QED
        BY <4>1, <4>2
    <3>10. OwnPlaces(j)' = P \cup {L + 1}
      BY <2>1 DEF P
    <3>11. PICK f \in [OwnPlaces(j)' -> TakenFrom(j)'] : f = origin
      BY <3>6, <3>10
    <3>12. Shows(j, f)'
      <4>1. remote'[j] = remote[j] /\ outbox' = outbox
        BY <2>1
      <4>. QED
        BY <3>8, <3>9, <3>10, <3>11, <4>1 DEF Shows
    <3>. QED
      BY <3>12
  <2>. QED
    BY <1>3, <2>2, <2>3
<1>. QED
  BY <1>5, <1>6

---------------------------------------------------------------------------
(* No message is passed over *)

(* The allocation of an entry of the host's queue does not fail unnoticed. *)
NoneLost == ~(AppendFails /\ NDEBUG)

(* The messages of a slot before in_index are all in the mutual queue. *)
OwnCount == \A j \in Slots : Cardinality(OwnPlaces(j)) = inIndex[j]

(* The place m of actor j is the n-th, for this n. *)
Rank(j, m) == Cardinality({k \in OwnPlaces(j) : k <= m})

LEMMA PlacesFinite ==
  ASSUME HostTypeOK, NEW j \in Slots
  PROVE  /\ IsFiniteSet(OwnPlaces(j))
         /\ OwnPlaces(j) \subseteq 1..Len(hostQueue)
         /\ \A m \in OwnPlaces(j) : Rank(j, m) \in Nat \ {0}
<1>1. Len(hostQueue) \in Nat /\ OwnPlaces(j) \subseteq 1..Len(hostQueue)
  BY DEF HostTypeOK, OwnPlaces
<1>2. IsFiniteSet(1..Len(hostQueue))
  BY <1>1, FS_Interval
<1>3. IsFiniteSet(OwnPlaces(j))
  BY <1>1, <1>2, FS_Subset
<1>4. ASSUME NEW m \in OwnPlaces(j)
      PROVE  Rank(j, m) \in Nat \ {0}
  <2>. DEFINE S == {k \in OwnPlaces(j) : k <= m}
  <2>1. IsFiniteSet(S)
    BY <1>3, FS_Subset
  <2>2. S # {}
    BY <1>1, <1>4
  <2>. HIDE DEF S
  <2>3. Cardinality(S) \in Nat /\ Cardinality(S) # 0
    BY <2>1, <2>2, FS_CardinalityType, FS_EmptySet
  <2>. QED
    BY <2>3 DEF S, Rank
<1>. QED
  BY <1>1, <1>3, <1>4

LEMMA OrderStep ==
  ASSUME OInv, OwnCount, ClientOrder, NoneLost, [Next]_vars
  PROVE  OwnCount' /\ ClientOrder'
<1>0. /\ HostTypeOK
      /\ inIndex \in [Slots -> Nat]
      /\ remote \in [Slots -> Clients \cup {NoClient}]
  BY DEF OInv, SInv, IInv, TypeOK, HostTypeOK
<1>1. OutboxKept
  BY OutboxKeptStep DEF OInv
<1>2. ASSUME NEW j \in Slots, Unechoed(j)', NEW m \in OwnPlaces(j)
      PROVE  /\ remote[j] # NoClient
             /\ Rank(j, m) <= Len(outbox[remote[j]])
             /\ hostQueue[m].data = outbox[remote[j]][Rank(j, m)].data
             /\ Rank(j, m) \in Nat \ {0}
  <2>1. Unechoed(j)
    BY <1>2, UnechoedBefore DEF OInv
  <2>. QED
    BY <1>0, <1>2, <2>1, PlacesFinite DEF ClientOrder, InOwnOrder, Rank
<1>3. ASSUME \A j \in Slots : Unechoed(j)' => \A m \in OwnPlaces(j)' :
               /\ remote'[j] # NoClient
               /\ Rank(j, m)' <= Len(outbox'[remote'[j]])
               /\ hostQueue'[m].data = outbox'[remote'[j]][Rank(j, m)'].data
      PROVE  ClientOrder'
  BY <1>3 DEF ClientOrder, InOwnOrder, Rank
<1>4. ASSUME NEW j \in Slots, Unechoed(j)', NEW m \in OwnPlaces(j),
             {k \in OwnPlaces(j)' : k <= m} = {k \in OwnPlaces(j) : k <= m},
             hostQueue'[m].data = hostQueue[m].data,
             remote[j] # NoClient => remote'[j] = remote[j]
      PROVE  /\ remote'[j] # NoClient
             /\ Rank(j, m)' <= Len(outbox'[remote'[j]])
             /\ hostQueue'[m].data = outbox'[remote'[j]][Rank(j, m)'].data
  <2>1. Rank(j, m)' = Rank(j, m)
    BY <1>4 DEF Rank
  <2>. DEFINE n == Rank(j, m)
  <2>2. /\ remote'[j] = remote[j]
        /\ remote[j] \in Clients
        /\ remote[j] # NoClient
        /\ n <= Len(outbox[remote[j]])
        /\ hostQueue[m].data = outbox[remote[j]][n].data
        /\ n \in Nat \ {0}
    BY <1>0, <1>2, <1>4
  <2>. HIDE DEF n
  <2>3. n \in 1..Len(outbox[remote[j]]) /\ n <= Len(outbox'[remote[j]])
    BY <1>1, <2>2 DEF OutboxKept
  <2>4. outbox'[remote[j]][n].data = outbox[remote[j]][n].data
    BY <1>1, <2>2, <2>3 DEF OutboxKept
  <2>. QED
    BY <1>4, <2>1, <2>2, <2>3, <2>4 DEF n
<1>5. CASE ~(Next /\ SyncMessage)
  <2>1. PlacesKept /\ UNCHANGED inIndex
    <3>1. ~SyncMessage \/ UNCHANGED vars
      BY <1>5
    <3>2. UNCHANGED vars => PlacesKept /\ UNCHANGED inIndex
      BY <1>0 DEF vars, hostVars, slotVars, PlacesKept, OwnPlaces
    <3>3. ~SyncLost
      BY DEF SyncLost, NoneLost
    <3>. QED
      BY <3>1, <3>2, <3>3, PlacesKeptStep DEF OInv
  <2>2. OwnCount'
    BY <2>1 DEF OwnCount, PlacesKept
  <2>3. \A j \in Slots : Unechoed(j)' => \A m \in OwnPlaces(j)' :
          /\ remote'[j] # NoClient
          /\ Rank(j, m)' <= Len(outbox'[remote'[j]])
          /\ hostQueue'[m].data = outbox'[remote'[j]][Rank(j, m)'].data
    BY <1>4, <2>1 DEF PlacesKept
  <2>. QED
    BY <1>3, <2>2, <2>3
<1>6. CASE Next /\ SyncMessage
  <2>. DEFINE L == Len(hostQueue)
  <2>1. PICK j \in Slots :
           /\ L \in Nat
           /\ \A k \in 1..L : hostQueue'[k] = hostQueue[k]
           /\ OwnPlaces(j)' = OwnPlaces(j) \cup {L + 1}
           /\ \A k \in Slots \ {j} : /\ OwnPlaces(k)' = OwnPlaces(k)
                                     /\ inIndex'[k] = inIndex[k]
           /\ inIndex[j] \in Nat
           /\ inIndex'[j] = inIndex[j] + 1
           /\ remote' = remote
           /\ outbox' = outbox
           /\ Unechoed(j) =>
                /\ remote[j] \in Clients
                /\ inIndex[j] < Len(outbox[remote[j]])
                /\ hostQueue'[L + 1].data
                     = outbox[remote[j]][inIndex[j] + 1].data
    BY <1>6, SyncMessageEffect
  <2>2. /\ IsFiniteSet(OwnPlaces(j))
        /\ OwnPlaces(j) \subseteq 1..L
        /\ \A k \in Slots : OwnPlaces(k) \subseteq 1..L
    BY <1>0, PlacesFinite
  <2>3. Cardinality(OwnPlaces(j) \cup {L + 1}) = inIndex[j] + 1
    <3>1. L + 1 \notin OwnPlaces(j)
      BY <2>1, <2>2
    <3>2. Cardinality(OwnPlaces(j)) = inIndex[j]
      BY DEF OwnCount
    <3>. QED
      BY <2>2, <3>1, <3>2, FS_AddElement
  <2>4. OwnCount'
    BY <2>1, <2>3 DEF OwnCount
  <2>5. ASSUME NEW k \in Slots, Unechoed(k)', NEW m \in OwnPlaces(k)
        PROVE  /\ remote'[k] # NoClient
               /\ Rank(k, m)' <= Len(outbox'[remote'[k]])
               /\ hostQueue'[m].data = outbox'[remote'[k]][Rank(k, m)'].data
    <3>1. {x \in OwnPlaces(k)' : x <= m} = {x \in OwnPlaces(k) : x <= m}
      <4>1. CASE k = j
        <5>1. ~(L + 1 <= m)
          BY <2>1, <2>2
        <5>. QED
          BY <2>1, <4>1, <5>1
      <4>2. CASE k # j
        BY <2>1, <4>2
      <4>. QED
        BY <4>1, <4>2
    <3>2. hostQueue'[m].data = hostQueue[m].data
      BY <2>1, <2>2
    <3>. QED
      BY <1>4, <2>1, <2>5, <3>1, <3>2
  <2>6. ASSUME Unechoed(j)'
        PROVE  \A m \in {L + 1} :
                 /\ remote'[j] # NoClient
                 /\ Rank(j, m)' <= Len(outbox'[remote'[j]])
                 /\ hostQueue'[m].data = outbox'[remote'[j]][Rank(j, m)'].data
    <3>0. /\ remote[j] \in Clients
          /\ inIndex[j] < Len(outbox[remote[j]])
          /\ hostQueue'[L + 1].data = outbox[remote[j]][inIndex[j] + 1].data
      BY <2>1, <2>6, UnechoedBefore DEF OInv
    <3>1. SUFFICES ASSUME NEW m, m = L + 1
                   PROVE  /\ remote'[j] # NoClient
                          /\ Rank(j, m)' <= Len(outbox'[remote'[j]])
                          /\ hostQueue'[m].data
                               = outbox'[remote'[j]][Rank(j, m)'].data
      OBVIOUS
    <3>2. {x \in OwnPlaces(j)' : x <= m} = OwnPlaces(j) \cup {L + 1}
      BY <2>1, <2>2, <3>1
    <3>3. Rank(j, m)' = inIndex[j] + 1
      BY <2>3, <3>2 DEF Rank
    <3>4. Len(outbox[remote[j]]) \in Nat
      BY <1>1, <3>0 DEF OutboxKept
    <3>. QED
      BY <2>1, <3>0, <3>1, <3>3, <3>4, HostAssumption
  <2>7. ClientOrder'
    <3>1. ASSUME NEW k \in Slots, NEW m \in OwnPlaces(k)'
          PROVE  m \in OwnPlaces(k) \/ (k = j /\ m \in {L + 1})
      BY <2>1, <3>1
    <3>2. ASSUME NEW k \in Slots, Unechoed(k)', NEW m \in OwnPlaces(k)'
          PROVE  /\ remote'[k] # NoClient
                 /\ Rank(k, m)' <= Len(outbox'[remote'[k]])
                 /\ hostQueue'[m].data = outbox'[remote'[k]][Rank(k, m)'].data
      BY <2>5, <2>6, <3>1, <3>2
    <3>. QED
      BY <1>3, <3>2
  <2>. QED
    BY <2>4, <2>7
<1>. QED
  BY <1>5, <1>6

---------------------------------------------------------------------------
LEMMA OInvInit == Init => OInv /\ ClientSubsequence /\ OwnCount /\ ClientOrder
<1>. SUFFICES ASSUME Init PROVE OInv /\ ClientSubsequence /\ OwnCount /\ ClientOrder
  OBVIOUS
<1>1. SInv
  BY SInvInit
<1>2. Uplink /\ SlotMatch /\ SlotWords
  BY DEF Init, NetInit, HostInit, Uplink, SlotMatch, Match, SlotWords, EmptyQueue
<1>3. \A j \in Slots : OwnPlaces(j) = {}
  BY DEF Init, HostInit, OwnPlaces
<1>4. ClientSubsequence
  <2>1. ASSUME NEW j \in Slots
        PROVE  [m \in {} |-> 0] \in [OwnPlaces(j) -> TakenFrom(j)]
    BY <1>3
  <2>. QED
    BY <1>3, <2>1 DEF ClientSubsequence
<1>5. OwnCount /\ ClientOrder /\ Attributed
  BY <1>3, FS_EmptySet DEF Init, HostInit, OwnCount, ClientOrder, InOwnOrder,
     Attributed
<1>. QED
  BY <1>1, <1>2, <1>4, <1>5 DEF OInv

LEMMA OInvStep == OInv /\ [Next]_vars => OInv'
<1>. SUFFICES ASSUME OInv, [Next]_vars PROVE OInv'
  OBVIOUS
<1>1. SInv /\ Uplink /\ SlotMatch
  BY DEF OInv
<1>2. SInv'
  BY <1>1, SInvStep
<1>3. Uplink'
  BY <1>1, UplinkStep
<1>4. SlotMatch'
  BY <1>1, SlotMatchStep
<1>5. SlotWords'
  BY SlotWordsStep
<1>6. Attributed'
  BY AttributedStep
<1>. QED
  BY <1>2, <1>3, <1>4, <1>5, <1>6 DEF OInv

(* Whatever packets are lost, repeated or reordered, whichever allocations *)
(* fail and however far ticks move the clock: unless an echo of a client's *)
(* message has been sent, its messages enter the mutual queue in their     *)
(* order and each at most once.                                            *)
THEOREM ClientSubsequenceHolds == Spec => []ClientSubsequence
<1>1. Init => OInv /\ ClientSubsequence
  BY OInvInit
<1>2. OInv /\ ClientSubsequence /\ [Next]_vars => (OInv /\ ClientSubsequence)'
  BY OInvStep, SubsequenceStep
<1>. QED
  BY <1>1, <1>2, PTL DEF Spec

(* If no allocation fails unnoticed either, none of them is missing: the   *)
(* n-th message of a client in the mutual queue is the n-th it queued.     *)
THEOREM ClientOrderHolds ==
  ASSUME NoneLost
  PROVE  Spec => []ClientOrder
<1>1. Init => OInv /\ OwnCount /\ ClientOrder
  BY OInvInit
<1>2. OInv /\ OwnCount /\ ClientOrder /\ [Next]_vars
        => (OInv /\ OwnCount /\ ClientOrder)'
  BY OInvStep, OrderStep
<1>. QED
  BY <1>1, <1>2, PTL DEF Spec

(* The host takes an echo for a new message only after it has synchronized *)
(* a message of that actor at time 0, or when a read past the end of a     *)
(* queue has returned what looks like one.                                 *)
THEOREM EchoCauseHolds == Spec => []EchoCause
<1>1. Init => OInv
  BY OInvInit
<1>2. OInv => EchoCause
  <2>1. SUFFICES ASSUME OInv, NEW j \in Slots, NEW p \in toHost, p.dst = j,
                        NEW ch \in Taken(p),
                        ~(/\ ch.index < Len(outbox[p.src])
                          /\ ch.data = outbox[p.src][ch.index + 1].data)
                 PROVE  \/ \E k \in 1..queueIndex : /\ hostQueue[k].actor = j
                                                     /\ hostQueue[k].time = 0
                        \/ Junk(j) # {}
    BY DEF EchoCause, Unechoed
  <2>2. /\ ch \in UpChunk(p.src, j)
        /\ ch.kind = "application"
        /\ ~Rejected(j, ch)
    BY <2>1 DEF OInv, Uplink, Taken, ApplicationChunks, RejectedChunks
  <2>3. EchoOf(j, ch)
    BY <2>1, <2>2 DEF UpChunk
  <2>. QED
    BY <2>3 DEF EchoOf
<1>. QED
  BY <1>1, <1>2, OInvStep, PTL DEF Spec

(* Echoes or not, the mutual queue says of no actor what its client did    *)
(* not queue, except what a read past the end of a queue has returned.     *)
THEOREM AttributedHolds == Spec => []Attributed
<1>1. Init => OInv
  BY OInvInit
<1>2. OInv => Attributed
  BY DEF OInv
<1>. QED
  BY <1>1, <1>2, OInvStep, PTL DEF Spec
===========================================================================
