---------------------------- MODULE PeerProofs ----------------------------
(***************************************************************************)
(* What is proved of PeerSystem for every value of its constants.          *)
(***************************************************************************)
EXTENDS PeerSystem, TLAPS, SequenceTheorems

(* The trail of index only holds indexes of earlier messages. *)
LEMMA TrailIndexes ==
  ASSUME NEW index \in Nat, NEW trail \in Trails(index)
  PROVE  trail \in Seq(0..(index - 1))
<1>1. TrailSize(index) \in 0..index
  BY TrailAssumption DEF TrailSize
<1>2. SerialTrail(index) \in Seq(0..(index - 1))
  <2>1. SerialTrail(index) \in [1..TrailSize(index) -> 0..(index - 1)]
    BY <1>1 DEF SerialTrail
  <2>. QED
    BY <1>1, <2>1, SeqDef
<1>3. ScatterReach(index) \in 0..index
  BY <1>1, TrailAssumption DEF ScatterReach
<1>4. ScatterCount(index) \in Nat
  BY <1>3, TrailAssumption DEF ScatterCount
<1>5. PICK s \in ScatterTrails(index) : trail = SerialTrail(index) \o s
  BY DEF Trails
<1>6. s \in Seq(0..(index - 1))
  <2>1. s \in [1..ScatterCount(index) -> 0..(index - 1)]
    BY <1>3, <1>4, <1>5 DEF ScatterTrails
  <2>. QED
    BY <1>4, <2>1, SeqDef
<1>. QED
  BY <1>2, <1>5, <1>6, ConcatProperties

LEMMA PartialTrailIndexes ==
  ASSUME NEW index \in Nat, NEW trail \in PartialTrails(index)
  PROVE  trail \in Seq(0..(index - 1))
<1>1. CASE trail \in Trails(index)
  BY <1>1, TrailIndexes
<1>2. CASE trail = <<>>
  BY <1>2
<1>3. CASE trail = SerialTrail(index)
  <2>1. TrailSize(index) \in 0..index
    BY TrailAssumption DEF TrailSize
  <2>2. SerialTrail(index) \in [1..TrailSize(index) -> 0..(index - 1)]
    BY <2>1 DEF SerialTrail
  <2>. QED
    BY <1>3, <2>1, <2>2, SeqDef
<1>. QED
  BY <1>1, <1>2, <1>3 DEF PartialTrails

LEMMA NewIndexesType ==
  ASSUME NEW size \in Nat, NEW index \in 0..size
  PROVE  NewIndexes(index, size) \in Seq(0..(size - 1))
<1>1. NewIndexes(index, size) \in [1..(size - index) -> 0..(size - 1)]
  BY DEF NewIndexes
<1>. QED
  BY <1>1, SeqDef

(* Packets are made of the chunks given to peer_pack. *)
LEMMA PackType ==
  ASSUME NEW S, NEW src, NEW dst, NEW chunks \in Seq(S),
         NEW p \in Pack(src, dst, chunks)
  PROVE  /\ p = [src |-> src, dst |-> dst, chunks |-> p.chunks]
         /\ p.chunks \in SUBSET S
<1>1. \A g : PacketChunks(chunks, g) \in SUBSET S
  BY ElementOfSeq DEF PacketChunks
<1>. QED
  BY <1>1 DEF Pack

(* queue_insert keeps what is there and only adds what it is given. *)
LEMMA QueueInsertEffect ==
  ASSUME NEW q, NEW chunks
  PROVE  /\ DOMAIN QueueInsert(q, chunks)
              = DOMAIN q \cup {ch.index : ch \in chunks}
         /\ \A i \in DOMAIN q : QueueInsert(q, chunks)[i] = q[i]
         /\ \A i \in DOMAIN QueueInsert(q, chunks) \ DOMAIN q :
              \E ch \in chunks : /\ ch.index = i
                                 /\ QueueInsert(q, chunks)[i] = Payload(ch)
<1>1. ASSUME NEW i \in DOMAIN QueueInsert(q, chunks) \ DOMAIN q
      PROVE  \E ch \in chunks : /\ ch.index = i
                                /\ QueueInsert(q, chunks)[i] = Payload(ch)
  <2>1. \E ch \in chunks : ch.index = i
    BY <1>1 DEF QueueInsert
  <2>2. LET ch == CHOOSE ch \in chunks : ch.index = i
        IN  ch \in chunks /\ ch.index = i
    BY <2>1
  <2>3. QueueInsert(q, chunks)[i] = Payload(CHOOSE ch \in chunks : ch.index = i)
    BY <1>1 DEF QueueInsert
  <2>. QED
    BY <2>2, <2>3
<1>. QED
  BY <1>1 DEF QueueInsert

---------------------------------------------------------------------------
(* Type correctness *)

LEMMA ApplicationChunksType ==
  ASSUME NEW chunks \in SUBSET Chunk, NEW ch \in ApplicationChunks(chunks)
  PROVE  /\ ch \in ApplicationChunk
         /\ ch.index \in Nat
         /\ Payload(ch) \in Message
<1>1. ch \in Chunk /\ ch.kind = "application"
  BY DEF ApplicationChunks
<1>2. ch \in ApplicationChunk
  BY <1>1 DEF Chunk
<1>. QED
  BY <1>2 DEF ApplicationChunk, Payload, Message

LEMMA QueueInsertType ==
  ASSUME NEW q, DOMAIN q \subseteq Nat, \A i \in DOMAIN q : q[i] \in Message,
         NEW all \in SUBSET Chunk,
         NEW chunks \in SUBSET ApplicationChunks(all)
  PROVE  /\ DOMAIN QueueInsert(q, chunks) \subseteq Nat
         /\ \A i \in DOMAIN QueueInsert(q, chunks) :
              QueueInsert(q, chunks)[i] \in Message
<1>1. \A ch \in chunks : ch.index \in Nat /\ Payload(ch) \in Message
  BY ApplicationChunksType
<1>2. /\ DOMAIN QueueInsert(q, chunks)
           = DOMAIN q \cup {ch.index : ch \in chunks}
      /\ \A i \in DOMAIN q : QueueInsert(q, chunks)[i] = q[i]
      /\ \A i \in DOMAIN QueueInsert(q, chunks) \ DOMAIN q :
           \E ch \in chunks : /\ ch.index = i
                              /\ QueueInsert(q, chunks)[i] = Payload(ch)
  BY QueueInsertEffect
<1>. QED
  BY <1>1, <1>2

LEMMA ChunksOfType ==
  ASSUME NEW I \in SUBSET Nat, NEW S, NEW indexes \in Seq(I), NEW entries,
         \A i \in I : Application(i, entries[i]) \in S
  PROVE  ChunksOf(indexes, entries) \in Seq(S)
<1>1. ChunksOf(indexes, entries) \in [1..Len(indexes) -> S]
  BY ElementOfSeq DEF ChunksOf
<1>. QED
  BY <1>1, SeqDef, LenProperties

LEMMA ApplicationType ==
  ASSUME NEW i \in Nat, NEW m \in Message
  PROVE  Application(i, m) \in Chunk
BY DEF Application, Message, Chunk, ApplicationChunk

(* A chunk that a client may receive at any time: it is no newer than the  *)
(* host, and a message in it is the synchronized one of its index.         *)
GoodChunk ==
  {ch \in Chunk :
     /\ ch.time <= hostTime
     /\ ch.kind = "application" =>
          ch.index < queueIndex /\ Payload(ch) = hostQueue[ch.index + 1]}

(* What the phases of peer_tick know about the messages not synchronized   *)
(* yet: in the first loop they all have the time of this tick, in the      *)
(* second there are none.                                                  *)
Pending ==
  /\ phase = "sync" => \A k \in (queueIndex + 1)..Len(hostQueue) :
                         hostQueue[k].time = hostTime
  /\ phase = "send" => queueIndex = Len(hostQueue)

(* What a tick sends to a client is good. *)
LEMMA SentIsGood ==
  ASSUME NetTypeOK, HostTypeOK, TimeOrder, Pending,
         SendResponse \/ SendMessages \/ SendFails \/ SendHeartbeat
  PROVE  \A p \in toClient' \ toClient :
           p \in [src : SlotIds, dst : Clients, chunks : SUBSET GoodChunk]
<1>. USE SlotsAssumption
<1>0. Sending /\ state[cursor] # "empty"
  BY DEF SendResponse, SendMessages, SendFails, SendHeartbeat
<1>1. cursor \in Slots /\ remote[cursor] \in Clients
  <2>1. /\ cursor \in 1..(NumSlots + 1)
        /\ opened \in 0..(NumSlots + 1)
        /\ remote \in [Slots -> Clients \cup {NoClient}]
        /\ \A j \in Slots : state[j] # "empty" => remote[j] # NoClient
    BY DEF HostTypeOK
  <2>2. cursor < opened
    BY <1>0 DEF Sending
  <2>3. cursor \in Slots
    BY <2>1, <2>2 DEF Slots
  <2>. QED
    BY <1>0, <2>1, <2>3
<1>2. /\ queueIndex = Len(hostQueue)
      /\ queueIndex \in Nat
      /\ outIndex[cursor] \in 0..queueIndex
      /\ hostTime \in Nat
  BY <1>0, <1>1 DEF Sending, HostTypeOK, Pending
<1>3. ASSUME NEW src \in SlotIds, NEW chunks \in Seq(GoodChunk),
             SendTo(src, chunks)
      PROVE  \A p \in toClient' \ toClient :
               p \in [src : SlotIds, dst : Clients, chunks : SUBSET GoodChunk]
  <2>1. SUFFICES ASSUME NEW p \in Pack(src, remote[cursor], chunks)
                 PROVE  p \in [src : SlotIds, dst : Clients,
                               chunks : SUBSET GoodChunk]
    BY <1>3 DEF SendTo
  <2>2. /\ p = [src |-> src, dst |-> remote[cursor], chunks |-> p.chunks]
        /\ p.chunks \in SUBSET GoodChunk
    BY PackType
  <2>. QED
    BY <1>1, <2>2
<1>4. \A i \in 0..(queueIndex - 1) :
        Application(i, HostEntries[i]) \in GoodChunk
  <2>1. SUFFICES ASSUME NEW i \in 0..(queueIndex - 1)
                 PROVE  Application(i, HostEntries[i]) \in GoodChunk
    OBVIOUS
  <2>2. HostEntries[i] = hostQueue[i + 1] /\ hostQueue[i + 1] \in Message
    BY <1>2 DEF HostEntries, HostTypeOK
  <2>3. hostQueue[i + 1].time <= hostTime
    BY <1>2 DEF TimeOrder
  <2>4. Application(i, HostEntries[i]) \in Chunk
    BY <2>2, ApplicationType
  <2>5. /\ Application(i, HostEntries[i]).time = hostQueue[i + 1].time
        /\ Application(i, HostEntries[i]).index = i
        /\ Payload(Application(i, HostEntries[i])) = hostQueue[i + 1]
    BY <2>2 DEF Application, Payload, Message
  <2>. QED
    BY <1>2, <2>3, <2>4, <2>5 DEF GoodChunk
<1>5. CASE SendResponse
  <2>. DEFINE chunks == <<SessionResponse(hostTime, cursor, cursor)>>
  <2>1. SessionResponse(hostTime, cursor, cursor) \in GoodChunk
    BY <1>1, <1>2 DEF SessionResponse, GoodChunk, Chunk
  <2>2. chunks \in Seq(GoodChunk)
    BY <2>1
  <2>3. SendTo(0, chunks)
    BY <1>5 DEF SendResponse
  <2>4. 0 \in SlotIds
    BY DEF SlotIds
  <2>. HIDE DEF chunks
  <2>. QED
    BY <1>3, <2>2, <2>3, <2>4
<1>6. CASE SendMessages \/ SendFails
  <2>. DEFINE I == 0..(queueIndex - 1)
              fresh == NewIndexes(outIndex[cursor], Len(hostQueue))
  <2>1. PICK trail \in PartialTrails(outIndex[cursor]) :
          SendTo(cursor, ChunksOf(fresh \o trail, HostEntries))
    BY <1>6 DEF SendMessages, SendFails, PartialTrails
  <2>2. fresh \in Seq(I)
    BY <1>2, NewIndexesType
  <2>3. trail \in Seq(I)
    <3>1. trail \in Seq(0..(outIndex[cursor] - 1))
      BY <1>2, PartialTrailIndexes
    <3>. QED
      BY <1>2, <3>1, SeqMonotonic
  <2>4. fresh \o trail \in Seq(I)
    BY <2>2, <2>3, ConcatProperties
  <2>5. ChunksOf(fresh \o trail, HostEntries) \in Seq(GoodChunk)
    <3>. HIDE DEF fresh
    <3>1. I \in SUBSET Nat
      BY <1>2
    <3>. QED
      BY <1>4, <2>4, <3>1, ChunksOfType
  <2>. QED
    BY <1>1, <1>3, <2>1, <2>5 DEF SlotIds, Slots
<1>7. CASE SendHeartbeat
  <2>. DEFINE I == 0..(outIndex[cursor] - 1)
              chunks(t) == <<Heartbeat(hostTime, 0)>>
                             \o ChunksOf(t, HostEntries)
  <2>1. PICK trail \in Trails(outIndex[cursor]) : SendTo(cursor, chunks(trail))
    BY <1>7 DEF SendHeartbeat
  <2>2. trail \in Seq(I)
    BY <1>2, TrailIndexes
  <2>3. ChunksOf(trail, HostEntries) \in Seq(GoodChunk)
    <3>1. I \in SUBSET Nat /\ \A i \in I : i \in 0..(queueIndex - 1)
      BY <1>2
    <3>. QED
      BY <1>4, <2>2, <3>1, ChunksOfType
  <2>4. <<Heartbeat(hostTime, 0)>> \in Seq(GoodChunk)
    BY <1>2 DEF Heartbeat, GoodChunk, Chunk
  <2>5. chunks(trail) \in Seq(GoodChunk)
    BY <2>3, <2>4, ConcatProperties
  <2>6. cursor \in SlotIds
    BY <1>1 DEF SlotIds, Slots
  <2>. HIDE DEF chunks
  <2>. QED
    BY <1>3, <2>1, <2>5, <2>6
<1>. QED
  BY <1>5, <1>6, <1>7

LEMMA HostTypeStep ==
  ASSUME NetTypeOK, HostTypeOK, TimeOrder, Pending, HostNext
  PROVE  NetTypeOK' /\ HostTypeOK'
<1>. USE SlotsAssumption, ClockAssumption, HostAssumption
<1>1. ASSUME NEW n \in 1..(NumSlots + 1), HostOpen(n)
      PROVE  NetTypeOK' /\ HostTypeOK'
  BY <1>1 DEF HostOpen, NetTypeOK, HostTypeOK, netVars, slotVars
<1>2. CASE HostResolve
  BY <1>2 DEF HostResolve, NetTypeOK, HostTypeOK, netVars, slotVars, SlotIds
<1>3. ASSUME NEW d \in Data, HostQueue(d)
      PROVE  NetTypeOK' /\ HostTypeOK'
  BY <1>3 DEF HostQueue, NetTypeOK, HostTypeOK, netVars, slotVars, Message
<1>4. CASE HostDestroy
  BY <1>4 DEF HostDestroy, NetTypeOK, HostTypeOK, netVars, slotVars
<1>5. ASSUME NEW p \in toHost, HostReceive(p)
      PROVE  NetTypeOK' /\ HostTypeOK'
  <2>1. p.dst \in Slots /\ p.chunks \in SUBSET Chunk
    BY <1>5 DEF HostReceive, Matched, NetTypeOK
  <2>2. DOMAIN slotQueue[p.dst] \subseteq Nat
        /\ \A i \in DOMAIN slotQueue[p.dst] : slotQueue[p.dst][i] \in Message
    BY <2>1 DEF HostTypeOK
  <2>3. /\ DOMAIN slotQueue'[p.dst] \subseteq Nat
        /\ \A i \in DOMAIN slotQueue'[p.dst] : slotQueue'[p.dst][i] \in Message
    <3>. DEFINE chunks == Taken(p)
    <3>1. slotQueue'[p.dst] = QueueInsert(slotQueue[p.dst], chunks)
      BY <1>5, <2>1 DEF HostReceive, HostTypeOK
    <3>2. chunks \in SUBSET ApplicationChunks(p.chunks)
      BY DEF Taken
    <3>. HIDE DEF chunks
    <3>. QED
      BY <2>1, <2>2, <3>1, <3>2, QueueInsertType
  <2>4. \A j \in Slots \ {p.dst} : slotQueue'[j] = slotQueue[j]
    BY <1>5 DEF HostReceive, HostTypeOK
  <2>5. DOMAIN slotQueue' = Slots
    BY <1>5 DEF HostReceive, HostTypeOK
  <2>. QED
    BY <1>5, <2>3, <2>4, <2>5 DEF HostReceive, NetTypeOK, HostTypeOK, netVars
<1>6. ASSUME NEW p \in toHost, HostAbort(p)
      PROVE  NetTypeOK' /\ HostTypeOK'
  BY <1>6 DEF HostAbort, NetTypeOK, HostTypeOK, netVars, slotVars
<1>7. ASSUME NEW p \in toHost, NEW j \in Slots, HostAssign(p, j)
      PROVE  NetTypeOK' /\ HostTypeOK'
  <2>1. p.src \in Clients
    BY DEF NetTypeOK
  <2>. QED
    BY <1>7, <2>1 DEF HostAssign, NetTypeOK, HostTypeOK, netVars
<1>8. CASE Tick
  <2>1. ASSUME NEW e \in Elapsed, TickBegin(e)
        PROVE  NetTypeOK' /\ HostTypeOK'
    <3>1. hostTime' \in 0..TimeMax
      <4>1. e \in Nat /\ hostTime \in 0..TimeMax
        BY DEF HostTypeOK
      <4>2. hostTime <= TimeMax - e /\ hostTime' = hostTime + e
        BY <2>1 DEF TickBegin, InTime
      <4>. QED
        BY <4>1, <4>2
    <3>2. hostQueue' \in Seq(Message) /\ Len(hostQueue') = Len(hostQueue)
      <4>1. \A k \in 1..Len(hostQueue) :
              hostQueue[k] \in Message
              /\ [hostQueue[k] EXCEPT !.time = hostTime'] \in Message
        <5>1. \A k \in 1..Len(hostQueue) : hostQueue[k] \in Message
          BY DEF HostTypeOK
        <5>. QED
          BY <3>1, <5>1 DEF Message
      <4>2. hostQueue' \in [1..Len(hostQueue) -> Message]
        BY <2>1, <4>1 DEF TickBegin, Stamped
      <4>3. Len(hostQueue) \in Nat
        BY DEF HostTypeOK
      <4>. QED
        BY <4>2, <4>3, SeqDef, LenProperties
    <3>3. slotClock' \in [Slots -> Int]
      <4>1. \A j \in Slots : CountDown(slotClock[j], e) \in Int
        BY DEF CountDown, HostTypeOK
      <4>. QED
        BY <2>1, <4>1 DEF TickBegin
    <3>. QED
      BY <2>1, <3>1, <3>2, <3>3 DEF TickBegin, NetTypeOK, HostTypeOK, netVars
  <2>2. CASE SyncMessage
    <3>1. cursor \in Slots
      BY <2>2 DEF SyncMessage, HostTypeOK, Slots
    <3>2. slotQueue[cursor][inIndex[cursor]] \in Message
      BY <2>2, <3>1 DEF SyncMessage, Ready, HostTypeOK
    <3>3. hostQueue' \in Seq(Message) /\ Len(hostQueue') = Len(hostQueue) + 1
      BY <2>2, <3>1, <3>2 DEF SyncMessage, HostTypeOK, Message, Slots
    <3>4. inIndex' \in [Slots -> Nat]
      BY <2>2, <3>1 DEF SyncMessage, HostTypeOK
    <3>5. UNCHANGED <<hostStatus, opened, addressed, hostTime, queueIndex,
                      state, remote, slotQueue, outIndex, slotClock, phase,
                      cursor, netVars>>
      BY <2>2 DEF SyncMessage
    <3>. QED
      BY <3>3, <3>4, <3>5 DEF NetTypeOK, HostTypeOK, netVars
  <2>6. CASE SyncLost
    <3>1. cursor \in Slots
      BY <2>6 DEF SyncLost, HostTypeOK, Slots
    <3>2. inIndex' \in [Slots -> Nat]
      BY <2>6, <3>1 DEF SyncLost, HostTypeOK
    <3>. QED
      BY <2>6, <3>2 DEF SyncLost, NetTypeOK, HostTypeOK, netVars
  <2>7. CASE SyncAbort
    BY <2>7 DEF SyncAbort, NetTypeOK, HostTypeOK, netVars, slotVars
  <2>3. CASE SyncNextSlot
    BY <2>3 DEF SyncNextSlot, NetTypeOK, HostTypeOK, netVars, slotVars
  <2>4. CASE SyncDone
    BY <2>4 DEF SyncDone, NetTypeOK, HostTypeOK, netVars, slotVars
  <2>5. CASE SendResponse \/ SendMessages \/ SendFails \/ SendHeartbeat
    <3>1. toClient' \subseteq
            [src : SlotIds, dst : Clients, chunks : SUBSET Chunk]
      BY <2>5, SentIsGood DEF GoodChunk, NetTypeOK
    <3>2. cursor \in Slots /\ cursor' \in 1..(NumSlots + 1)
      <4>1. Sending
        BY <2>5 DEF SendResponse, SendMessages, SendFails, SendHeartbeat
      <4>. QED
        BY <4>1 DEF Sending, HostTypeOK, Slots
    <3>3. slotClock' \in [Slots -> Int]
      <4>1. CASE SendResponse
        BY <4>1, <3>2 DEF SendResponse, SendTo, HostTypeOK
      <4>2. CASE SendMessages
        BY <4>2, <3>2 DEF SendMessages, SendTo, HostTypeOK
      <4>4. CASE SendFails
        BY <4>4, <3>2 DEF SendFails, SendTo, HostTypeOK
      <4>3. CASE SendHeartbeat
        BY <4>3, <3>2 DEF SendHeartbeat, SendTo, HostTypeOK
      <4>. QED
        BY <2>5, <4>1, <4>2, <4>3, <4>4
    <3>4. /\ state' \in [Slots -> {"empty", "session_request", "ready"}]
          /\ \A j \in Slots : state'[j] # "empty" => state[j] # "empty"
      BY <2>5, <3>2 DEF SendResponse, SendMessages, SendFails, SendHeartbeat, HostTypeOK
    <3>5. /\ outIndex' \in [Slots -> Nat]
          /\ \A j \in Slots : outIndex'[j] <= Len(hostQueue)
      <4>1. \/ outIndex' = outIndex
            \/ outIndex' = [outIndex EXCEPT ![cursor] = Len(hostQueue)]
        BY <2>5 DEF SendResponse, SendMessages, SendFails, SendHeartbeat
      <4>2. /\ Len(hostQueue) \in Nat
            /\ outIndex \in [Slots -> Nat]
            /\ \A j \in Slots : outIndex[j] <= Len(hostQueue)
        BY DEF HostTypeOK
      <4>. QED
        BY <3>2, <4>1, <4>2
    <3>6. UNCHANGED <<hostStatus, opened, addressed, hostTime, hostQueue,
                      queueIndex, remote, slotQueue, inIndex, phase, toHost>>
      BY <2>5 DEF SendResponse, SendMessages, SendFails, SendHeartbeat
    <3>7. NetTypeOK'
      BY <3>1, <3>6 DEF NetTypeOK
    <3>. QED
      BY <3>2, <3>3, <3>4, <3>5, <3>6, <3>7 DEF HostTypeOK
  <2>8. CASE SendNothing
    <3>1. cursor' \in 1..(NumSlots + 1)
      <4>1. /\ cursor \in 1..(NumSlots + 1)
            /\ opened \in 0..(NumSlots + 1)
        BY DEF HostTypeOK
      <4>2. cursor < opened /\ cursor' = cursor + 1
        BY <2>8 DEF SendNothing, Sending
      <4>. QED
        BY <4>1, <4>2
    <3>2. UNCHANGED <<hostStatus, opened, addressed, hostTime, hostQueue,
                      queueIndex, slotVars, phase, netVars>>
      BY <2>8 DEF SendNothing
    <3>. QED
      BY <3>1, <3>2 DEF NetTypeOK, HostTypeOK, netVars, slotVars
  <2>9. CASE TickEnd
    BY <2>9 DEF TickEnd, NetTypeOK, HostTypeOK, netVars, slotVars
  <2>. QED
    BY <1>8, <2>1, <2>2, <2>3, <2>4, <2>5, <2>6, <2>7, <2>8, <2>9 DEF Tick
<1>. QED
  BY <1>1, <1>2, <1>3, <1>4, <1>5, <1>6, <1>7, <1>8 DEF HostNext

LEMMA ClientSendType ==
  ASSUME NetTypeOK, ClientTypeOK, NEW c \in Clients,
         NEW chunks \in Seq(Chunk), ClientSend(c, chunks)
  PROVE  toHost' \subseteq [src : Clients, dst : SlotIds, chunks : SUBSET Chunk]
<1>1. CASE session[c] = Undefined
  BY <1>1 DEF ClientSend, NetTypeOK
<1>2. CASE session[c] # Undefined
  <2>1. session[c] \in SlotIds
    BY <1>2 DEF ClientTypeOK
  <2>2. ASSUME NEW p \in Pack(c, session[c], chunks)
        PROVE  p \in [src : Clients, dst : SlotIds, chunks : SUBSET Chunk]
    <3>1. /\ p = [src |-> c, dst |-> session[c], chunks |-> p.chunks]
          /\ p.chunks \in SUBSET Chunk
      BY PackType
    <3>. QED
      BY <2>1, <3>1
  <2>. QED
    BY <1>2, <2>2 DEF ClientSend, NetTypeOK
<1>. QED
  BY <1>1, <1>2

LEMMA ClientInputType ==
  ASSUME NetTypeOK, ClientTypeOK, NEW c \in Clients, NEW p \in toClient,
         ClientInput(c, p)
  PROVE  /\ p.chunks \in SUBSET Chunk
         /\ DOMAIN queue' = Clients
         /\ \A b \in Clients : /\ DOMAIN queue'[b] \subseteq Nat
                              /\ \A i \in DOMAIN queue'[b] :
                                   queue'[b][i] \in Message
         /\ time' \in [Clients -> Nat]
<1>1. p.chunks \in SUBSET Chunk
  BY DEF NetTypeOK
<1>2. /\ DOMAIN queue' = Clients
      /\ \A b \in Clients \ {c} : queue'[b] = queue[b]
      /\ queue'[c] = QueueInsert(queue[c], ApplicationChunks(p.chunks))
  BY DEF ClientInput, ClientTypeOK
<1>3. /\ DOMAIN queue[c] \subseteq Nat
      /\ \A i \in DOMAIN queue[c] : queue[c][i] \in Message
  BY DEF ClientTypeOK
<1>4. /\ DOMAIN queue'[c] \subseteq Nat
      /\ \A i \in DOMAIN queue'[c] : queue'[c][i] \in Message
  BY <1>1, <1>2, <1>3, QueueInsertType
<1>5. \A ch \in p.chunks : ch.time \in Nat
  BY <1>1 DEF Chunk, ApplicationChunk
<1>6. time' \in [Clients -> Nat]
  BY <1>5 DEF ClientInput, Times, ClientTypeOK
<1>. QED
  BY <1>1, <1>2, <1>4, <1>6 DEF ClientTypeOK

LEMMA ClientTypeStep ==
  ASSUME NetTypeOK, ClientTypeOK, NEW c \in Clients, ClientNext(c)
  PROVE  NetTypeOK' /\ ClientTypeOK'
<1>. USE SlotsAssumption, ClockAssumption, ClientAssumption
<1>1. CASE ClientOpen(c)
  BY <1>1 DEF ClientOpen, NetTypeOK, ClientTypeOK, netVars
<1>2. CASE ClientConnect(c)
  BY <1>2 DEF ClientConnect, NetTypeOK, ClientTypeOK, netVars, SlotIds
<1>3. ASSUME NEW d \in Data, ClientQueue(c, d)
      PROVE  NetTypeOK' /\ ClientTypeOK'
  <2>1. [time |-> 0, actor |-> actor[c], data |-> d] \in Message
    BY DEF ClientTypeOK, Message, Slots, Undefined
  <2>2. /\ outbox' \in [Clients -> Seq(Message)]
        /\ \A b \in Clients : Len(outbox'[b]) >= Len(outbox[b])
    BY <1>3, <2>1 DEF ClientQueue, ClientTypeOK
  <2>3. \A b \in Clients : sent[b] <= Len(outbox'[b])
    BY <2>2 DEF ClientTypeOK
  <2>4. UNCHANGED <<clientStatus, session, resolved, address, actor, sent,
                    clientClock, queue, time, netVars>>
    BY <1>3 DEF ClientQueue
  <2>. QED
    BY <2>2, <2>3, <2>4 DEF NetTypeOK, ClientTypeOK, netVars
<1>4. CASE ClientDestroy(c)
  BY <1>4 DEF ClientDestroy, NetTypeOK, ClientTypeOK, netVars
<1>5. CASE ClientResolve(c)
  BY <1>5 DEF ClientResolve, NetTypeOK, ClientTypeOK, netVars, Slots, SlotIds
<1>6. ASSUME NEW p \in toClient, ClientReceive(c, p)
      PROVE  NetTypeOK' /\ ClientTypeOK'
  <2>1. ClientInput(c, p)
    BY <1>6 DEF ClientReceive
  <2>2. UNCHANGED <<clientStatus, session, sent, clientClock, netVars,
                    resolved, address, actor, outbox>>
    BY <1>6, <2>1 DEF ClientReceive, ClientInput
  <2>. QED
    BY <2>1, <2>2, ClientInputType DEF NetTypeOK, ClientTypeOK, netVars
<1>7. ASSUME NEW p \in toClient, ClientResponse(c, p)
      PROVE  NetTypeOK' /\ ClientTypeOK'
  <2>1. ClientInput(c, p)
    BY <1>7 DEF ClientResponse
  <2>2. PICK ch \in Responses(p) :
          /\ actor' = [actor EXCEPT ![c] = ch.actor]
          /\ address' = [address EXCEPT ![c] = ch.address]
          /\ resolved' = [resolved EXCEPT ![c] = FALSE]
          /\ outbox' = [outbox EXCEPT ![c] = WithActor(@, ch.actor)]
    BY <1>7 DEF ClientResponse
  <2>3. ch.actor \in Slots /\ ch.address \in Slots
    <3>1. ch \in Chunk /\ ch.kind = "session_response"
      BY <2>1, ClientInputType DEF Responses
    <3>. QED
      BY <3>1 DEF Chunk, ApplicationChunk
  <2>4. /\ outbox' \in [Clients -> Seq(Message)]
        /\ \A b \in Clients : Len(outbox'[b]) = Len(outbox[b])
    <3>1. outbox[c] \in Seq(Message) /\ Len(outbox[c]) \in Nat
      BY DEF ClientTypeOK
    <3>2. \A k \in 1..Len(outbox[c]) :
            [outbox[c][k] EXCEPT !.actor = ch.actor] \in Message
      <4>1. \A k \in 1..Len(outbox[c]) : outbox[c][k] \in Message
        BY <3>1
      <4>. QED
        BY <2>3, <4>1 DEF Message, Slots
    <3>3. WithActor(outbox[c], ch.actor) \in [1..Len(outbox[c]) -> Message]
      BY <3>2 DEF WithActor
    <3>4. /\ WithActor(outbox[c], ch.actor) \in Seq(Message)
          /\ Len(WithActor(outbox[c], ch.actor)) = Len(outbox[c])
      BY <3>1, <3>3, SeqDef, LenProperties
    <3>. QED
      BY <2>2, <3>4 DEF ClientTypeOK
  <2>5. UNCHANGED <<clientStatus, session, sent, clientClock, netVars>>
    BY <2>1 DEF ClientInput
  <2>6. /\ actor' \in [Clients -> Slots \cup {Undefined}]
        /\ address' \in [Clients -> Slots \cup {Undefined}]
        /\ resolved' \in [Clients -> BOOLEAN]
    BY <2>2, <2>3 DEF ClientTypeOK
  <2>7. \A b \in Clients : sent'[b] <= Len(outbox'[b])
    <3>1. sent' = sent /\ \A b \in Clients : sent[b] <= Len(outbox[b])
      BY <2>5 DEF ClientTypeOK
    <3>. QED
      BY <2>4, <3>1
  <2>8. NetTypeOK'
    BY <2>5 DEF NetTypeOK, netVars
  <2>9. /\ clientStatus' \in [Clients -> {"init", "open", "down"}]
        /\ session' \in [Clients -> SlotIds \cup {Undefined}]
        /\ sent' \in [Clients -> Nat]
        /\ clientClock' \in [Clients -> Int]
    BY <2>5 DEF ClientTypeOK
  <2>10. /\ DOMAIN queue' = Clients
         /\ \A b \in Clients : /\ DOMAIN queue'[b] \subseteq Nat
                               /\ \A i \in DOMAIN queue'[b] :
                                    queue'[b][i] \in Message
         /\ time' \in [Clients -> Nat]
    BY <2>1, ClientInputType
  <2>. QED
    BY <2>4, <2>6, <2>7, <2>8, <2>9, <2>10 DEF ClientTypeOK
<1>8. ASSUME NEW e \in Elapsed, ClientTick(c, e)
      PROVE  NetTypeOK' /\ ClientTypeOK'
  <2>0. CountDown(clientClock[c], e) \in Int
    <3>1. clientClock[c] \in Int
      <4>1. clientClock \in [Clients -> Int]
        BY DEF ClientTypeOK
      <4>. QED
        BY <4>1
    <3>2. e \in Int
      OBVIOUS
    <3>. QED
      BY <3>1, <3>2 DEF CountDown
  <2>1. CASE TickSend(c, e) \/ TickSendFails(c, e)
    <3>1. PICK trail \in PartialTrails(sent[c]) :
            ClientSend(c, ChunksOf(NewIndexes(sent[c], Len(outbox[c])) \o trail,
                                   OutEntries(c)))
      BY <2>1 DEF TickSend, TickSendFails, PartialTrails
    <3>. DEFINE I == 0..(Len(outbox[c]) - 1)
                fresh == NewIndexes(sent[c], Len(outbox[c]))
    <3>2. sent[c] \in 0..Len(outbox[c]) /\ Len(outbox[c]) \in Nat
      BY DEF ClientTypeOK
    <3>3. trail \in Seq(I)
      <4>1. trail \in Seq(0..(sent[c] - 1))
        BY <3>2, PartialTrailIndexes
      <4>. QED
        BY <3>2, <4>1, SeqMonotonic
    <3>4. fresh \o trail \in Seq(I)
      BY <3>2, <3>3, NewIndexesType, ConcatProperties
    <3>5. \A i \in I : Application(i, OutEntries(c)[i]) \in Chunk
      BY <3>2, ApplicationType DEF OutEntries, ClientTypeOK
    <3>6. ChunksOf(fresh \o trail, OutEntries(c)) \in Seq(Chunk)
      <4>. HIDE DEF fresh
      <4>1. I \in SUBSET Nat
        BY <3>2
      <4>. QED
        BY <3>4, <3>5, <4>1, ChunksOfType
    <3>7. toHost' \subseteq [src : Clients, dst : SlotIds, chunks : SUBSET Chunk]
      BY <3>1, <3>6, ClientSendType
    <3>8. CASE TickSend(c, e)
      BY <2>0, <3>2, <3>7, <3>8 DEF TickSend, NetTypeOK, ClientTypeOK
    <3>9. CASE TickSendFails(c, e)
      BY <2>0, <3>2, <3>7, <3>9 DEF TickSendFails, NetTypeOK, ClientTypeOK
    <3>. QED
      BY <2>1, <3>8, <3>9
  <2>2. CASE TickHeartbeat(c, e)
    <3>1. PICK trail \in Trails(sent[c]),
               junk \in [BeyondQueue(queue[c], sent[c]) -> Garbage] :
            ClientSend(c, <<Heartbeat(0, actor[c])>>
                            \o ChunksOf(trail, TrailEntries(c, junk)))
      BY <2>2 DEF TickHeartbeat
    <3>. DEFINE I == 0..(sent[c] - 1)
                chunks == <<Heartbeat(0, actor[c])>>
                            \o ChunksOf(trail, TrailEntries(c, junk))
    <3>2. sent[c] \in Nat /\ I \in SUBSET Nat
      BY DEF ClientTypeOK
    <3>3. trail \in Seq(I)
      BY <3>2, TrailIndexes
    <3>4. \A i \in I : TrailEntries(c, junk)[i] \in Message
      <4>1. ZeroMessage \in Message
        BY DEF ZeroMessage, Message
      <4>2. \A i \in DOMAIN queue[c] : queue[c][i] \in Message
        BY DEF ClientTypeOK
      <4>3. \A i \in DOMAIN junk : junk[i] \in Message
        OBVIOUS
      <4>. QED
        BY <4>1, <4>2, <4>3 DEF TrailEntries
    <3>5. ChunksOf(trail, TrailEntries(c, junk)) \in Seq(Chunk)
      <4>1. \A i \in I : Application(i, TrailEntries(c, junk)[i]) \in Chunk
        BY <3>2, <3>4, ApplicationType
      <4>. QED
        BY <3>2, <3>3, <4>1, ChunksOfType
    <3>6. <<Heartbeat(0, actor[c])>> \in Seq(Chunk)
      BY DEF Heartbeat, Chunk, ClientTypeOK, Slots, Undefined
    <3>7. chunks \in Seq(Chunk)
      BY <3>5, <3>6, ConcatProperties
    <3>8. toHost' \subseteq [src : Clients, dst : SlotIds, chunks : SUBSET Chunk]
      <4>. HIDE DEF chunks
      <4>. QED
        BY <3>1, <3>7, ClientSendType DEF chunks
    <3>. QED
      BY <2>2, <3>8 DEF TickHeartbeat, NetTypeOK, ClientTypeOK
  <2>3. CASE TickAbort(c, e)
    BY <2>3 DEF TickAbort, NetTypeOK, ClientTypeOK, netVars
  <2>4. CASE TickQuiet(c, e)
    BY <2>0, <2>4 DEF TickQuiet, NetTypeOK, ClientTypeOK, netVars
  <2>. QED
    BY <1>8, <2>1, <2>2, <2>3, <2>4 DEF ClientTick
<1>. QED
  BY <1>1, <1>2, <1>3, <1>4, <1>5, <1>6, <1>7, <1>8 DEF ClientNext

---------------------------------------------------------------------------
(* The inductive invariant *)

IInv ==
  /\ TypeOK
  /\ Pending
  /\ TimeOrder
  /\ InFlight
  /\ Agreement

(* What one step of the host does to the log: synchronized messages stay,  *)
(* the new ones have the time of the tick, time does not run backwards.    *)
LEMMA HostLogStep ==
  ASSUME HostTypeOK, Pending, HostNext
  PROVE  /\ hostTime <= hostTime'
         /\ queueIndex <= queueIndex'
         /\ \A k \in 1..queueIndex : hostQueue'[k] = hostQueue[k]
         /\ \A k \in (queueIndex + 1)..queueIndex' :
              hostQueue'[k].time = hostTime
         /\ queueIndex' = queueIndex \/ hostTime' = hostTime
         /\ Pending'
         /\ \/ toClient' = toClient
            \/ /\ SendResponse \/ SendMessages \/ SendFails \/ SendHeartbeat
               /\ UNCHANGED <<hostTime, hostQueue, queueIndex>>
<1>. USE ClockAssumption
<1>0. /\ hostTime \in Nat
      /\ queueIndex \in Nat
      /\ Len(hostQueue) \in Nat
      /\ queueIndex <= Len(hostQueue)
  BY HostAssumption DEF HostTypeOK
<1>1. ASSUME UNCHANGED <<hostTime, hostQueue, queueIndex, phase>>
      PROVE  /\ hostTime <= hostTime'
             /\ queueIndex <= queueIndex'
             /\ \A k \in 1..queueIndex : hostQueue'[k] = hostQueue[k]
             /\ \A k \in (queueIndex + 1)..queueIndex' :
                  hostQueue'[k].time = hostTime
             /\ queueIndex' = queueIndex
             /\ Pending'
  BY <1>0, <1>1 DEF Pending
<1>2. ASSUME NEW n \in 1..(NumSlots + 1), HostOpen(n)
      PROVE  UNCHANGED <<hostTime, hostQueue, queueIndex, phase, toClient>>
  BY <1>2 DEF HostOpen, netVars
<1>3. CASE HostResolve
  BY <1>1, <1>3 DEF HostResolve, netVars
<1>4. ASSUME NEW d \in Data, HostQueue(d)
      PROVE  /\ \A k \in 1..Len(hostQueue) : hostQueue'[k] = hostQueue[k]
             /\ phase' = "idle"
             /\ UNCHANGED <<hostTime, queueIndex, toClient>>
  BY <1>4 DEF HostQueue, HostIdle, HostTypeOK, netVars
<1>5. CASE HostDestroy
  BY <1>1, <1>5 DEF HostDestroy, netVars
<1>6. ASSUME NEW p \in toHost,
             HostReceive(p) \/ HostAbort(p) \/ \E j \in Slots : HostAssign(p, j)
      PROVE  UNCHANGED <<hostTime, hostQueue, queueIndex, phase, toClient>>
  BY <1>6 DEF HostReceive, HostAbort, HostAssign, netVars
<1>7. ASSUME NEW e \in Elapsed, TickBegin(e)
      PROVE  /\ hostTime <= hostTime'
             /\ \A k \in 1..queueIndex : hostQueue'[k] = hostQueue[k]
             /\ Pending'
             /\ UNCHANGED <<queueIndex, toClient>>
  <2>1. hostTime <= hostTime' /\ UNCHANGED <<queueIndex, toClient>>
    BY <1>0, <1>7 DEF TickBegin, netVars
  <2>2. hostQueue' \in [1..Len(hostQueue) ->
          {hostQueue'[k] : k \in 1..Len(hostQueue)}]
        /\ \A k \in 1..Len(hostQueue) :
             hostQueue'[k] = IF k > queueIndex
                             THEN [hostQueue[k] EXCEPT !.time = hostTime']
                             ELSE hostQueue[k]
    BY <1>7 DEF TickBegin, Stamped
  <2>3. Len(hostQueue') = Len(hostQueue)
    BY <1>0, <2>2, SeqDef, LenProperties
  <2>4. \A k \in (queueIndex + 1)..Len(hostQueue) :
          hostQueue'[k].time = hostTime'
    <3>1. \A k \in 1..Len(hostQueue) : hostQueue[k] \in Message
      BY DEF HostTypeOK
    <3>2. \A k \in 1..Len(hostQueue) :
            [hostQueue[k] EXCEPT !.time = hostTime'].time = hostTime'
      BY <3>1 DEF Message
    <3>. TAKE k \in (queueIndex + 1)..Len(hostQueue)
    <3>3. k \in 1..Len(hostQueue) /\ k > queueIndex
      BY <1>0
    <3>4. hostQueue'[k] = [hostQueue[k] EXCEPT !.time = hostTime']
      BY <2>2, <3>3
    <3>. QED
      BY <3>2, <3>3, <3>4
  <2>5. phase' = "sync"
    BY <1>7 DEF TickBegin
  <2>. QED
    BY <1>0, <2>1, <2>2, <2>3, <2>4, <2>5 DEF Pending
<1>8. CASE SyncMessage
  <2>1. /\ Len(hostQueue') = Len(hostQueue) + 1
        /\ \A k \in 1..Len(hostQueue) : hostQueue'[k] = hostQueue[k]
        /\ hostQueue'[Len(hostQueue) + 1].time = hostTime
    BY <1>8 DEF SyncMessage, HostTypeOK
  <2>2. phase = "sync" /\ UNCHANGED <<hostTime, queueIndex, phase, toClient>>
    BY <1>8 DEF SyncMessage, netVars
  <2>3. \A k \in (queueIndex + 1)..Len(hostQueue') :
          hostQueue'[k].time = hostTime
    BY <1>0, <2>1, <2>2 DEF Pending
  <2>4. Pending'
    BY <2>2, <2>3 DEF Pending
  <2>. QED
    BY <1>0, <2>1, <2>2, <2>4
<1>9. CASE SyncDone
  BY <1>0, <1>9 DEF SyncDone, Pending, netVars
<1>10. CASE SyncLost \/ SyncNextSlot \/ SendNothing
  BY <1>1, <1>10 DEF SyncLost, SyncNextSlot, SendNothing, netVars
<1>11. CASE SendResponse \/ SendMessages \/ SendFails \/ SendHeartbeat
  <2>1. UNCHANGED <<hostTime, hostQueue, queueIndex, phase>>
    BY <1>11 DEF SendResponse, SendMessages, SendFails, SendHeartbeat
  <2>. QED
    BY <1>1, <1>11, <2>1
<1>12. CASE TickEnd \/ SyncAbort
  BY <1>0, <1>12 DEF TickEnd, SyncAbort, Pending, netVars
<1>13. ASSUME NEW d \in Data, HostQueue(d)
       PROVE  Pending'
  BY <1>4, <1>13 DEF Pending
<1>14. CASE Tick
  BY <1>0, <1>7, <1>8, <1>9, <1>10, <1>11, <1>12, <1>14 DEF Tick
<1>. QED
  BY <1>0, <1>1, <1>2, <1>3, <1>4, <1>5, <1>6, <1>13, <1>14 DEF HostNext

LEMMA IInvInit == Init => IInv
<1>. SUFFICES ASSUME Init PROVE IInv
  OBVIOUS
<1>1. NetTypeOK
  BY DEF Init, NetInit, NetTypeOK
<1>2. HostTypeOK
  BY SlotsAssumption, HostAssumption
  DEF Init, HostInit, HostTypeOK, EmptyQueue
<1>3. ClientTypeOK
  BY DEF Init, ClientInit, ClientTypeOK
<1>4. Pending /\ TimeOrder /\ InFlight /\ Agreement
  BY HostAssumption
  DEF Init, NetInit, HostInit, ClientInit, Pending, TimeOrder, InFlight,
      Agreement
<1>. QED
  BY <1>1, <1>2, <1>3, <1>4 DEF IInv, TypeOK

LEMMA IInvHostStep ==
  ASSUME IInv, HostNext, UNCHANGED clientVars
  PROVE  IInv'
<1>1. NetTypeOK /\ HostTypeOK /\ ClientTypeOK
  BY DEF IInv, TypeOK
<1>2. /\ hostTime <= hostTime'
      /\ queueIndex <= queueIndex'
      /\ \A k \in 1..queueIndex : hostQueue'[k] = hostQueue[k]
      /\ \A k \in (queueIndex + 1)..queueIndex' : hostQueue'[k].time = hostTime
      /\ Pending'
      /\ \/ toClient' = toClient
         \/ /\ SendResponse \/ SendMessages \/ SendFails \/ SendHeartbeat
            /\ UNCHANGED <<hostTime, hostQueue, queueIndex>>
  BY <1>1, HostLogStep DEF IInv
<1>3. NetTypeOK' /\ HostTypeOK'
  BY <1>1, HostTypeStep DEF IInv
<1>4. ClientTypeOK'
  BY <1>1 DEF ClientTypeOK, clientVars
<1>5. /\ hostTime \in Nat /\ hostTime' \in Nat
      /\ queueIndex \in Nat /\ queueIndex' \in Nat
      /\ \A k \in 1..queueIndex : hostQueue[k].time \in Nat
  <2>1. \A k \in 1..queueIndex : hostQueue[k] \in Message
    BY <1>1 DEF HostTypeOK
  <2>2. \A k \in 1..queueIndex : hostQueue[k].time \in Nat
    BY <2>1 DEF Message
  <2>3. hostTime \in Nat /\ hostTime' \in Nat
    BY <1>1, <1>3, HostAssumption DEF HostTypeOK
  <2>4. queueIndex \in Nat /\ queueIndex' \in Nat
    BY <1>1, <1>3 DEF HostTypeOK
  <2>. QED
    BY <2>2, <2>3, <2>4
<1>6. TimeOrder'
  <2>1. \A k \in 1..queueIndex' :
          /\ hostQueue'[k].time <= hostTime
          /\ \A m \in 1..k : hostQueue'[m].time <= hostQueue'[k].time
    <3>1. SUFFICES ASSUME NEW k \in 1..queueIndex', NEW m \in 1..k
                   PROVE  /\ hostQueue'[k].time <= hostTime
                          /\ hostQueue'[m].time <= hostQueue'[k].time
      <4>1. \A k \in 1..queueIndex' : k \in 1..k
        BY <1>5
      <4>. QED
        BY <4>1
    <3>2. CASE k <= queueIndex
      <4>1. k \in 1..queueIndex /\ m \in 1..queueIndex
        BY <1>5, <3>2
      <4>. QED
        BY <1>2, <4>1 DEF IInv, TimeOrder
    <3>3. CASE k > queueIndex
      <4>1. hostQueue'[k].time = hostTime
        BY <1>2, <1>5, <3>3
      <4>2. CASE m > queueIndex
        BY <1>2, <1>5, <4>1, <4>2
      <4>3. CASE m <= queueIndex
        <5>1. m \in 1..queueIndex
          BY <1>5, <4>3
        <5>. QED
          BY <1>2, <1>5, <4>1, <5>1 DEF IInv, TimeOrder
      <4>. QED
        BY <1>5, <4>1, <4>2, <4>3
    <3>. QED
      BY <1>5, <3>2, <3>3
  <2>2. \A k \in 1..queueIndex' : hostQueue'[k].time \in Nat
    <3>1. \A k \in 1..queueIndex' : hostQueue'[k] \in Message
      BY <1>3 DEF HostTypeOK
    <3>. QED
      BY <3>1 DEF Message
  <2>3. \A k \in 1..queueIndex' : hostQueue'[k].time <= hostTime'
    BY <1>2, <1>5, <2>1, <2>2
  <2>4. \A c \in Clients : time'[c] <= hostTime'
    <3>1. \A c \in Clients : time[c] \in Nat /\ time[c] <= hostTime
      BY <1>1 DEF IInv, TimeOrder, ClientTypeOK
    <3>2. time' = time
      BY DEF clientVars
    <3>. QED
      BY <1>2, <1>5, <3>1, <3>2
  <2>. QED
    BY <2>1, <2>3, <2>4 DEF TimeOrder
<1>7. InFlight'
  <2>1. SUFFICES ASSUME NEW p \in toClient', NEW ch \in p.chunks
                 PROVE  /\ ch.time <= hostTime'
                        /\ ch.kind = "application" =>
                             /\ ch.index < queueIndex'
                             /\ Payload(ch) = hostQueue'[ch.index + 1]
    BY DEF InFlight
  <2>2. CASE p \in toClient
    <3>1. ch \in Chunk
      BY <1>1, <2>2 DEF NetTypeOK
    <3>2. ch.time \in Nat /\ ch.time <= hostTime
      BY <2>2, <3>1 DEF IInv, InFlight, Chunk, ApplicationChunk
    <3>3. ASSUME ch.kind = "application"
          PROVE  /\ ch.index < queueIndex'
                 /\ Payload(ch) = hostQueue'[ch.index + 1]
      <4>1. ch.index \in Nat
        BY <3>1, <3>3 DEF Chunk, ApplicationChunk
      <4>2. ch.index < queueIndex /\ Payload(ch) = hostQueue[ch.index + 1]
        BY <2>2, <3>3 DEF IInv, InFlight
      <4>. QED
        BY <1>2, <1>5, <4>1, <4>2
    <3>. QED
      BY <1>2, <1>5, <3>2, <3>3
  <2>3. CASE p \notin toClient
    <3>1. /\ SendResponse \/ SendMessages \/ SendFails \/ SendHeartbeat
          /\ UNCHANGED <<hostTime, hostQueue, queueIndex>>
      BY <1>2, <2>3
    <3>2. ch \in GoodChunk
      BY <1>1, <2>3, <3>1, SentIsGood DEF IInv
    <3>. QED
      BY <3>1, <3>2 DEF GoodChunk
  <2>. QED
    BY <2>2, <2>3
<1>8. Agreement'
  <2>1. SUFFICES ASSUME NEW c \in Clients, NEW i \in DOMAIN queue[c]
                 PROVE  i < queueIndex' /\ queue[c][i] = hostQueue'[i + 1]
    BY DEF Agreement, clientVars
  <2>2. i \in Nat /\ i < queueIndex /\ queue[c][i] = hostQueue[i + 1]
    BY <1>1 DEF IInv, Agreement, ClientTypeOK
  <2>. QED
    BY <1>2, <1>5, <2>2
<1>. QED
  BY <1>2, <1>3, <1>4, <1>6, <1>7, <1>8 DEF IInv, TypeOK

(* What one step of a client adds to its mutual queue and to its time.     *)
LEMMA ClientLogStep ==
  ASSUME IInv, NEW c \in Clients, ClientNext(c)
  PROVE  /\ toClient' = toClient
         /\ DOMAIN queue' = Clients
         /\ \A b \in Clients \ {c} : queue'[b] = queue[b]
         /\ DOMAIN queue[c] \subseteq DOMAIN queue'[c]
         /\ \A i \in DOMAIN queue[c] : queue'[c][i] = queue[c][i]
         /\ \A i \in DOMAIN queue'[c] \ DOMAIN queue[c] :
              /\ i \in Nat
              /\ i < queueIndex
              /\ queue'[c][i] = hostQueue[i + 1]
         /\ \A b \in Clients : time'[b] <= hostTime
<1>0. NetTypeOK /\ ClientTypeOK /\ DOMAIN queue = Clients
  BY DEF IInv, TypeOK, ClientTypeOK
<1>1. CASE UNCHANGED <<queue, time, toClient>>
  BY <1>0, <1>1 DEF IInv, TimeOrder
<1>2. ASSUME NEW p \in toClient, ClientInput(c, p)
      PROVE  /\ toClient' = toClient
             /\ DOMAIN queue' = Clients
             /\ \A b \in Clients \ {c} : queue'[b] = queue[b]
             /\ DOMAIN queue[c] \subseteq DOMAIN queue'[c]
             /\ \A i \in DOMAIN queue[c] : queue'[c][i] = queue[c][i]
             /\ \A i \in DOMAIN queue'[c] \ DOMAIN queue[c] :
                  /\ i \in Nat
                  /\ i < queueIndex
                  /\ queue'[c][i] = hostQueue[i + 1]
             /\ \A b \in Clients : time'[b] <= hostTime
  <2>. DEFINE chunks == ApplicationChunks(p.chunks)
  <2>1. /\ toClient' = toClient
        /\ DOMAIN queue' = Clients
        /\ \A b \in Clients \ {c} : queue'[b] = queue[b]
        /\ queue'[c] = QueueInsert(queue[c], chunks)
    BY <1>0, <1>2 DEF ClientInput, netVars
  <2>2. \A ch \in chunks : /\ ch.index \in Nat
                            /\ ch.index < queueIndex
                            /\ Payload(ch) = hostQueue[ch.index + 1]
    <3>1. p.chunks \in SUBSET Chunk
      BY <1>0, <1>2 DEF NetTypeOK
    <3>2. \A ch \in chunks : ch.index \in Nat
      BY <3>1, ApplicationChunksType
    <3>3. \A ch \in chunks : ch \in p.chunks /\ ch.kind = "application"
      BY DEF ApplicationChunks
    <3>. QED
      BY <1>2, <3>2, <3>3 DEF IInv, InFlight
  <2>3. /\ DOMAIN queue'[c] = DOMAIN queue[c] \cup {ch.index : ch \in chunks}
        /\ \A i \in DOMAIN queue[c] : queue'[c][i] = queue[c][i]
        /\ \A i \in DOMAIN queue'[c] \ DOMAIN queue[c] :
             \E ch \in chunks : ch.index = i /\ queue'[c][i] = Payload(ch)
    <3>. DEFINE r == QueueInsert(queue[c], chunks)
    <3>1. /\ DOMAIN r = DOMAIN queue[c] \cup {ch.index : ch \in chunks}
          /\ \A i \in DOMAIN queue[c] : r[i] = queue[c][i]
          /\ \A i \in DOMAIN r \ DOMAIN queue[c] :
               \E ch \in chunks : ch.index = i /\ r[i] = Payload(ch)
      BY QueueInsertEffect
    <3>2. queue'[c] = r
      BY <2>1
    <3>. HIDE DEF r
    <3>. QED
      BY <3>1, <3>2
  <2>4. \A b \in Clients : time'[b] <= hostTime
    <3>1. PICK t \in Times(p) \cup {time[c]} : time' = [time EXCEPT ![c] = t]
      BY <1>2 DEF ClientInput
    <3>2. t <= hostTime
      BY <1>2, <3>1 DEF Times, IInv, InFlight, TimeOrder
    <3>. QED
      BY <1>0, <3>1, <3>2 DEF IInv, TimeOrder, ClientTypeOK
  <2>. QED
    BY <2>1, <2>2, <2>3, <2>4
<1>3. ASSUME NEW p \in toClient, ClientReceive(c, p) \/ ClientResponse(c, p)
      PROVE  ClientInput(c, p)
  BY <1>3 DEF ClientReceive, ClientResponse
<1>4. \/ UNCHANGED <<queue, time, toClient>>
      \/ \E p \in toClient : ClientReceive(c, p) \/ ClientResponse(c, p)
  BY DEF ClientNext, ClientOpen, ClientConnect, ClientQueue, ClientDestroy,
         ClientResolve, ClientTick, TickSend, TickSendFails, TickHeartbeat,
         TickAbort, TickQuiet, netVars
<1>. QED
  BY <1>1, <1>2, <1>3, <1>4

LEMMA IInvClientStep ==
  ASSUME IInv, NEW c \in Clients, ClientNext(c), UNCHANGED hostVars
  PROVE  IInv'
<1>1. NetTypeOK /\ HostTypeOK /\ ClientTypeOK
  BY DEF IInv, TypeOK
<1>2. NetTypeOK' /\ ClientTypeOK'
  BY <1>1, ClientTypeStep
<1>3. HostTypeOK' /\ Pending'
  BY <1>1 DEF IInv, HostTypeOK, Pending, hostVars, slotVars
<1>4. UNCHANGED <<hostTime, hostQueue, queueIndex>>
  BY DEF hostVars
<1>5. TimeOrder' /\ InFlight'
  BY <1>4, ClientLogStep DEF IInv, TimeOrder, InFlight
<1>6. Agreement'
  <2>1. SUFFICES ASSUME NEW b \in Clients, NEW i \in DOMAIN queue'[b]
                 PROVE  i < queueIndex /\ queue'[b][i] = hostQueue[i + 1]
    BY <1>4 DEF Agreement
  <2>2. CASE b # c
    BY <2>2, ClientLogStep DEF IInv, Agreement
  <2>3. CASE b = c /\ i \in DOMAIN queue[c]
    BY <2>3, ClientLogStep DEF IInv, Agreement
  <2>4. CASE b = c /\ i \notin DOMAIN queue[c]
    BY <2>4, ClientLogStep
  <2>. QED
    BY <2>2, <2>3, <2>4
<1>. QED
  BY <1>2, <1>3, <1>5, <1>6 DEF IInv, TypeOK

LEMMA IInvStep == IInv /\ [Next]_vars => IInv'
<1>. SUFFICES ASSUME IInv, [Next]_vars PROVE IInv'
  OBVIOUS
<1>1. CASE HostNext /\ UNCHANGED clientVars
  BY <1>1, IInvHostStep
<1>2. ASSUME NEW c \in Clients, ClientNext(c), UNCHANGED hostVars
      PROVE  IInv'
  BY <1>2, IInvClientStep
<1>3. CASE UNCHANGED vars
  BY <1>3 DEF vars, hostVars, slotVars, clientVars, netVars, IInv, TypeOK,
     NetTypeOK, HostTypeOK, ClientTypeOK, Pending, TimeOrder, InFlight,
     Agreement
<1>. QED
  BY <1>1, <1>2, <1>3 DEF Next

LEMMA Invariance == Spec => []IInv
BY IInvInit, IInvStep, PTL DEF Spec

(* The host, the clients and the network always have their types, and an   *)
(* out_index never passes the end of its queue.                            *)
THEOREM TypeCorrect == Spec => []TypeOK
BY Invariance, PTL DEF IInv

(* Every message of a client's mutual queue is the one the host            *)
(* synchronized at that index: loss, repetition and reordering of packets  *)
(* cannot make two peers disagree on the order of messages.                *)
THEOREM AgreementHolds == Spec => []Agreement
BY Invariance, PTL DEF IInv

(* The mutual queue is ordered by time and no client is ahead of the host. *)
THEOREM TimeOrderHolds == Spec => []TimeOrder
BY Invariance, PTL DEF IInv

(* A packet that may still be delivered to a client never says anything    *)
(* the host's synchronized queue does not say.                             *)
THEOREM InFlightHolds == Spec => []InFlight
BY Invariance, PTL DEF IInv

---------------------------------------------------------------------------
(* Refinement *)

(* The mapped log has queueIndex entries, those of the host's queue. *)
LEMMA LogEntries ==
  ASSUME NEW q \in Seq(Message), NEW n \in 0..Len(q)
  PROVE  /\ SubSeq(q, 1, n) \in Seq(Message)
         /\ Len(SubSeq(q, 1, n)) = n
         /\ \A k \in 1..n : SubSeq(q, 1, n)[k] = q[k]
OBVIOUS

LEMMA HostStepRefines ==
  ASSUME IInv, HostNext, UNCHANGED clientVars
  PROVE  [Log!LogNext]_(Log!logVars)
<1>. DEFINE log == SubSeq(hostQueue, 1, queueIndex)
<1>1. HostTypeOK /\ HostTypeOK'
  BY IInvHostStep DEF IInv, TypeOK
<1>2. /\ hostTime <= hostTime'
      /\ queueIndex <= queueIndex'
      /\ \A k \in 1..queueIndex : hostQueue'[k] = hostQueue[k]
      /\ \A k \in (queueIndex + 1)..queueIndex' : hostQueue'[k].time = hostTime
      /\ queueIndex' = queueIndex \/ hostTime' = hostTime
  BY <1>1, HostLogStep DEF IInv
<1>3. /\ log \in Seq(Message) /\ log' \in Seq(Message)
      /\ Len(log) = queueIndex /\ Len(log') = queueIndex'
      /\ \A k \in 1..queueIndex : log[k] = hostQueue[k]
      /\ \A k \in 1..queueIndex' : log'[k] = hostQueue'[k]
      /\ queueIndex \in Nat /\ queueIndex' \in Nat
      /\ hostTime \in Nat /\ hostTime' \in Nat
  <2>1. /\ hostQueue \in Seq(Message) /\ hostQueue' \in Seq(Message)
        /\ queueIndex \in 0..Len(hostQueue)
        /\ queueIndex' \in 0..Len(hostQueue')
        /\ queueIndex \in Nat /\ queueIndex' \in Nat
        /\ hostTime \in Nat /\ hostTime' \in Nat
    BY <1>1, HostAssumption DEF HostTypeOK
  <2>2. /\ log \in Seq(Message)
        /\ Len(log) = queueIndex
        /\ \A k \in 1..queueIndex : log[k] = hostQueue[k]
    BY <2>1, LogEntries
  <2>3. /\ log' \in Seq(Message)
        /\ Len(log') = queueIndex'
        /\ \A k \in 1..queueIndex' : log'[k] = hostQueue'[k]
    BY <2>1, LogEntries
  <2>. QED
    BY <2>1, <2>2, <2>3
<1>4. queue' = queue
  BY DEF clientVars
<1>. HIDE DEF log
<1>5. CASE queueIndex' = queueIndex
  <2>1. log' = log
    BY <1>2, <1>3, <1>5, SeqEqual
  <2>. QED
    BY <1>2, <1>3, <1>4, <2>1 DEF Log!LogNext, Log!Advance, log
<1>6. CASE hostTime' = hostTime
  <2>1. /\ Len(log') >= Len(log)
        /\ \A k \in 1..Len(log) : log'[k] = log[k]
        /\ \A k \in (Len(log) + 1)..Len(log') : log'[k].time = hostTime
    BY <1>2, <1>3
  <2>. QED
    BY <1>4, <1>6, <2>1 DEF Log!LogNext, Log!Commit, log
<1>. QED
  BY <1>2, <1>5, <1>6

LEMMA ClientStepRefines ==
  ASSUME IInv, NEW c \in Clients, ClientNext(c), UNCHANGED hostVars
  PROVE  [Log!LogNext]_(Log!logVars)
<1>. DEFINE log == SubSeq(hostQueue, 1, queueIndex)
<1>1. /\ Len(log) = queueIndex
      /\ queueIndex \in Nat
      /\ \A k \in 1..queueIndex : log[k] = hostQueue[k]
  BY LogEntries DEF IInv, TypeOK, HostTypeOK
<1>2. log' = log /\ hostTime' = hostTime
  BY DEF hostVars
<1>. HIDE DEF log
<1>3. /\ DOMAIN queue' = Clients
      /\ \A b \in Clients \ {c} : queue'[b] = queue[b]
      /\ DOMAIN queue[c] \subseteq DOMAIN queue'[c]
      /\ \A i \in DOMAIN queue[c] : queue'[c][i] = queue[c][i]
  BY ClientLogStep
<1>4. ASSUME NEW i \in DOMAIN queue'[c] \ DOMAIN queue[c]
      PROVE  i \in 0..(Len(log) - 1) /\ queue'[c][i] = log[i + 1]
  <2>1. i \in Nat /\ i < queueIndex /\ queue'[c][i] = hostQueue[i + 1]
    BY ClientLogStep
  <2>. QED
    BY <1>1, <2>1
<1>. QED
  BY <1>2, <1>3, <1>4 DEF Log!LogNext, Log!Learn, log

(* The peers implement the mutual log. *)
THEOREM Refinement == Spec => ImplementsMutualLog
<1>1. Init => Log!LogInit
  BY DEF Init, HostInit, ClientInit, Log!LogInit
<1>2. IInv /\ [Next]_vars => [Log!LogNext]_(Log!logVars)
  <2>. SUFFICES ASSUME IInv, [Next]_vars PROVE [Log!LogNext]_(Log!logVars)
    OBVIOUS
  <2>1. CASE HostNext /\ UNCHANGED clientVars
    BY <2>1, HostStepRefines
  <2>2. ASSUME NEW c \in Clients, ClientNext(c), UNCHANGED hostVars
        PROVE  [Log!LogNext]_(Log!logVars)
    BY <2>2, ClientStepRefines
  <2>3. CASE UNCHANGED vars
    BY <2>3 DEF vars, hostVars, clientVars, Log!logVars
  <2>. QED
    BY <2>1, <2>2, <2>3 DEF Next
<1>. QED
  BY <1>1, <1>2, Invariance, PTL DEF Spec, ImplementsMutualLog, Log!LogSpec
===========================================================================
