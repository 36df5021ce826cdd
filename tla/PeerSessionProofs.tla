------------------------- MODULE PeerSessionProofs -------------------------
(***************************************************************************)
(* Sessions: a client speaks as the actor of the slot the host gave to it, *)
(* whatever happens to requests and responses on the way.                  *)
(***************************************************************************)
EXTENDS PeerProofs

(* A session response, however late it is delivered, names a slot that     *)
(* belongs to the client it goes to.                                       *)
ResponsesTrue ==
  \A p \in toClient : \A ch \in Responses(p) :
    /\ p.src = 0
    /\ ch.actor = ch.address
    /\ remote[ch.actor] = p.dst
    /\ state[ch.actor] = "ready"

(* Only a client that is connected can have got a response. *)
AddressIsActor ==
  \A c \in Clients : /\ address[c] = actor[c]
                     /\ actor[c] # Undefined => session[c] # Undefined

SInv ==
  /\ IInv
  /\ SessionsRouted
  /\ ResponsesTrue
  /\ AddressIsActor

(* A slot that has a client keeps it, and a slot that is ready stays so. *)
LEMMA SlotsKeepClients ==
  ASSUME HostTypeOK, HostNext
  PROVE  \A j \in Slots :
           /\ remote[j] # NoClient => remote'[j] = remote[j]
           /\ state[j] = "ready" => state'[j] = "ready"
<1>1. ASSUME NEW p \in toHost, NEW j \in Slots, HostAssign(p, j)
      PROVE  \A k \in Slots :
               /\ remote[k] # NoClient => remote'[k] = remote[k]
               /\ state[k] = "ready" => state'[k] = "ready"
  BY <1>1 DEF HostAssign, Free, HostTypeOK
<1>2. CASE SendResponse
  BY <1>2 DEF SendResponse, HostTypeOK
<1>3. CASE UNCHANGED <<remote, state>>
  BY <1>3
<1>4. \/ \E p \in toHost, j \in Slots : HostAssign(p, j)
      \/ SendResponse
      \/ UNCHANGED <<remote, state>>
  BY DEF HostNext, Tick, HostOpen, HostResolve, HostQueue, HostDestroy,
         HostReceive, HostAbort, TickBegin, SyncMessage, SyncLost, SyncAbort, SyncNextSlot,
         SyncDone, SendMessages, SendFails, SendHeartbeat, SendNothing, TickEnd, slotVars
<1>. QED
  BY <1>1, <1>2, <1>3, <1>4

(* Only SendResponse makes session responses. *)
LEMMA OnlyResponses ==
  ASSUME HostTypeOK, Pending, TimeOrder, NetTypeOK, HostNext,
         NEW p \in toClient' \ toClient, NEW ch \in Responses(p)
  PROVE  /\ p.src = 0
         /\ ch.actor = ch.address
         /\ ch.actor \in Slots
         /\ remote'[ch.actor] = p.dst
         /\ state'[ch.actor] = "ready"
<1>. USE SlotsAssumption
<1>1. SendResponse \/ SendMessages \/ SendFails \/ SendHeartbeat
  BY HostLogStep
<1>2. Sending /\ cursor \in Slots
  BY <1>1 DEF SendResponse, SendMessages, SendFails, SendHeartbeat, Sending, HostTypeOK,
              Slots
<1>3. CASE SendResponse
  <2>. DEFINE response == SessionResponse(hostTime, cursor, cursor)
  <2>1. p \in Pack(0, remote[cursor], <<response>>)
    BY <1>3 DEF SendResponse, SendTo
  <2>2. <<response>> \in Seq({response})
    OBVIOUS
  <2>3. /\ p = [src |-> 0, dst |-> remote[cursor], chunks |-> p.chunks]
        /\ p.chunks \in SUBSET {response}
    <3>. HIDE DEF response
    <3>. QED
      BY <2>1, <2>2, PackType
  <2>4. p.src = 0 /\ p.dst = remote[cursor] /\ ch = response
    BY <2>3 DEF Responses
  <2>5. ch.actor = cursor /\ ch.address = cursor
    BY <2>4 DEF SessionResponse
  <2>6. remote' = remote /\ state'[cursor] = "ready"
    BY <1>2, <1>3 DEF SendResponse, HostTypeOK
  <2>. QED
    BY <1>2, <2>4, <2>5, <2>6
<1>4. ASSUME NEW src, NEW chunks,
             chunks \in Seq({x \in Chunk : x.kind # "session_response"}),
             SendTo(src, chunks)
      PROVE  FALSE
  <2>1. p \in Pack(src, remote[cursor], chunks)
    BY <1>4 DEF SendTo
  <2>2. p.chunks \in SUBSET {x \in Chunk : x.kind # "session_response"}
    BY <1>4, <2>1, PackType
  <2>. QED
    BY <2>2 DEF Responses
<1>5. /\ outIndex[cursor] \in 0..Len(hostQueue)
      /\ Len(hostQueue) \in Nat
      /\ hostTime \in Nat
  BY <1>2, HostAssumption DEF HostTypeOK
<1>. DEFINE Plain == {x \in Chunk : x.kind # "session_response"}
<1>6. \A i \in 0..(Len(hostQueue) - 1) : Application(i, HostEntries[i]) \in Plain
  <2>1. \A i \in 0..(Len(hostQueue) - 1) : HostEntries[i] \in Message
    BY <1>5 DEF HostEntries, HostTypeOK
  <2>2. \A i \in 0..(Len(hostQueue) - 1) : Application(i, HostEntries[i]) \in Chunk
    BY <1>5, <2>1, ApplicationType
  <2>. QED
    BY <2>2 DEF Application
<1>7. CASE SendMessages \/ SendFails
  <2>. DEFINE I == 0..(Len(hostQueue) - 1)
              fresh == NewIndexes(outIndex[cursor], Len(hostQueue))
  <2>1. PICK trail \in PartialTrails(outIndex[cursor]) :
          SendTo(cursor, ChunksOf(fresh \o trail, HostEntries))
    BY <1>7 DEF SendMessages, SendFails, PartialTrails
  <2>2. trail \in Seq(I)
    <3>1. trail \in Seq(0..(outIndex[cursor] - 1))
      BY <1>5, PartialTrailIndexes
    <3>. QED
      BY <1>5, <3>1, SeqMonotonic
  <2>3. fresh \o trail \in Seq(I) /\ I \in SUBSET Nat
    <3>1. fresh \in Seq(I)
      BY <1>5, NewIndexesType
    <3>. QED
      BY <1>5, <2>2, <3>1, ConcatProperties
  <2>4. ChunksOf(fresh \o trail, HostEntries) \in Seq(Plain)
    <3>. HIDE DEF fresh, Plain
    <3>. QED
      BY <1>6, <2>3, ChunksOfType
  <2>. QED
    BY <1>4, <2>1, <2>4
<1>8. CASE SendHeartbeat
  <2>. DEFINE I == 0..(outIndex[cursor] - 1)
              chunks(t) == <<Heartbeat(hostTime, 0)>>
                             \o ChunksOf(t, HostEntries)
  <2>1. PICK trail \in Trails(outIndex[cursor]) : SendTo(cursor, chunks(trail))
    BY <1>8 DEF SendHeartbeat
  <2>2. trail \in Seq(I)
    BY <1>5, TrailIndexes
  <2>3. ChunksOf(trail, HostEntries) \in Seq(Plain)
    <3>1. I \in SUBSET Nat /\ \A i \in I : i \in 0..(Len(hostQueue) - 1)
      BY <1>5
    <3>. HIDE DEF Plain
    <3>. QED
      BY <1>6, <2>2, <3>1, ChunksOfType
  <2>4. <<Heartbeat(hostTime, 0)>> \in Seq(Plain)
    BY <1>5 DEF Heartbeat, Chunk
  <2>5. chunks(trail) \in Seq(Plain)
    <3>. HIDE DEF Plain
    <3>. QED
      BY <2>3, <2>4, ConcatProperties
  <2>. HIDE DEF chunks
  <2>. QED
    BY <1>4, <2>1, <2>5
<1>. QED
  BY <1>1, <1>3, <1>7, <1>8

LEMMA SInvHostStep ==
  ASSUME SInv, HostNext, UNCHANGED clientVars
  PROVE  SInv'
<1>1. NetTypeOK /\ HostTypeOK /\ ClientTypeOK
  BY DEF SInv, IInv, TypeOK
<1>2. IInv'
  BY IInvHostStep DEF SInv
<1>3. \A j \in Slots : /\ remote[j] # NoClient => remote'[j] = remote[j]
                       /\ state[j] = "ready" => state'[j] = "ready"
  BY <1>1, SlotsKeepClients
<1>4. \A j \in Slots : state[j] = "ready" => remote[j] # NoClient
  BY <1>1 DEF HostTypeOK
<1>5. UNCHANGED <<session, address, actor>>
  BY DEF clientVars
<1>6. ResponsesTrue'
  <2>1. SUFFICES ASSUME NEW p \in toClient', NEW ch \in Responses(p)
                 PROVE  /\ p.src = 0
                        /\ ch.actor = ch.address
                        /\ remote'[ch.actor] = p.dst
                        /\ state'[ch.actor] = "ready"
    BY DEF ResponsesTrue
  <2>2. CASE p \in toClient
    <3>1. ch.actor \in Slots
      <4>1. ch \in Chunk /\ ch.kind = "session_response"
        BY <1>1, <2>2 DEF NetTypeOK, Responses
      <4>. QED
        BY <4>1 DEF Chunk, ApplicationChunk
    <3>. QED
      BY <1>3, <1>4, <2>2, <3>1 DEF SInv, ResponsesTrue
  <2>3. CASE p \notin toClient
    BY <1>1, <2>3, OnlyResponses DEF SInv, IInv
  <2>. QED
    BY <2>2, <2>3
<1>7. AddressIsActor'
  BY <1>5 DEF SInv, AddressIsActor
<1>8. SessionsRouted'
  <2>1. \A c \in Clients :
          /\ actor[c] # Undefined =>
               /\ remote'[actor[c]] = c
               /\ state'[actor[c]] = "ready"
               /\ address[c] = actor[c]
          /\ session[c] \in Slots => session[c] = actor[c]
    <3>1. \A c \in Clients : actor[c] # Undefined => actor[c] \in Slots
      BY <1>1 DEF ClientTypeOK
    <3>. QED
      BY <1>3, <1>4, <3>1 DEF SInv, SessionsRouted
  <2>2. toHost' = toHost
    BY DEF HostNext, Tick, HostOpen, HostResolve, HostQueue, HostDestroy,
         HostReceive, HostAbort, HostAssign, TickBegin, SyncMessage,
         SyncLost, SyncAbort, SyncNextSlot, SyncDone, SendResponse, SendMessages,
         SendFails, SendHeartbeat,
         SendNothing, TickEnd, netVars
  <2>3. \A p \in toHost : p.dst \in Slots => remote'[p.dst] = p.src
    <3>1. \A p \in toHost : p.src # NoClient
      BY <1>1, HostAssumption DEF NetTypeOK
    <3>. QED
      BY <1>3, <3>1 DEF SInv, SessionsRouted
  <2>. QED
    BY <1>5, <2>1, <2>2, <2>3 DEF SessionsRouted
<1>. QED
  BY <1>2, <1>6, <1>7, <1>8 DEF SInv

(* A client sends to its session only. *)
LEMMA SentToSession ==
  ASSUME NetTypeOK, ClientTypeOK, NEW c \in Clients, ClientNext(c),
         NEW p \in toHost' \ toHost
  PROVE  /\ p.src = c
         /\ p.dst = session[c]
         /\ UNCHANGED <<session, actor, address>>
<1>1. \E e \in Elapsed :
        TickSend(c, e) \/ TickSendFails(c, e) \/ TickHeartbeat(c, e)
  BY DEF ClientNext, ClientOpen, ClientConnect, ClientQueue, ClientDestroy,
         ClientResolve, ClientReceive, ClientResponse, ClientInput, ClientTick,
         TickAbort, TickQuiet, netVars
<1>2. \E chunks : ClientSend(c, chunks)
  BY <1>1 DEF TickSend, TickSendFails, TickHeartbeat
<1>3. p.src = c /\ p.dst = session[c]
  BY <1>2 DEF ClientSend, Pack
<1>. QED
  BY <1>1, <1>3 DEF TickSend, TickSendFails, TickHeartbeat

(* The ways in which a client's session and actor id can change. *)
LEMMA SessionStep ==
  ASSUME SInv, NEW c \in Clients, ClientNext(c)
  PROVE  \/ UNCHANGED <<session, actor, address>>
         \/ ClientConnect(c)
         \/ ClientResolve(c)
         \/ /\ session[c] = 0
            /\ session' = session
            /\ \E j \in Slots :
                 /\ remote[j] = c
                 /\ state[j] = "ready"
                 /\ actor' = [actor EXCEPT ![c] = j]
                 /\ address' = [address EXCEPT ![c] = j]
<1>1. ASSUME NEW p \in toClient, ClientResponse(c, p)
      PROVE  /\ session[c] = 0
             /\ session' = session
             /\ \E j \in Slots :
                  /\ remote[j] = c
                  /\ state[j] = "ready"
                  /\ actor' = [actor EXCEPT ![c] = j]
                  /\ address' = [address EXCEPT ![c] = j]
  <2>1. p.dst = c /\ p.src = session[c] /\ session' = session
    BY <1>1 DEF ClientResponse, ClientInput, Expected
  <2>2. PICK ch \in Responses(p) :
          /\ actor' = [actor EXCEPT ![c] = ch.actor]
          /\ address' = [address EXCEPT ![c] = ch.address]
    BY <1>1 DEF ClientResponse
  <2>3. /\ p.src = 0
        /\ ch.actor = ch.address
        /\ remote[ch.actor] = p.dst
        /\ state[ch.actor] = "ready"
    BY DEF SInv, ResponsesTrue
  <2>4. ch.actor \in Slots
    <3>1. ch \in Chunk /\ ch.kind = "session_response"
      BY DEF SInv, IInv, TypeOK, NetTypeOK, Responses
    <3>. QED
      BY <3>1 DEF Chunk, ApplicationChunk
  <2>. QED
    BY <2>1, <2>2, <2>3, <2>4
<1>2. \/ UNCHANGED <<session, actor, address>>
      \/ ClientConnect(c)
      \/ ClientResolve(c)
      \/ \E p \in toClient : ClientResponse(c, p)
  BY DEF ClientNext, ClientOpen, ClientQueue, ClientDestroy, ClientReceive,
         ClientInput, ClientTick, TickSend, TickSendFails, TickHeartbeat,
         TickAbort, TickQuiet
<1>. QED
  BY <1>1, <1>2

LEMMA SInvClientStep ==
  ASSUME SInv, NEW c \in Clients, ClientNext(c), UNCHANGED hostVars
  PROVE  SInv'
<1>1. NetTypeOK /\ HostTypeOK /\ ClientTypeOK
  BY DEF SInv, IInv, TypeOK
<1>2. IInv'
  BY IInvClientStep DEF SInv
<1>3. UNCHANGED <<remote, state>>
  BY DEF hostVars, slotVars
<1>4. toClient' = toClient
  BY ClientLogStep DEF SInv
<1>5. ResponsesTrue'
  BY <1>3, <1>4 DEF SInv, ResponsesTrue
<1>6. /\ AddressIsActor'
      /\ \A b \in Clients :
           /\ actor'[b] # Undefined =>
                /\ remote'[actor'[b]] = b
                /\ state'[actor'[b]] = "ready"
                /\ address'[b] = actor'[b]
           /\ session'[b] \in Slots => session'[b] = actor'[b]
  <2>0. Undefined \notin Slots /\ 0 \notin Slots /\ Undefined # 0
    BY SlotsAssumption DEF Undefined, Slots
  <2>1. CASE UNCHANGED <<session, actor, address>>
    BY <1>3, <2>1 DEF SInv, AddressIsActor, SessionsRouted
  <2>2. CASE ClientConnect(c)
    <3>1. actor[c] = Undefined /\ actor' = actor
      BY <2>2 DEF ClientConnect, SInv, AddressIsActor
    <3>2. /\ session' = [session EXCEPT ![c] = 0]
          /\ address' = [address EXCEPT ![c] = Undefined]
      BY <2>2 DEF ClientConnect
    <3>. QED
      BY <1>1, <1>3, <2>0, <3>1, <3>2
      DEF SInv, AddressIsActor, SessionsRouted, ClientTypeOK
  <2>3. CASE ClientResolve(c)
    <3>1. /\ session' = [session EXCEPT ![c] = address[c]]
          /\ UNCHANGED <<actor, address>>
          /\ address[c] # Undefined
      BY <2>3 DEF ClientResolve
    <3>. QED
      BY <1>1, <1>3, <2>0, <3>1
      DEF SInv, AddressIsActor, SessionsRouted, ClientTypeOK
  <2>4. ASSUME NEW j \in Slots, session[c] = 0, session' = session,
               remote[j] = c, state[j] = "ready",
               actor' = [actor EXCEPT ![c] = j],
               address' = [address EXCEPT ![c] = j]
        PROVE  /\ AddressIsActor'
               /\ \A b \in Clients :
                    /\ actor'[b] # Undefined =>
                         /\ remote'[actor'[b]] = b
                         /\ state'[actor'[b]] = "ready"
                         /\ address'[b] = actor'[b]
                    /\ session'[b] \in Slots => session'[b] = actor'[b]
    BY <1>1, <1>3, <2>0, <2>4
    DEF SInv, AddressIsActor, SessionsRouted, ClientTypeOK
  <2>. QED
    BY <2>1, <2>2, <2>3, <2>4, SessionStep
<1>7. ASSUME NEW p \in toHost', p.dst \in Slots
      PROVE  remote'[p.dst] = p.src
  <2>1. CASE p \in toHost
    BY <1>3, <1>7, <2>1 DEF SInv, SessionsRouted
  <2>2. CASE p \notin toHost
    <3>1. p.src = c /\ p.dst = session[c]
      BY <1>1, <2>2, SentToSession
    <3>2. session[c] = actor[c] /\ actor[c] # Undefined
      BY <1>7, <3>1, SlotsAssumption
      DEF SInv, SessionsRouted, Undefined, Slots
    <3>. QED
      BY <1>3, <3>1, <3>2 DEF SInv, SessionsRouted
  <2>. QED
    BY <2>1, <2>2
<1>. QED
  BY <1>2, <1>5, <1>6, <1>7 DEF SInv, SessionsRouted

LEMMA SInvInit == Init => SInv
BY IInvInit, SlotsAssumption
DEF Init, NetInit, ClientInit, SInv, SessionsRouted, ResponsesTrue,
    AddressIsActor, Undefined, Slots

LEMMA SInvStep == SInv /\ [Next]_vars => SInv'
<1>. SUFFICES ASSUME SInv, [Next]_vars PROVE SInv'
  OBVIOUS
<1>1. CASE HostNext /\ UNCHANGED clientVars
  BY <1>1, SInvHostStep
<1>2. ASSUME NEW c \in Clients, ClientNext(c), UNCHANGED hostVars
      PROVE  SInv'
  BY <1>2, SInvClientStep
<1>3. CASE UNCHANGED vars
  <2>1. IInv'
    BY <1>3, IInvStep DEF SInv
  <2>2. UNCHANGED <<toHost, toClient, remote, state, session, actor, address>>
    BY <1>3 DEF vars, hostVars, slotVars, clientVars, netVars
  <2>. QED
    BY <2>1, <2>2 DEF SInv, SessionsRouted, ResponsesTrue, AddressIsActor
<1>. QED
  BY <1>1, <1>2, <1>3 DEF Next

LEMMA SessionInvariance == Spec => []SInv
BY SInvInit, SInvStep, PTL DEF Spec

(* Requests, responses and their copies may be lost, repeated and          *)
(* reordered in any way: a client only ever has the actor id of a slot the *)
(* host gave to it, and only its own packets reach that slot.              *)
THEOREM SessionsRoutedHolds == Spec => []SessionsRouted
BY SessionInvariance, PTL DEF SInv

(* A client that has moved to its slot stays there with its actor id, and  *)
(* no late session response changes that.                                  *)
THEOREM SessionStickyHolds == Spec => SessionSticky
<1>1. SInv /\ [Next]_vars =>
        [\A c \in Clients : session[c] \in Slots =>
           session'[c] = session[c] /\ actor'[c] = actor[c]]_vars
  <2>. SUFFICES ASSUME SInv, Next, NEW c \in Clients, session[c] \in Slots
                PROVE  session'[c] = session[c] /\ actor'[c] = actor[c]
    OBVIOUS
  <2>0. Undefined \notin Slots /\ 0 \notin Slots
    BY SlotsAssumption DEF Undefined, Slots
  <2>1. CASE UNCHANGED clientVars
    BY <2>1 DEF clientVars
  <2>2. ASSUME NEW b \in Clients, ClientNext(b)
        PROVE  session'[c] = session[c] /\ actor'[c] = actor[c]
    <3>1. CASE ClientConnect(b)
      BY <2>0, <3>1 DEF ClientConnect, SInv, IInv, TypeOK, ClientTypeOK
    <3>2. CASE ClientResolve(b)
      BY <2>0, <3>2 DEF ClientResolve, SInv, IInv, TypeOK, ClientTypeOK,
                        AddressIsActor, SessionsRouted
    <3>3. ASSUME NEW j, session[b] = 0, session' = session,
                 actor' = [actor EXCEPT ![b] = j]
          PROVE  session'[c] = session[c] /\ actor'[c] = actor[c]
      BY <2>0, <3>3 DEF SInv, IInv, TypeOK, ClientTypeOK
    <3>. QED
      BY <2>2, <3>1, <3>2, <3>3, SessionStep
  <2>. QED
    BY <2>1, <2>2 DEF Next
<1>. QED
  BY <1>1, SessionInvariance, PTL DEF Spec, SessionSticky
===========================================================================
