----------------------------- MODULE PeerLossy -----------------------------
(***************************************************************************)
(* The peers over a network that also loses packets for good, and what has *)
(* to happen in the end.  In PeerSystem a packet stays in the network and  *)
(* only fails to be received; here it may also be gone, so that whether a  *)
(* message is sent again matters.                                          *)
(*                                                                         *)
(* Meant for instances in which ticks take no time and a heartbeat is due  *)
(* in each (Elapsed = {0}, Timeout = 0): the state is then finite though   *)
(* applications tick for ever.                                             *)
(***************************************************************************)
EXTENDS PeerSystem

Lose ==
  /\ phase = "idle"
  /\ \/ \E p \in toHost   : toHost' = toHost \ {p} /\ UNCHANGED toClient
     \/ \E p \in toClient : toClient' = toClient \ {p} /\ UNCHANGED toHost
  /\ UNCHANGED <<hostVars, clientVars>>

LossyNext == Next \/ Lose

Carries(p, i) ==
  \E ch \in p.chunks : ch.kind = "application" /\ ch.index = i

(* Message i of the mutual queue arrives at c; message i of c at the host. *)
Downlink(c, i) ==
  /\ phase = "idle"
  /\ \E p \in toClient : Carries(p, i) /\ ClientReceive(c, p)
  /\ UNCHANGED hostVars

Uplink(c, i) ==
  /\ \E p \in toHost : p.src = c /\ Carries(p, i) /\ HostReceive(p)
  /\ UNCHANGED clientVars

ClientSteps(c) ==
  /\ phase = "idle"
  /\ ClientResolve(c) \/ \E e \in Elapsed : ClientTick(c, e)
  /\ UNCHANGED hostVars

(* Applications call peer_tick again and again, and a message that is sent *)
(* again and again arrives.  A tick of the host is atomic in the program:  *)
(* what waits for its end is enabled again and again, hence the strong     *)
(* fairness of the rest.                                                   *)
Fairness ==
  /\ WF_vars(Tick /\ UNCHANGED clientVars)
  /\ \A c \in Clients :
       /\ SF_vars(ClientSteps(c))
       /\ \A i \in 0..(MaxQueue + MaxOut - 1) : SF_vars(Downlink(c, i))
       /\ \A i \in 0..(MaxOut - 1) : SF_vars(Uplink(c, i))

LossySpec == Init /\ [][LossyNext]_vars /\ Fairness

---------------------------------------------------------------------------
Down(c) == hostStatus = "down" \/ clientStatus[c] = "down"

(* What a trail that ends at the end of the mutual queue is sure to hold. *)
Recent(i) == i < queueIndex /\ i >= queueIndex - TrailSize(queueIndex)

(* "Those packets should contain recent messages alongside with the        *)
(* heartbeat message": whatever is lost, a client with a session comes to  *)
(* have each recent message, also one synchronized before it joined,       *)
(* unless so many follow that it is no longer recent.                      *)
RecentDelivered ==
  \A c \in Clients, i \in 0..(MaxQueue + MaxOut - 1) :
    session[c] \in Slots /\ Recent(i)
      ~> i \in DOMAIN queue[c] \/ ~Recent(i) \/ Down(c)
---------------------------------------------------------------------------
(* Stated by the code, and not so. *)

(* "Number of recent messages to resend": a message that a client with a   *)
(* session has sent is received by the host in the end.                    *)
ClientMessagesResent ==
  \A c \in Clients, i \in 0..(MaxOut - 1) :
    session[c] \in Slots /\ i < sent[c]
      ~> Down(c) \/ \E j \in Slots : remote[j] = c /\ i \in DOMAIN slotQueue[j]

===========================================================================
