---------------------------- MODULE MCConnections ---------------------------
(***************************************************************************)
(* How connections and processes start, last and end, for TLC: two ends     *)
(* that punch a hole (Punch), the controller's link (Supervisor), the       *)
(* agent's (AgentLoop), the relay's end of one (Relay), and what the        *)
(* processes of a machine start, know and leave behind (Processes).  They   *)
(* share no state: a behaviour of this module is one of the component that  *)
(* part names.                                                              *)
(***************************************************************************)
EXTENDS Processes, Punch, TLC

VARIABLES
  part,  \* the component that runs; the others stay as they start
  supervisor_relay, supervisor_link, supervisor_pc, supervisor_backoff,
  supervisor_queue, supervisor_inbound, supervisor_asker, supervisor_fresh,
  supervisor_owned,
  agent_net, agent_link, agent_cuts, agent_pc, agent_backoff, agent_alive,
  agent_tx, agent_held, agent_ws, agent_writer, agent_made, agent_events,
  agent_old, agent_arrived, agent_dropped,
  relay_rooms, relay_room, relay_agents, relay_mcp, relay_pending,
  relay_udpOffers, relay_caps, relay_pc, relay_snap, relay_writer, relay_outq,
  relay_issuer, relay_taken

(* A peer that may stop reading, and an observer, in one room of the relay. *)
PeerAndObserver ==
  LET Connects(host) == [name |-> "n", query |-> "t", auth |-> "t", host |-> host]
  IN  "peer" :> Connects("h") @@ "observer" :> Connects("none")
OneCap == {[accepts |-> TRUE, autonomous |-> FALSE, at |-> 0, labels |-> {}]}

Supervising == INSTANCE Supervisor WITH
  Cap <- 2, MaxInbound <- 2, MaxBackoff <- 4, relay <- supervisor_relay,
  link <- supervisor_link, pc <- supervisor_pc, backoff <- supervisor_backoff,
  queue <- supervisor_queue, inbound <- supervisor_inbound,
  asker <- supervisor_asker, fresh <- supervisor_fresh,
  owned <- supervisor_owned
Returning == INSTANCE AgentLoop WITH
  Events <- 2, TxCap <- 1, WsCap <- 1, MaxBackoff <- 2, MaxCuts <- 2,
  net <- agent_net, link <- agent_link, cuts <- agent_cuts, pc <- agent_pc,
  backoff <- agent_backoff, alive <- agent_alive, tx <- agent_tx,
  held <- agent_held, ws <- agent_ws, writer <- agent_writer,
  made <- agent_made, events <- agent_events, old <- agent_old,
  arrived <- agent_arrived, dropped <- agent_dropped
Relaying == INSTANCE Relay WITH
  Session <- {"peer", "observer"}, Agent <- {"h"}, Name <- {"n"}, Token <- {"t"},
  Conn <- PeerAndObserver, ServerToken <- "none", Caps <- OneCap, Label <- {},
  Request <- {}, Channel <- {}, Traffic <- {"ping", "notify"}, Faults <- {"stall"},
  QueueCap <- 1, None <- "none",
  rooms <- relay_rooms, room <- relay_room, agents <- relay_agents, mcp <-
  relay_mcp, pending <- relay_pending, udpOffers <- relay_udpOffers, caps <-
  relay_caps, pc <- relay_pc, snap <- relay_snap, writer <- relay_writer, outq
  <- relay_outq, issuer <- relay_issuer, taken <- relay_taken

-----------------------------------------------------------------------------
supervisorVars == <<supervisor_relay, supervisor_link, supervisor_pc, supervisor_backoff,
    supervisor_queue, supervisor_inbound, supervisor_asker, supervisor_fresh,
    supervisor_owned>>
agentVars == <<agent_net, agent_link, agent_cuts, agent_pc, agent_backoff, agent_alive,
    agent_tx, agent_held, agent_ws, agent_writer, agent_made, agent_events,
    agent_old, agent_arrived, agent_dropped>>
relayVars == <<relay_rooms, relay_room, relay_agents, relay_mcp, relay_pending,
    relay_udpOffers, relay_caps, relay_pc, relay_snap, relay_writer,
    relay_outq, relay_issuer, relay_taken>>
all == <<part, vars, punchVars, supervisorVars, agentVars, relayVars>>

AllInit ==
  /\ part \in {"punch", "supervisor", "agent", "relay", "processes"}
  /\ Init
  /\ PunchInit
  /\ Supervising!Init
  /\ Returning!Init
  /\ Relaying!Init
  /\ part # "agent" => agent_net

AllNext ==
  /\ UNCHANGED part
  /\ \/ part = "punch" /\ PunchNext /\ UNCHANGED <<vars, supervisorVars, agentVars, relayVars>>
     \/ part = "supervisor" /\ Supervising!Next /\ UNCHANGED <<vars, punchVars, agentVars, relayVars>>
     \/ part = "agent" /\ Returning!Next /\ UNCHANGED <<vars, punchVars, supervisorVars, relayVars>>
     \/ part = "relay" /\ Relaying!Next /\ UNCHANGED <<vars, punchVars, supervisorVars, agentVars>>
     \/ part = "processes" /\ Next
          /\ UNCHANGED <<punchVars, supervisorVars, agentVars, relayVars>>

Only_punch == part = "punch" /\ UNCHANGED <<part, vars, supervisorVars, agentVars, relayVars>>
Only_supervisor == part = "supervisor" /\ UNCHANGED <<part, vars, punchVars, agentVars, relayVars>>
Only_agent == part = "agent" /\ UNCHANGED <<part, vars, punchVars, supervisorVars, relayVars>>
Only_relay == part = "relay" /\ UNCHANGED <<part, vars, punchVars, supervisorVars, agentVars>>

AllFairness ==
  /\ WF_all(Only_punch /\ \E e \in End : Offer(e))
  /\ WF_all(Only_punch /\ Signal)
  /\ WF_all(Only_punch /\ Ended)
  /\ WF_all(Only_punch /\ Orphan)
  /\ WF_all(Only_supervisor /\ Supervising!Loop)
  /\ WF_all(Only_supervisor /\ (Supervising!Read \/ Supervising!NoticeCut))
  /\ WF_all(Only_agent /\ Returning!Loop)
  /\ SF_all(Only_agent /\ Returning!Dial)
  /\ SF_all(Only_agent /\ (Returning!HealthTick \/ Returning!HealthFails))
  /\ SF_all(Only_agent /\ Returning!TakeEvent)
  /\ WF_all(Only_agent /\ (Returning!Write \/ Returning!WriterDies))
  /\ WF_all(Only_agent /\ Returning!WriterDies)
  /\ WF_all(Only_agent /\ Returning!DrainOld)
  /\ \A s \in {"peer", "observer"} :
       /\ WF_all(Only_relay /\ (\/ Relaying!ListPeers(s) \/ Relaying!SendList(s)
                               \/ Relaying!Announce(s)))
       /\ WF_all(Only_relay /\ Relaying!Leaves(s))
       /\ WF_all(Only_relay /\ Relaying!WriterTimeout(s))
       /\ WF_all(Only_relay /\ Relaying!ReapWriter(s))

AllSpec == AllInit /\ [][AllNext]_all /\ AllFairness

-----------------------------------------------------------------------------
(* The properties of each component, of the behaviours that are its own; its
   module says what they are about. *)

(* Supervisor: a controller whose relay stays reachable serves its link again. *)
Recovers == part = "supervisor" => Supervising!Recovers

(* AgentLoop: an agent whose relay stays reachable is on a live link again. *)
Returns == part = "agent" => Returning!Returns

(* AgentLoop: an event is sent, unless it was taken by a link that died. *)
EventsArrive == part = "agent" => Returning!EventsArrive

(* Relay: a connection whose peer stopped reading leaves its room. *)
ZombieReaped == part = "relay" => Relaying!ZombieReaped
=============================================================================
