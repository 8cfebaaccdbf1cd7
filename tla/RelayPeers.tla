----------------------------- MODULE RelayPeers -----------------------------
(***************************************************************************)
(* The relay composed with its peers' rosters: every run-agent keeps the    *)
(* machines of its room in AgentState.peers (crates/mcp-server/src/state.rs)*)
(* and maintains it only from the AgentList, AgentJoined and AgentLeft      *)
(* frames it is sent (handle_server_message in connection.rs).              *)
(***************************************************************************)
EXTENDS Relay

VARIABLES
  peers,     \* AgentState.peers of the process behind a session
  overlap,   \* ghost: the Rooms in which two membership changes have overlapped
  missed     \* ghost: sessions whose queue was full for a frame that tells of a change

pvars == <<vars, peers, overlap, missed>>

PInit == Init /\ peers = [s \in Session |-> {}] /\ overlap = {} /\ missed = {}

(* set_peers, upsert_peer, remove_peer *)
Absorb(cache, m) ==
  CASE m.kind = "agent_list"   -> m.hosts
    [] m.kind = "agent_joined" -> cache \cup m.hosts
    [] m.kind = "agent_left"   -> cache \ m.hosts
    [] OTHER                   -> cache

Deliver(s) ==
  /\ WriterSend(s)
  /\ peers' = [peers EXCEPT ![s] = Absorb(@, Head(outq[s]))]
  /\ UNCHANGED <<overlap, missed>>

(* A session between entering or leaving the agents map and having told its
   room so. *)
Changing(s) == pc[s] \in {"joined", "listed", "announce", "check", "left"}

(* Whom the next step of such a session tells of the change. *)
Told(s) ==
  CASE pc[s] = "listed"   -> {s}
    [] pc[s] = "announce" -> AllBut(room[s], Host[s])
    [] pc[s] = "left"     -> Members(room[s])
    [] OTHER              -> {}

(* A run-agent never asks for the list: only controllers send ListAgents. *)
Server(s) ==
  /\ ServerStep(s)
  /\ Host[s] # None => ~ ListAgents(s)
  /\ overlap' = overlap \cup {room'[x] : x \in {x \in Session : /\ Changing(x)'
       /\ \E y \in Session \ {x} : Changing(y)' /\ room'[y] = room'[x]}}
  /\ missed' = IF pc' = pc THEN missed ELSE missed \cup {x \in Told(s) : ~ Accepts(x)}
  /\ UNCHANGED peers

PNext == (\E s \in Session : Server(s) \/ Deliver(s)) \/ (Idle /\ UNCHANGED pvars)

PSpec == PInit /\ [][PNext]_pvars

(* A peer that reads, with nothing on its way to it and no change of its Room half
   done. *)
UpToDate(s) ==
  /\ pc[s] = "open" /\ Host[s] # None /\ writer[s] = "running" /\ outq[s] = <<>>
  /\ \A x \in Session : Changing(x) => room[x] # room[s]

RosterExact(s) == peers[s] = HostsIn(room[s]) \ {Host[s]}

(* Unless membership changes of its Room have overlapped, or its queue was full for a
   frame that told of one, a peer's roster is exactly the other machines of its Room
   whenever nothing is on its way: a machine with several connections is neither
   forgotten when one of them closes nor kept when the last one does. *)
QuietRoster ==
  \A s \in Session : UpToDate(s) /\ room[s] \notin overlap /\ s \notin missed => RosterExact(s)

(* The same for changes that overlap: each host knows its neighbours. *)
NeighboursKnown ==
  \A s \in Session : UpToDate(s) /\ s \notin missed => RosterExact(s)
=============================================================================
