------------------------------ MODULE Dispatch ------------------------------
(***************************************************************************)
(* A controller's calls (ConnectionPool::dispatch and collect_replies in    *)
(* crates/mcp-server/src/relay_controller.rs): a command goes to one agent  *)
(* over its direct channel or to any number of them through the relay, the  *)
(* agents execute it and reply (handle_server_message and                   *)
(* handle_udp_inbound in connection.rs for the process of a host,           *)
(* handle_message and handle_controller_udp_inbound in relay_controller.rs  *)
(* for an MCP node), and a collector counts the replies.                    *)
(*                                                                         *)
(* Commands and results are identified by their call; encryption always     *)
(* succeeds.  Frames may be lost on either path.                            *)
(***************************************************************************)
EXTENDS Naturals, Sequences, FiniteSets, SequencesExt

CONSTANTS
  Agent,     \* machines
  Daemon,    \* those run by `run`; the others are MCP nodes with an executor
  Request,   \* request ids
  Single,    \* calls with Target::Agent
  Target,    \* the agents each call addresses
  BigCall,   \* calls whose command exceeds the relay's frame limit
  BigResult, \* calls whose result does
  Observer,  \* whether the controller joined without an identity
  MaxMoves,  \* how often the room or a channel changes
  None

ASSUME DispatchAssumption ==
  Target \in [Request -> SUBSET Agent] /\ None \notin Agent /\ IsFiniteSet(Agent)

VARIABLES
  room,      \* agents registered at the relay that accept commands
  roster,    \* the controller's cached agent list
  direct,    \* agents with a direct channel ready at both ends
  moves,     \* changes of the room and the channels
  pc,        \* where dispatch is
  expected,  \* replies expected, from the cached list
  pending,   \* calls with a collector
  inbox,     \* the collector's channel
  got,       \* replies collected
  asked,     \* commands on the way to the relay
  relayed,   \* calls the relay knows the issuer of
  orders,    \* commands on the way to an agent
  replies,   \* replies on the way to the controller
  ran,       \* executions of a call by an agent (ghost)
  repeated,  \* calls whose command was repeated on the way (ghost)
  twice,     \* calls with an execution that replied on both paths (ghost)
  timed      \* calls ended by a timer (ghost)

network == <<room, roster, direct, moves>>
caller  == <<pc, expected, pending, got>>
wires   == <<asked, relayed, orders, replies>>
ghosts  == <<ran, repeated, twice, timed>>
vars    == <<network, caller, inbox, wires, ghosts>>

Phase == {"new", "send", "relay", "collect", "cleanup", "done", "refused", "dropped"}
Reply == [call: Request, from: Agent \cup {None}, ok: BOOLEAN, via: {"direct", "relay"}]
AgentOrder == [call: Request, to: Agent, via: {"direct", "relay"}]

TypeOK ==
  /\ room \subseteq Agent /\ roster \subseteq Agent /\ direct \subseteq Agent
  /\ pc \in [Request -> Phase]
  /\ expected \in [Request -> 0..Cardinality(Agent)]
  /\ pending \subseteq Request /\ asked \subseteq Request /\ relayed \subseteq Request
  /\ inbox \in [Request -> Seq(Reply)] /\ got \in [Request -> Seq(Reply)]
  /\ orders \subseteq AgentOrder /\ replies \subseteq Reply
  /\ ran \in [Request -> [Agent -> Nat]]
  /\ repeated \subseteq Request /\ twice \subseteq Request /\ timed \subseteq Request

Init ==
  /\ room \in SUBSET Agent /\ roster \in SUBSET Agent /\ direct \in SUBSET Agent
  /\ moves = 0
  /\ pc = [c \in Request |-> "new"]
  /\ expected = [c \in Request |-> 0]
  /\ pending = {} /\ asked = {} /\ relayed = {} /\ orders = {} /\ replies = {}
  /\ inbox = [c \in Request |-> <<>>] /\ got = [c \in Request |-> <<>>]
  /\ ran = [c \in Request |-> [a \in Agent |-> 0]]
  /\ repeated = {} /\ twice = {} /\ timed = {}

Goto(c, to) == pc' = [pc EXCEPT ![c] = to]

-----------------------------------------------------------------------------
(* The room, the cached list and the channels *)

(* An agent joins or leaves, a channel comes up or breaks. *)
Move(a) ==
  /\ moves < MaxMoves
  /\ moves' = moves + 1
  /\ \/ room' = (room \ {a}) \cup ({a} \ room) /\ UNCHANGED direct
     \/ direct' = (direct \ {a}) \cup ({a} \ direct) /\ UNCHANGED room
  /\ UNCHANGED <<roster, caller, inbox, wires, ghosts>>

(* handle_message: AgentList replaces the cached list, AgentJoined and AgentLeft
   bring it up to date with one agent. *)
RosterFrame ==
  /\ roster' \in {room} \cup {roster \cup {a} : a \in room} \cup {roster \cap room}
  /\ roster' # roster
  /\ UNCHANGED <<room, direct, moves, caller, inbox, wires, ghosts>>

-----------------------------------------------------------------------------
(* dispatch *)

(* The expected count comes from the cached list; the collector is registered
   before anything is sent. *)
Begin(c) ==
  /\ pc[c] = "new"
  /\ Goto(c, "send")
  /\ expected' = [expected EXCEPT ![c] = Cardinality(Target[c] \cap roster)]
  /\ pending' = pending \cup {c}
  /\ UNCHANGED <<network, got, inbox, wires, ghosts>>

(* udp_session_for and has_udp_channel: one agent, in the list, with a channel. *)
Direct(c) == c \in Single /\ Target[c] \subseteq roster \cap direct

OrdersTo(c, set, via) == {[call |-> c, to |-> a, via |-> via] : a \in set}

(* Mutant: a command sent directly goes through the relay as well. *)
SendDirectAndOn(c) ==
  /\ pc[c] = "send" /\ Direct(c)
  /\ Goto(c, "relay")
  /\ orders' = orders \cup OrdersTo(c, Target[c], "direct")
  /\ UNCHANGED <<network, expected, pending, got, inbox, asked, relayed, replies, ghosts>>

SendDirect(c) ==
  /\ pc[c] = "send" /\ Direct(c)
  /\ Goto(c, "collect")
  /\ orders' = orders \cup OrdersTo(c, Target[c], "direct")
  /\ UNCHANGED <<network, expected, pending, got, inbox, asked, relayed, replies, ghosts>>

(* send_via_udp fails and dispatch falls back to the relay; the packets it left
   in the retransmit queue may be delivered all the same. *)
SendDirectFails(c) ==
  /\ pc[c] = "send" /\ Direct(c)
  /\ Goto(c, "relay")
  /\ \/ UNCHANGED <<orders, repeated>>
     \/ /\ orders' = orders \cup OrdersTo(c, Target[c], "direct")
        /\ repeated' = repeated \cup {c}
  /\ UNCHANGED <<network, expected, pending, got, inbox, asked, relayed, replies,
                 ran, twice, timed>>

ByRelay(c) == pc[c] = "relay" \/ (pc[c] = "send" /\ ~ Direct(c))

(* Mutant: the early return leaves the collector registered. *)
RefuseKeeps(c) ==
  /\ ByRelay(c) /\ c \in BigCall
  /\ Goto(c, "refused")
  /\ UNCHANGED <<network, expected, pending, got, inbox, wires, ghosts>>

(* A command too large for the relay is refused. *)
Refuse(c) ==
  /\ ByRelay(c) /\ c \in BigCall
  /\ Goto(c, "refused")
  /\ pending' = pending \ {c}
  /\ UNCHANGED <<network, expected, got, inbox, wires, ghosts>>

SendRelay(c) ==
  /\ ByRelay(c) /\ c \notin BigCall
  /\ Goto(c, "collect")
  /\ asked' = asked \cup {c}
  /\ UNCHANGED <<network, expected, pending, got, inbox, relayed, orders, replies, ghosts>>

-----------------------------------------------------------------------------
(* The relay and the agents *)

(* handle_client_msg Command: to every target in the room, or an error back (marked  *)
(* "direct" because it always reaches the issuer, whose connection it answers on).    *)
Relay(c) ==
  /\ c \in asked
  /\ asked' = asked \ {c}
  /\ IF Target[c] \cap room = {}
       THEN /\ replies' = replies \cup
                 {[call |-> c, from |-> None, ok |-> FALSE, via |-> "direct"]}
            /\ UNCHANGED <<relayed, orders>>
       ELSE /\ relayed' = relayed \cup {c}
            /\ orders' = orders \cup OrdersTo(c, Target[c] \cap room, "relay")
            /\ UNCHANGED replies
  /\ UNCHANGED <<network, caller, inbox, ghosts>>

(* The channel delivers a one-packet message again when its ack was lost. *)
Duplicate(c, a) ==
  /\ pc[c] # "new" /\ c \notin repeated
  /\ ran[c][a] > 0 /\ a \in direct \cap Target[c] /\ c \notin relayed \cup asked
  /\ orders' = orders \cup OrdersTo(c, {a}, "direct")
  /\ repeated' = repeated \cup {c}
  /\ UNCHANGED <<network, caller, inbox, asked, relayed, replies, ran, twice, timed>>

(* A host answers a command of either path on the relay, and on the channel as well
   when it has one (an error only if the command came that way). *)
HostPaths(o, ok) ==
  {"relay"} \cup (IF o.to \in direct /\ (o.via = "direct" \/ ok) THEN {"direct"} ELSE {})

(* An MCP node answers on the path the command came by. *)
NodePaths(o) == {o.via} \ (IF o.to \in direct THEN {} ELSE {"direct"})

Paths(o, ok) == IF o.to \in Daemon THEN HostPaths(o, ok) ELSE NodePaths(o)

(* relay_safe_result: a result too large for the relay becomes an error there. *)
RepliesOf(o, ok) ==
  {[call |-> o.call, from |-> o.to, via |-> via,
    ok |-> ok /\ (via = "relay" => o.call \notin BigResult)] : via \in Paths(o, ok)}

Run(o, ok) ==
  /\ o \in orders
  /\ orders' = orders \ {o}
  /\ replies' = replies \cup RepliesOf(o, ok)
  /\ ran' = [ran EXCEPT ![o.call][o.to] = @ + 1]
  /\ twice' = IF Cardinality(Paths(o, ok)) = 2 \/ ran[o.call][o.to] > 0
                THEN twice \cup {o.call} ELSE twice
  /\ UNCHANGED <<network, caller, inbox, asked, relayed, repeated, timed>>

(* A frame is lost: a full queue, a dead link, an agent that left. *)
Lose ==
  /\ \/ \E o \in orders : orders' = orders \ {o} /\ UNCHANGED replies
     \/ \E r \in replies : replies' = replies \ {r} /\ UNCHANGED orders
  /\ UNCHANGED <<network, caller, inbox, asked, relayed, ghosts>>

(* route_to_origin: the issuer, or the observers when it is not known. *)
Reaches(r) == r.call \in relayed \/ Observer

(* A reply goes to its call's collector, if that still has one. *)
Deliver(r, reaches) ==
  /\ r \in replies
  /\ replies' = replies \ {r}
  /\ inbox' = IF reaches /\ r.call \in pending
                THEN [inbox EXCEPT ![r.call] = Append(@, r)] ELSE inbox
  /\ UNCHANGED <<network, caller, asked, relayed, orders, ghosts>>

(* handle_message CommandResult and CommandError *)
Receive(r) == r.via = "relay" /\ Deliver(r, Reaches(r))

(* handle_controller_udp_inbound Result and Error; the relay's own error as well. *)
ReceiveDirect(r) == r.via = "direct" /\ Deliver(r, TRUE)

-----------------------------------------------------------------------------
(* collect_replies *)

Enough(c) ==
  \/ c \in Single /\ Len(got[c]) >= 1
  \/ c \notin Single /\ expected[c] > 0 /\ Len(got[c]) >= expected[c]

Collect(c) ==
  /\ pc[c] = "collect"
  /\ ~ Enough(c)
  /\ inbox[c] # <<>>
  /\ got' = [got EXCEPT ![c] = Append(@, Head(inbox[c]))]
  /\ inbox' = [inbox EXCEPT ![c] = Tail(@)]
  /\ UNCHANGED <<network, pc, expected, pending, wires, ghosts>>

Finish(c) ==
  /\ pc[c] = "collect"
  /\ Enough(c)
  /\ Goto(c, "cleanup")
  /\ UNCHANGED <<network, expected, pending, got, inbox, wires, ghosts>>

(* The deadline, or the idle gap of a broadcast that has a reply. *)
GiveUp(c) ==
  /\ pc[c] = "collect"
  /\ ~ Enough(c)
  /\ inbox[c] = <<>>
  /\ Goto(c, "cleanup")
  /\ timed' = timed \cup {c}
  /\ UNCHANGED <<network, expected, pending, got, inbox, wires, ran, repeated, twice>>

Cleanup(c) ==
  /\ pc[c] = "cleanup"
  /\ Goto(c, "done")
  /\ pending' = pending \ {c}
  /\ UNCHANGED <<network, expected, got, inbox, wires, ghosts>>

(* The future is dropped at an await: its client has gone. *)
Drop(c) ==
  /\ pc[c] \in {"send", "relay", "collect", "cleanup"}
  /\ Goto(c, "dropped")
  /\ UNCHANGED <<network, expected, pending, got, inbox, wires, ghosts>>

Caller(c) ==
  \/ Begin(c) \/ SendDirect(c) \/ SendDirectFails(c) \/ Refuse(c) \/ SendRelay(c)
  \/ Collect(c) \/ Finish(c) \/ GiveUp(c) \/ Cleanup(c) \/ Drop(c)

Next ==
  \/ \E a \in Agent : Move(a)
  \/ RosterFrame
  \/ \E c \in Request : Caller(c) \/ Relay(c) \/ \E a \in Agent : Duplicate(c, a)
  \/ \E o \in orders, ok \in BOOLEAN : Run(o, ok)
  \/ Lose
  \/ \E r \in replies : Receive(r) \/ ReceiveDirect(r)

Spec == Init /\ [][Next]_vars

(* send_command_fleet: an outcome for each reply, errors among them. *)
Outcomes(c) == {got[c][i] : i \in DOMAIN got[c]}

(* The calls made so far, for the bound of a run. *)
Begun == {c \in Request : pc[c] # "new"}

-----------------------------------------------------------------------------
(* Properties *)

(* An agent executes a command once, whichever path it takes and whatever
   fails, except when the direct channel repeats it: a lost acknowledgment, or a
   send that failed and was retransmitted behind dispatch's back. *)
ExecutedOnce ==
  \A c \in Request \ repeated, a \in Agent : ran[c][a] <= 1

(* A broadcast that ends without waiting for a timer has as many different
   machines' replies as the cached list promised, as long as no machine replied
   twice (over its channel and over the relay). *)
Answered(c) == Cardinality({o.from : o \in Outcomes(c)}) >= expected[c]
Counted == \A c \in Request \ (Single \cup timed \cup twice) :
             pc[c] \in {"cleanup", "done"} => Answered(c)

(* The same without the exception: what the replies of a fleet are meant to be. *)
FleetAnswered == \A c \in Request \ (Single \cup timed) :
                   pc[c] \in {"cleanup", "done"} => Answered(c)

(* On every way out of dispatch the collector is removed; only a future that was
   dropped leaves one behind. *)
CollectorsReleased ==
  pending = {c \in Request : pc[c] \in {"send", "relay", "collect", "cleanup", "dropped"}}
=============================================================================
