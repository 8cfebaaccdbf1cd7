------------------------------- MODULE Relay -------------------------------
(***************************************************************************)
(* The self-hosted relay (crates/relay): rooms keyed by name and token, the *)
(* life of every WebSocket connection, and the routing of what it sends.    *)
(*                                                                         *)
(* Each connection is driven by its own task (handle_socket) plus a writer  *)
(* task that drains its bounded outbound queue.  Tasks run concurrently and *)
(* share only the DashMaps, so a step of this model is one operation on one *)
(* map, or one handler whose map accesses do not span an await.  A Room     *)
(* value (an Arc<Room>) is named by the session whose state.room() call     *)
(* created it: an Arc that has been dropped from the `rooms` map lives on    *)
(* for the sessions that still hold it.                                     *)
(***************************************************************************)
EXTENDS Naturals, Sequences, FiniteSets, Routing

CONSTANTS
  Session,      \* the connections of this run, each used once
  Agent,        \* machine identities (AgentInfo.id)
  Name, Token,  \* room names and tokens
  Conn,         \* what each connection presents: name, query, auth, host
  ServerToken,  \* the relay's --token, or None
  Caps,         \* the capabilities a peer may announce
  Label,        \* tags and OS families
  Request,      \* request ids (uuids: each is issued once)
  Channel,      \* UDP channel ids (uuids)
  Traffic,      \* the kinds of client frames peers send in this instance
  Faults,       \* what may go wrong with a socket write in this instance
  QueueCap,     \* OUTBOUND_CAP
  None

Id == Request \cup Channel

(* A client frame of each kind that handle_client_msg treats differently. *)
TrafficKinds == {"list_agents", "command", "reply", "notify", "udp_offer",
                 "udp_answer", "udp_result", "ping", "update_agent"}

ASSUME ConnType ==
  Conn \in [Session -> [name: Name, query: Token, auth: Token,
                        host: Agent \cup {None}]]
ASSUME ServerTokenType == ServerToken \in Token \cup {None}
ASSUME CapsType ==
  /\ Caps \subseteq [accepts: BOOLEAN, autonomous: BOOLEAN, at: Nat, labels: SUBSET Label]
  /\ Caps # {}
ASSUME TrafficType == Traffic \subseteq TrafficKinds
ASSUME FaultsType == Faults \subseteq {"write_error", "stall"}
ASSUME QueueCapType == QueueCap \in Nat \ {0}
ASSUME IdsDisjoint == Request \cap Channel = {}
ASSUME NoneFresh ==
  None \notin Session \cup Agent \cup Token \cup Request \cup Channel \cup Label

VARIABLES
  rooms,      \* RelayState.rooms: key -> Room, or None
  room,       \* the Arc<Room> a session's task holds
  agents,     \* Room.agents: the sessions registered as peers
  mcp,        \* Room.mcp: the sessions registered as observers
  pending,    \* Room.pending: request id -> originating session
  udpOffers,  \* Room.udp_offers: channel id -> offering session
  caps,       \* AgentSession.info of a session
  pc,         \* where handle_socket is
  snap,       \* the peer list computed by dedup_agents, not yet queued
  writer,     \* the writer task of a session
  outq,       \* its outbound channel
  issuer,     \* which session issued an id (ghost: freshness of uuids)
  taken       \* the sessions a command or an offer was written to

vars == <<rooms, room, agents, mcp, pending, udpOffers, caps, pc, snap, writer,
          outq, issuer, taken>>

registry == <<rooms, room, agents, mcp>>
tables   == <<pending, udpOffers>>
history  == <<issuer, taken>>

-----------------------------------------------------------------------------
Host == [s \in Session |-> Conn[s].host]

(* Mutant: the key of a room forgets the token. *)
RoomKeyNameOnly(name, token) == <<name, CHOOSE t \in Token : TRUE>>

(* room_key: SHA-256 over name and token, taken to be injective. *)
RoomKey(name, token) == <<name, token>>
Key == Name \X Token
KeyOf(s) == RoomKey(Conn[s].name, Conn[s].query)

(* A frame of the outbound channel: what kind it is, the session that caused
   it, the request or channel it is about, and the machines it names. *)
FrameKinds == {"your_endpoint", "agent_list", "agent_joined", "agent_left",
               "command", "command_error", "reply", "event", "udp_offer",
               "udp_answer", "udp_result", "pong"}
Frame == [kind: FrameKinds, from: Session, id: Id \cup {None}, hosts: SUBSET Agent]
Msg(k, s, i, h) == [kind |-> k, from |-> s, id |-> i, hosts |-> h]

Members(o) == agents[o] \cup mcp[o]

(* Whether a session is still in a map of its Room (its clean-up has not
   reached the remove). *)
Registered(s) == room[s] # None /\ s \in Members(room[s])

(* send_raw / try_send: queued if the receiving task still owns the channel and
   there is space, otherwise dropped. *)
Accepts(x) == writer[x] \in {"running", "stuck"} /\ Len(outq[x]) < QueueCap
Send(S, m) ==
  outq' = [x \in Session |-> IF x \in S /\ Accepts(x) THEN Append(outq[x], m) ELSE outq[x]]

(* Everyone an AgentJoined about machine h goes to: broadcast_mcp, then
   broadcast_agents skipping every connection of h. *)
AllBut(o, h) == mcp[o] \cup {x \in agents[o] : Host[x] # h}

(* Mutant: a relay-wide lookup instead of one in the sender's room. *)
FindSessionAnywhere(o, s) == {s}

(* find_session_tx *)
FindSession(o, s) == {s} \cap Members(o)

(* dedup_agents, reduced to the machines it lists. *)
HostsIn(o) == {Host[x] : x \in agents[o]}

TypeOK ==
  /\ rooms \in [Key -> Session \cup {None}]
  /\ room \in [Session -> Session \cup {None}]
  /\ agents \in [Session -> SUBSET Session]
  /\ mcp \in [Session -> SUBSET Session]
  /\ pending \in [Session -> [Request -> Session \cup {None}]]
  /\ udpOffers \in [Session -> [Channel -> Session \cup {None}]]
  /\ caps \in [Session -> Caps]
  /\ pc \in [Session -> {"init", "rejected", "auth", "dropped", "joined", "listed",
                         "announce", "open", "leave", "check", "left", "retain",
                         "gc", "done"}]
  /\ snap \in [Session -> SUBSET Agent]
  /\ writer \in [Session -> {"none", "running", "stuck", "ended"}]
  /\ outq \in [Session -> Seq(Frame)] /\ \A s \in Session : Len(outq[s]) <= QueueCap
  /\ issuer \in [Id -> Session \cup {None}]
  /\ taken \in [Id -> SUBSET Session]

Init ==
  /\ rooms = [k \in Key |-> None]
  /\ room = [s \in Session |-> None]
  /\ agents = [s \in Session |-> {}]
  /\ mcp = [s \in Session |-> {}]
  /\ pending = [s \in Session |-> [r \in Request |-> None]]
  /\ udpOffers = [s \in Session |-> [c \in Channel |-> None]]
  /\ caps = [s \in Session |-> CHOOSE c \in Caps : TRUE]
  /\ pc = [s \in Session |-> "init"]
  /\ snap = [s \in Session |-> {}]
  /\ writer = [s \in Session |-> "none"]
  /\ outq = [s \in Session |-> <<>>]
  /\ issuer = [i \in Id |-> None]
  /\ taken = [i \in Id |-> {}]

Goto(s, from, to) == pc[s] = from /\ pc' = [pc EXCEPT ![s] = to]

-----------------------------------------------------------------------------
(* Joining *)

(* auth_ok: the server token if one is configured, else the query token. *)
AuthOk(s) ==
  IF ServerToken # None THEN Conn[s].auth = ServerToken ELSE Conn[s].query = Conn[s].auth

(* The first frame is not a valid Auth: the socket is closed. *)
Reject(s) ==
  /\ Goto(s, "init", "rejected")
  /\ ~ AuthOk(s)
  /\ UNCHANGED <<registry, tables, caps, snap, writer, outq, history>>

(* state.room: get the Room of this key or create one. *)
JoinRoom(s) ==
  LET k == KeyOf(s) IN
  IF rooms[k] = None
    THEN rooms' = [rooms EXCEPT ![k] = s] /\ room' = [room EXCEPT ![s] = s]
    ELSE rooms' = rooms /\ room' = [room EXCEPT ![s] = rooms[k]]

(* The Auth frame is accepted; the task now holds its Room and awaits the write
   of AuthOk. *)
Authenticate(s) ==
  /\ Goto(s, "init", "auth")
  /\ AuthOk(s)
  /\ JoinRoom(s)
  /\ UNCHANGED <<agents, mcp, tables, caps, snap, writer, outq, history>>

(* gc_room: remove_if the Room under key k has no connection.  A k that is no
   key of the map is not found. *)
GcRoom(k) ==
  rooms' = IF k \in Key /\ rooms[k] # None /\ Members(rooms[k]) = {}
             THEN [rooms EXCEPT ![k] = None] ELSE rooms

(* The peer is gone before AuthOk is written.  The handler collects by the
   room's NAME, which is never a key of `rooms`. *)
AuthOkUndelivered(s) ==
  /\ Goto(s, "auth", "dropped")
  /\ GcRoom(Conn[s].name)
  /\ UNCHANGED <<room, agents, mcp, tables, caps, snap, writer, outq, history>>

(* AuthOk is written: the writer task starts, YourEndpoint is queued, and the
   session enters the map of its kind. *)
Register(s) ==
  /\ Goto(s, "auth", IF Host[s] = None THEN "open" ELSE "joined")
  /\ writer' = [writer EXCEPT ![s] = "running"]
  /\ outq' = [outq EXCEPT ![s] = Append(@, Msg("your_endpoint", s, None, {}))]
  /\ IF Host[s] = None
       THEN /\ mcp' = [mcp EXCEPT ![room[s]] = @ \cup {s}]
            /\ UNCHANGED <<agents, caps>>
       ELSE /\ agents' = [agents EXCEPT ![room[s]] = @ \cup {s}]
            /\ \E c \in Caps : caps' = [caps EXCEPT ![s] = c]
            /\ UNCHANGED mcp
  /\ UNCHANGED <<rooms, room, tables, snap, history>>

(* dedup_agents(&room) minus the newcomer's own machine ... *)
ListPeers(s) ==
  /\ Goto(s, "joined", "listed")
  /\ snap' = [snap EXCEPT ![s] = HostsIn(room[s]) \ {Host[s]}]
  /\ UNCHANGED <<registry, tables, caps, writer, outq, history>>

(* ... is queued in a later step, ... *)
SendList(s) ==
  /\ Goto(s, "listed", "announce")
  /\ Send({s}, Msg("agent_list", s, None, snap[s]))
  /\ snap' = [snap EXCEPT ![s] = {}]
  /\ UNCHANGED <<registry, tables, caps, writer, history>>

(* ... and then the join is announced. *)
Announce(s) ==
  /\ Goto(s, "announce", "open")
  /\ Send(AllBut(room[s], Host[s]), Msg("agent_joined", s, None, {Host[s]}))
  /\ UNCHANGED <<registry, tables, caps, snap, writer, history>>

-----------------------------------------------------------------------------
(* handle_client_msg: one action per client frame *)

Handles(s, kind) == pc[s] = "open" /\ kind \in Traffic

(* A handler that only queues frames. *)
QueueOnly(S, m) ==
  /\ Send(S, m)
  /\ UNCHANGED <<registry, tables, caps, pc, snap, writer, history>>

ListAgents(s) ==
  /\ Handles(s, "list_agents")
  /\ QueueOnly({s}, Msg("agent_list", s, None, HostsIn(room[s])))

Command(s, r, target) ==
  /\ Handles(s, "command")
  /\ issuer[r] = None
  /\ issuer' = [issuer EXCEPT ![r] = s]
  /\ \E T \in ResolveTargets(agents[room[s]], Host, caps, target) :
       IF T = {}
         THEN /\ Send({s}, Msg("command_error", s, r, {}))
              /\ UNCHANGED pending
         ELSE /\ pending' = [pending EXCEPT ![room[s]][r] = s]
              /\ Send(T, Msg("command", s, r, {}))
  /\ UNCHANGED <<registry, udpOffers, caps, pc, snap, writer, taken>>

(* The sessions that can answer for id i: those of the machine it was written
   to, in the same room name and token (a controller queues its replies across
   a reconnect, so the answer may come from its next session). *)
CanAnswer(s, i) == \E t \in taken[i] : Host[t] = Host[s] /\ KeyOf(t) = KeyOf(s)

(* Mutant: replies go to every observer, whoever asked. *)
RouteToAll(o, r) == mcp[o]

(* route_to_origin: the issuing session if it is still in the room, else every
   observer. *)
Origin(o, r) == IF pending[o][r] # None THEN FindSession(o, pending[o][r]) ELSE {}
RouteToOrigin(o, r) == IF Origin(o, r) # {} THEN Origin(o, r) ELSE mcp[o]

(* CommandResult and CommandError. *)
Reply(s, r) ==
  /\ Handles(s, "reply")
  /\ CanAnswer(s, r)
  /\ QueueOnly(RouteToOrigin(room[s], r), Msg("reply", s, r, {Host[s]} \ {None}))

(* A reply whose request never passed the relay: the command came over a
   direct UDP channel, so there is no pending entry. *)
ReplyUnknown(s) ==
  /\ Handles(s, "reply")
  /\ QueueOnly(mcp[room[s]], Msg("reply", s, None, {Host[s]} \ {None}))

Notify(s) ==
  /\ Handles(s, "notify")
  /\ QueueOnly(mcp[room[s]], Msg("event", s, None, {Host[s]} \ {None}))

UdpOffer(s, c, to) ==
  /\ Handles(s, "udp_offer")
  /\ issuer[c] = None
  /\ issuer' = [issuer EXCEPT ![c] = s]
  /\ udpOffers' = [udpOffers EXCEPT ![room[s]][c] = s]
  /\ Send(FindSession(room[s], to), Msg("udp_offer", s, c, {}))
  /\ UNCHANGED <<registry, pending, caps, pc, snap, writer, taken>>

(* Mutant: an answer goes to every peer of the room. *)
OffererAnyone(o, c) == agents[o]

(* The entry is consumed; an answer without an offerer in the room falls back
   to the observers. *)
Offerer(o, c) == IF udpOffers[o][c] # None THEN FindSession(o, udpOffers[o][c]) ELSE {}
UdpAnswer(s, c) ==
  /\ Handles(s, "udp_answer")
  /\ CanAnswer(s, c)
  /\ LET o == room[s] IN
       /\ udpOffers' = [udpOffers EXCEPT ![o][c] = None]
       /\ Send(IF Offerer(o, c) # {} THEN Offerer(o, c) ELSE mcp[o],
               Msg("udp_answer", s, c, {}))
  /\ UNCHANGED <<registry, pending, caps, pc, snap, writer, history>>

UdpResult(s, c) ==
  /\ Handles(s, "udp_result")
  /\ issuer[c] = s \/ CanAnswer(s, c)
  /\ QueueOnly(mcp[room[s]], Msg("udp_result", s, c, {}))

Ping(s) ==
  /\ Handles(s, "ping")
  /\ QueueOnly({s}, Msg("pong", s, None, {}))

(* UpdateAgent: a registered peer replaces its info (an observer has no entry
   and is ignored), and the change is broadcast like a join. *)
UpdateAgent(s, c) ==
  /\ Handles(s, "update_agent")
  /\ s \in agents[room[s]]
  /\ caps' = [caps EXCEPT ![s] = c]
  /\ Send(AllBut(room[s], Host[s]), Msg("agent_joined", s, None, {Host[s]}))
  /\ UNCHANGED <<registry, tables, pc, snap, writer, history>>

-----------------------------------------------------------------------------
(* Leaving *)

(* The reader loop ends (Close, end of stream, socket error, idle timeout, or
   the writer task has ended) and clean-up aborts the writer. *)
EndReader(s) ==
  /\ Goto(s, "open", "leave")
  /\ writer' = [writer EXCEPT ![s] = "ended"]
  /\ outq' = [outq EXCEPT ![s] = <<>>]
  /\ UNCHANGED <<registry, tables, caps, snap, history>>

CloseSession(s) == writer[s] # "ended" /\ EndReader(s)
ReapWriter(s)   == writer[s] = "ended" /\ EndReader(s)

LeaveRemove(s) ==
  /\ Goto(s, "leave", IF Host[s] = None THEN "retain" ELSE "check")
  /\ agents' = [agents EXCEPT ![room[s]] = @ \ {s}]
  /\ mcp' = [mcp EXCEPT ![room[s]] = @ \ {s}]
  /\ UNCHANGED <<rooms, room, tables, caps, snap, writer, outq, history>>

(* Mutant: looked for before the connection was removed, it finds itself. *)
StillPresentEarly(s) == TRUE

(* still_present *)
StillPresent(s) == \E x \in agents[room[s]] : Host[x] = Host[s]
LeaveCheck(s) ==
  /\ Goto(s, "check", IF StillPresent(s) THEN "retain" ELSE "left")
  /\ UNCHANGED <<registry, tables, caps, snap, writer, outq, history>>

LeaveAnnounce(s) ==
  /\ Goto(s, "left", "retain")
  /\ Send(Members(room[s]), Msg("agent_left", s, None, {Host[s]}))
  /\ UNCHANGED <<registry, tables, caps, snap, writer, history>>

(* Mutant: the retain predicate is inverted. *)
LeaveRetainInverted(s) ==
  /\ Goto(s, "retain", "gc")
  /\ pending' = [pending EXCEPT ![room[s]] =
                   [r \in Request |-> IF @[r] = s THEN @[r] ELSE None]]
  /\ UNCHANGED <<registry, udpOffers, caps, snap, writer, outq, history>>

LeaveRetain(s) ==
  /\ Goto(s, "retain", "gc")
  /\ pending' = [pending EXCEPT ![room[s]] =
                   [r \in Request |-> IF @[r] = s THEN None ELSE @[r]]]
  /\ UNCHANGED <<registry, udpOffers, caps, snap, writer, outq, history>>

(* Mutant: clean-up collects by the room's name, as the AuthOk path does. *)
LeaveGcByName(s) ==
  /\ Goto(s, "gc", "done")
  /\ GcRoom(Conn[s].name)
  /\ UNCHANGED <<room, agents, mcp, tables, caps, snap, writer, outq, history>>

LeaveGc(s) ==
  /\ Goto(s, "gc", "done")
  /\ GcRoom(KeyOf(s))
  /\ UNCHANGED <<room, agents, mcp, tables, caps, snap, writer, outq, history>>

-----------------------------------------------------------------------------
(* run_writer *)

(* One frame reaches the peer; a command or an offer can be answered from now
   on. *)
WriterSend(s) ==
  /\ writer[s] = "running"
  /\ outq[s] # <<>>
  /\ outq' = [outq EXCEPT ![s] = Tail(@)]
  /\ LET m == Head(outq[s]) IN
       taken' = IF m.kind \in {"command", "udp_offer"}
                  THEN [taken EXCEPT ![m.id] = @ \cup {s}] ELSE taken
  /\ UNCHANGED <<registry, tables, caps, pc, snap, writer, issuer>>

(* The peer stops reading: the write blocks for good. *)
PeerStall(s) ==
  /\ "stall" \in Faults
  /\ writer[s] = "running"
  /\ outq[s] # <<>>
  /\ writer' = [writer EXCEPT ![s] = "stuck"]
  /\ UNCHANGED <<registry, tables, caps, pc, snap, outq, history>>

(* The write fails, or exceeds write_timeout: the task returns and its end of
   the channel is dropped. *)
WriterEnd(s, from) ==
  /\ writer[s] = from
  /\ outq[s] # <<>>
  /\ writer' = [writer EXCEPT ![s] = "ended"]
  /\ outq' = [outq EXCEPT ![s] = <<>>]
  /\ UNCHANGED <<registry, tables, caps, pc, snap, history>>

(* Mutant: writes have no timeout. *)
WriterTimeoutNever(s) == FALSE /\ WriterEnd(s, "stuck")

WriteError(s)    == "write_error" \in Faults /\ WriterEnd(s, "running")
WriterTimeout(s) == WriterEnd(s, "stuck")

-----------------------------------------------------------------------------
Joins(s) == \/ Reject(s) \/ Authenticate(s) \/ AuthOkUndelivered(s) \/ Register(s)
            \/ ListPeers(s) \/ SendList(s) \/ Announce(s)

AllTargets == Targets(Agent, Label, None)

HandleClientMsg(s) ==
  \/ ListAgents(s) \/ ReplyUnknown(s) \/ Notify(s) \/ Ping(s)
  \/ \E r \in Request : Reply(s, r) \/ \E t \in AllTargets : Command(s, r, t)
  \/ \E c \in Channel : \/ UdpAnswer(s, c) \/ UdpResult(s, c)
                        \/ \E to \in Session : UdpOffer(s, c, to)
  \/ \E c \in Caps : UpdateAgent(s, c)

Leaves(s) == \/ LeaveRemove(s) \/ LeaveCheck(s) \/ LeaveAnnounce(s)
             \/ LeaveRetain(s) \/ LeaveGc(s)

Writer(s) == PeerStall(s) \/ WriteError(s) \/ WriterTimeout(s)

(* Every step but the delivery of a frame to its peer. *)
ServerStep(s) == \/ Joins(s) \/ HandleClientMsg(s) \/ Leaves(s) \/ Writer(s)
                 \/ CloseSession(s) \/ ReapWriter(s)

(* Every connection of the instance has come and gone. *)
Quiet == \A s \in Session : pc[s] \in {"rejected", "dropped", "done"}
Idle == Quiet /\ UNCHANGED vars

Next == (\E s \in Session : ServerStep(s) \/ WriterSend(s)) \/ Idle

Spec == Init /\ [][Next]_vars

(* The fairness of the code's scheduling: a started task runs on (tokio polls
   every ready task), the write timer fires, and select! polls the finished
   writer.  Nothing is assumed of peers: they may never send or close. *)
Fairness ==
  \A s \in Session : /\ WF_vars(ListPeers(s) \/ SendList(s) \/ Announce(s))
                     /\ WF_vars(Leaves(s))
                     /\ WF_vars(WriterTimeout(s))
                     /\ WF_vars(ReapWriter(s))

FairSpec == Spec /\ Fairness

-----------------------------------------------------------------------------
(* Properties *)

(* The token is the room's gate: whatever the interleaving of joins, leaves
   and collection, the sessions registered in one Room all present the name
   and the query token the Room was created for, and each passed the check of
   its auth frame. *)
RoomGate ==
  \A o \in Session : \A s \in Members(o) :
     /\ Conn[s].name = Conn[o].name
     /\ Conn[s].query = Conn[o].query
     /\ AuthOk(s)

(* No frame crosses rooms: everything queued for a session, on every routing
   path (roster, commands, replies, events, UDP signaling), was caused by a
   session of the same room name and token. *)
NoCrossTalk ==
  \A s \in Session : \A i \in 1..Len(outq[s]) : KeyOf(outq[s][i].from) = KeyOf(s)

(* A session whose clean-up has run owns no in-flight request of any Room:
   pending.retain misses none, also when the Room was dropped from the map or
   recreated meanwhile. *)
NoDanglingPending ==
  \A s \in Session : pc[s] \in {"gc", "done"} =>
     \A o \in Session : \A r \in Request : pending[o][r] # s

(* Once every connection is gone no Room is left behind in the map.  The
   connections whose AuthOk could not be written are excepted: their Room is
   collected under the wrong key. *)
RoomsCollected ==
  (\A s \in Session : pc[s] \in {"init", "rejected", "done"}) =>
     \A k \in Key : rooms[k] = None

(* The frame a step appended to the queue of x, if it did. *)
Queued(x) == Len(outq'[x]) > Len(outq[x])
NewFrame(x) == outq'[x][Len(outq'[x])]

(* A reply to a command the relay forwarded goes to the session that issued
   it; anyone else gets it only as an observer, and only when the issuer is no
   longer in the room the reply arrived in. *)
ReplyRouting ==
  [][\A x \in Session :
       Queued(x) /\ NewFrame(x).kind = "reply" /\ NewFrame(x).id # None =>
         LET origin == issuer[NewFrame(x).id] IN
           \/ x = origin
           \/ x \in mcp[room[x]] /\ origin \notin Members(room[x])]_vars

(* A UDP answer is never delivered to a peer other than the one that made the
   offer: it reaches the offerer, or falls back to observers. *)
AnswerRouting ==
  [][\A x \in Session :
       Queued(x) /\ NewFrame(x).kind = "udp_answer" =>
         x = issuer[NewFrame(x).id] \/ Host[x] = None]_vars

(* No immortal half-open connection: once a write is stuck the session is
   cleaned up and leaves the room, even if its peer keeps pinging. *)
ZombieReaped ==
  \A s \in Session : (writer[s] = "stuck") ~> (pc[s] = "done" /\ ~ Registered(s))

(* A key names one Room: two registered sessions with the same name and token
   are in the same Room and can see each other. *)
OneRoomPerKey ==
  \A s, t \in Session :
     Registered(s) /\ Registered(t) /\ KeyOf(s) = KeyOf(t) => room[s] = room[t]

=============================================================================
