---------------------------- MODULE RelayProofs ----------------------------
(***************************************************************************)
(* Proofs about the relay, for any set of connections, machines, names,     *)
(* tokens and ids.  The inductive invariant ties the four registries         *)
(* together: which Room a session holds, in which map of it it is entered,   *)
(* at which point of its life, and which key the Room was created for.       *)
(* The last part is about the relay composed with its peers' rosters.        *)
(***************************************************************************)
EXTENDS RelayPeers, TLAPS

(* The points of a session's life at which it may be entered in its Room, and
   those at which it may own an in-flight request. *)
Entered == {"joined", "listed", "announce", "open", "leave"}
Owning  == {"open", "leave", "check", "left", "retain"}

(* A session past authentication holds a Room; the points only a peer passes
   are passed only by peers; before registration there is no writer. *)
Placed ==
  \A s \in Session :
    /\ pc[s] \notin {"init", "rejected"} => room[s] # None
    /\ pc[s] \in {"joined", "listed", "announce", "check", "left"} => Host[s] # None
    /\ pc[s] \in {"init", "rejected", "auth", "dropped"} => writer[s] = "none" /\ outq[s] = <<>>

(* Whoever is in a map of a Room holds that very Room, is of the map's kind and
   has not been cleaned up. *)
MembersPlaced ==
  \A o \in Session : \A s \in Session :
    /\ s \in agents[o] => room[s] = o /\ Host[s] # None /\ pc[s] \in Entered
    /\ s \in mcp[o] => room[s] = o /\ Host[s] = None /\ pc[s] \in Entered

Shape == TypeOK /\ Placed /\ MembersPlaced

LEMMA KeyOfType == \A s \in Session : KeyOf(s) \in Key
  BY ConnType DEF KeyOf, RoomKey, Key

LEMMA HostType == \A s \in Session : Host[s] \in Agent \cup {None}
  BY ConnType DEF Host

(* Queues that a step may leave behind: bounded sequences of frames, untouched
   where there is no writer yet. *)
QueuesOK(q) ==
  /\ q \in [Session -> Seq(Frame)]
  /\ \A s \in Session : Len(q[s]) <= QueueCap
  /\ \A s \in Session : writer[s] = "none" => q[s] = outq[s]

(* Queuing a frame keeps every queue a bounded sequence of frames. *)
LEMMA SendType ==
  ASSUME Shape, NEW S, NEW m \in Frame, Send(S, m)
  PROVE  QueuesOK(outq')
<1> QED BY QueueCapType DEF QueuesOK, Send, Accepts, Shape, TypeOK

(* Frames built from well-typed parts are frames. *)
LEMMA MsgType ==
  ASSUME NEW k \in FrameKinds, NEW s \in Session, NEW i \in Id \cup {None},
         NEW h \in SUBSET Agent
  PROVE  Msg(k, s, i, h) \in Frame
  BY DEF Msg, Frame

(* A handler that only queues a frame keeps the shape. *)
LEMMA QueueOnlyShape ==
  ASSUME Shape, NEW S, NEW m \in Frame, QueueOnly(S, m)
  PROVE  Shape'
<1>1. QueuesOK(outq')
  BY SendType DEF QueueOnly
<1> QED BY <1>1 DEF QueuesOK, QueueOnly, Shape, TypeOK, Placed, MembersPlaced, registry, tables, history

LEMMA HostsInType ==
  ASSUME Shape, NEW o \in Session
  PROVE  HostsIn(o) \in SUBSET Agent
  BY HostType DEF HostsIn, Shape, TypeOK, MembersPlaced

(* The joining actions. *)
LEMMA JoinsShape ==
  ASSUME Shape, NEW s \in Session, Joins(s)
  PROVE  Shape'
<1> USE DEF Shape, registry, tables, history, Goto, Entered
<1>a. /\ Host[s] \in Agent \cup {None}
      /\ KeyOf(s) \in Key
  BY KeyOfType, HostType
<1>1. CASE Reject(s)
  <2>1. TypeOK' BY <1>1 DEF Reject, TypeOK
  <2>2. Placed' BY <1>1 DEF Reject, TypeOK, Placed
  <2>3. MembersPlaced' BY <1>1 DEF Reject, TypeOK, MembersPlaced
  <2> QED BY <2>1, <2>2, <2>3
<1>2. CASE Authenticate(s)
  <2>a. rooms' \in [Key -> Session \cup {None}] /\ room' \in [Session -> Session \cup {None}]
    <3>1. CASE rooms[KeyOf(s)] = None
      BY <1>2, <3>1, <1>a DEF Authenticate, JoinRoom, TypeOK
    <3>2. CASE rooms[KeyOf(s)] # None
      BY <1>2, <3>2, <1>a DEF Authenticate, JoinRoom, TypeOK
    <3> QED BY <3>1, <3>2
  <2>1. TypeOK' BY <1>2, <2>a DEF Authenticate, TypeOK
  <2>2. Placed' BY <1>2, <1>a, NoneFresh DEF Authenticate, JoinRoom, TypeOK, Placed
  <2>3. MembersPlaced' BY <1>2 DEF Authenticate, JoinRoom, TypeOK, MembersPlaced
  <2> QED BY <2>1, <2>2, <2>3
<1>3. CASE AuthOkUndelivered(s)
  <2>1. TypeOK' BY <1>3 DEF AuthOkUndelivered, GcRoom, TypeOK
  <2>2. Placed' BY <1>3 DEF AuthOkUndelivered, TypeOK, Placed
  <2>3. MembersPlaced' BY <1>3 DEF AuthOkUndelivered, TypeOK, MembersPlaced
  <2> QED BY <2>1, <2>2, <2>3
<1>4. CASE Register(s)
  <2>1. Msg("your_endpoint", s, None, {}) \in Frame
    BY MsgType DEF FrameKinds
  <2>2. /\ outq' \in [Session -> Seq(Frame)]
        /\ \A x \in Session : Len(outq'[x]) <= QueueCap
    BY <1>4, <2>1, QueueCapType DEF Register, TypeOK, Placed
  <2>3. room[s] \in Session
    BY <1>4 DEF Register, TypeOK, Placed
  <2>4. agents' \in [Session -> SUBSET Session]
    <3>1. agents' = IF Host[s] = None THEN agents ELSE [agents EXCEPT ![room[s]] = @ \cup {s}]
      BY <1>4 DEF Register
    <3>2. agents[room[s]] \cup {s} \in SUBSET Session
      BY <2>3 DEF TypeOK
    <3> QED BY <3>1, <3>2 DEF TypeOK
  <2>5. mcp' \in [Session -> SUBSET Session]
    <3>1. mcp' = IF Host[s] = None THEN [mcp EXCEPT ![room[s]] = @ \cup {s}] ELSE mcp
      BY <1>4 DEF Register
    <3>2. mcp[room[s]] \cup {s} \in SUBSET Session
      BY <2>3 DEF TypeOK
    <3> QED BY <3>1, <3>2 DEF TypeOK
  <2>6. caps' \in [Session -> Caps]
    BY <1>4 DEF Register, TypeOK
  <2>7. /\ pc[s] = "auth"
        /\ pc' = [pc EXCEPT ![s] = IF Host[s] = None THEN "open" ELSE "joined"]
    BY <1>4 DEF Register
  <2>8. TypeOK' BY <1>4, <2>2, <2>4, <2>5, <2>6, <2>7 DEF Register, TypeOK
  <2>9. Placed' BY <1>4 DEF Register, TypeOK, Placed
  <2>10. \A o \in Session : /\ agents'[o] \subseteq agents[o]
                                \cup (IF Host[s] # None /\ o = room[s] THEN {s} ELSE {})
                           /\ mcp'[o] \subseteq mcp[o]
                                \cup (IF Host[s] = None /\ o = room[s] THEN {s} ELSE {})
    BY <1>4, <2>3 DEF Register, TypeOK
  <2>11. pc'[s] \in Entered /\ \A x \in Session \ {s} : pc'[x] = pc[x]
    BY <2>7 DEF TypeOK
  <2>12. MembersPlaced' BY <1>4, <2>10, <2>11 DEF Register, TypeOK, MembersPlaced
  <2> QED BY <2>8, <2>9, <2>12
<1>5. CASE ListPeers(s)
  <2>1. HostsIn(room[s]) \in SUBSET Agent
    BY <1>5, HostsInType DEF ListPeers, TypeOK, Placed
  <2>2. TypeOK' BY <1>5, <2>1 DEF ListPeers, TypeOK
  <2>3. Placed' BY <1>5 DEF ListPeers, TypeOK, Placed
  <2>4. MembersPlaced' BY <1>5 DEF ListPeers, TypeOK, MembersPlaced
  <2> QED BY <2>2, <2>3, <2>4
<1>6. CASE SendList(s)
  <2>1. Msg("agent_list", s, None, snap[s]) \in Frame
    BY MsgType DEF FrameKinds, TypeOK
  <2>2. QueuesOK(outq')
    BY <1>6, <2>1, SendType DEF SendList
  <2>3. TypeOK' BY <1>6, <2>2 DEF SendList, TypeOK, QueuesOK
  <2>4. Placed' BY <1>6, <2>2 DEF SendList, TypeOK, Placed, QueuesOK
  <2>5. MembersPlaced' BY <1>6 DEF SendList, TypeOK, MembersPlaced
  <2> QED BY <2>3, <2>4, <2>5
<1>7. CASE Announce(s)
  <2>1. Msg("agent_joined", s, None, {Host[s]}) \in Frame
    BY <1>7, <1>a, MsgType DEF Announce, FrameKinds, Placed
  <2>2. QueuesOK(outq')
    BY <1>7, <2>1, SendType DEF Announce
  <2>3. TypeOK' BY <1>7, <2>2 DEF Announce, TypeOK, QueuesOK
  <2>4. Placed' BY <1>7, <2>2 DEF Announce, TypeOK, Placed, QueuesOK
  <2>5. MembersPlaced' BY <1>7 DEF Announce, TypeOK, MembersPlaced
  <2> QED BY <2>3, <2>4, <2>5
<1> QED BY <1>1, <1>2, <1>3, <1>4, <1>5, <1>6, <1>7 DEF Joins

(* What an open session may rely on. *)
LEMMA HandlesFacts ==
  ASSUME Shape, NEW s \in Session, pc[s] = "open"
  PROVE  /\ room[s] \in Session
         /\ {Host[s]} \ {None} \in SUBSET Agent
  BY HostType DEF Shape, TypeOK, Placed

(* The handlers of client frames. *)
LEMMA HandleClientMsgShape ==
  ASSUME Shape, NEW s \in Session, HandleClientMsg(s)
  PROVE  Shape'
<1> USE DEF Shape, registry, tables, history, Handles, Id
<1>a. pc[s] = "open"
  BY DEF HandleClientMsg, ListAgents, ReplyUnknown, Notify, Ping, Reply, Command,
         UdpAnswer, UdpResult, UdpOffer, UpdateAgent
<1>b. /\ room[s] \in Session
      /\ {Host[s]} \ {None} \in SUBSET Agent
  BY <1>a, HandlesFacts
<1>1. CASE ListAgents(s)
  <2>1. Msg("agent_list", s, None, HostsIn(room[s])) \in Frame
    BY <1>b, HostsInType, MsgType DEF FrameKinds
  <2> QED BY <1>1, <2>1, QueueOnlyShape DEF ListAgents
<1>2. CASE ReplyUnknown(s)
  <2>1. Msg("reply", s, None, {Host[s]} \ {None}) \in Frame
    BY <1>b, MsgType DEF FrameKinds
  <2> QED BY <1>2, <2>1, QueueOnlyShape DEF ReplyUnknown
<1>3. CASE Notify(s)
  <2>1. Msg("event", s, None, {Host[s]} \ {None}) \in Frame
    BY <1>b, MsgType DEF FrameKinds
  <2> QED BY <1>3, <2>1, QueueOnlyShape DEF Notify
<1>4. CASE Ping(s)
  <2>1. Msg("pong", s, None, {}) \in Frame
    BY MsgType DEF FrameKinds
  <2> QED BY <1>4, <2>1, QueueOnlyShape DEF Ping
<1>5. ASSUME NEW r \in Request, Reply(s, r)
      PROVE  Shape'
  <2>1. Msg("reply", s, r, {Host[s]} \ {None}) \in Frame
    BY <1>b, MsgType DEF FrameKinds
  <2> QED BY <1>5, <2>1, QueueOnlyShape DEF Reply
<1>6. ASSUME NEW r \in Request, NEW t \in AllTargets, Command(s, r, t)
      PROVE  Shape'
  <2>1. /\ Msg("command", s, r, {}) \in Frame
        /\ Msg("command_error", s, r, {}) \in Frame
    BY MsgType DEF FrameKinds
  <2>2. QueuesOK(outq')
    BY <1>6, <2>1, SendType DEF Command
  <2>3. pending' \in [Session -> [Request -> Session \cup {None}]]
    <3>1. \/ pending' = pending
          \/ pending' = [pending EXCEPT ![room[s]][r] = s]
      BY <1>6 DEF Command
    <3>2. [pending[room[s]] EXCEPT ![r] = s] \in [Request -> Session \cup {None}]
      BY <1>b DEF TypeOK
    <3> QED BY <3>1, <3>2, <1>b DEF TypeOK
  <2>4. issuer' \in [Request \cup Channel -> Session \cup {None}]
    BY <1>6 DEF Command, TypeOK
  <2>5. TypeOK' BY <1>6, <2>2, <2>3, <2>4 DEF Command, TypeOK, QueuesOK
  <2>6. Placed' BY <1>6, <2>2 DEF Command, Placed, QueuesOK
  <2>7. MembersPlaced' BY <1>6 DEF Command, MembersPlaced
  <2> QED BY <2>5, <2>6, <2>7
<1>7. ASSUME NEW c \in Channel, UdpAnswer(s, c)
      PROVE  Shape'
  <2>1. Msg("udp_answer", s, c, {}) \in Frame
    BY MsgType DEF FrameKinds
  <2>2. QueuesOK(outq')
    BY <1>7, <2>1, SendType DEF UdpAnswer
  <2>3. udpOffers' \in [Session -> [Channel -> Session \cup {None}]]
    BY <1>7 DEF UdpAnswer, TypeOK
  <2>5. TypeOK' BY <1>7, <2>2, <2>3 DEF UdpAnswer, TypeOK, QueuesOK
  <2>6. Placed' BY <1>7, <2>2 DEF UdpAnswer, Placed, QueuesOK
  <2>7. MembersPlaced' BY <1>7 DEF UdpAnswer, MembersPlaced
  <2> QED BY <2>5, <2>6, <2>7
<1>8. ASSUME NEW c \in Channel, UdpResult(s, c)
      PROVE  Shape'
  <2>1. Msg("udp_result", s, c, {}) \in Frame
    BY MsgType DEF FrameKinds
  <2> QED BY <1>8, <2>1, QueueOnlyShape DEF UdpResult
<1>9. ASSUME NEW c \in Channel, NEW to \in Session, UdpOffer(s, c, to)
      PROVE  Shape'
  <2>1. Msg("udp_offer", s, c, {}) \in Frame
    BY MsgType DEF FrameKinds
  <2>2. QueuesOK(outq')
    BY <1>9, <2>1, SendType DEF UdpOffer
  <2>3. /\ udpOffers' \in [Session -> [Channel -> Session \cup {None}]]
        /\ issuer' \in [Request \cup Channel -> Session \cup {None}]
    BY <1>9, <1>b DEF UdpOffer, TypeOK
  <2>5. TypeOK' BY <1>9, <2>2, <2>3 DEF UdpOffer, TypeOK, QueuesOK
  <2>6. Placed' BY <1>9, <2>2 DEF UdpOffer, Placed, QueuesOK
  <2>7. MembersPlaced' BY <1>9 DEF UdpOffer, MembersPlaced
  <2> QED BY <2>5, <2>6, <2>7
<1>10. ASSUME NEW c \in Caps, UpdateAgent(s, c)
       PROVE  Shape'
  <2>1. Msg("agent_joined", s, None, {Host[s]}) \in Frame
    BY <1>10, HostType, <1>b, MsgType DEF UpdateAgent, FrameKinds, MembersPlaced
  <2>2. QueuesOK(outq')
    BY <1>10, <2>1, SendType DEF UpdateAgent
  <2>5. TypeOK' BY <1>10, <2>2 DEF UpdateAgent, TypeOK, QueuesOK
  <2>6. Placed' BY <1>10, <2>2 DEF UpdateAgent, Placed, QueuesOK
  <2>7. MembersPlaced' BY <1>10 DEF UpdateAgent, MembersPlaced
  <2> QED BY <2>5, <2>6, <2>7
<1> QED BY <1>1, <1>2, <1>3, <1>4, <1>5, <1>6, <1>7, <1>8, <1>9, <1>10 DEF HandleClientMsg

(* Clean-up. *)
LEMMA LeavesShape ==
  ASSUME Shape, NEW s \in Session, Leaves(s) \/ EndReader(s)
  PROVE  Shape'
<1> USE DEF Shape, registry, tables, history, Goto, Entered
<1>1. CASE EndReader(s)
  <2>1. TypeOK' BY <1>1, QueueCapType DEF EndReader, TypeOK
  <2>2. Placed' BY <1>1 DEF EndReader, TypeOK, Placed
  <2>3. MembersPlaced' BY <1>1 DEF EndReader, TypeOK, MembersPlaced
  <2> QED BY <2>1, <2>2, <2>3
<1>2. CASE LeaveRemove(s)
  <2>1. TypeOK' BY <1>2 DEF LeaveRemove, TypeOK
  <2>2. Placed' BY <1>2 DEF LeaveRemove, TypeOK, Placed
  <2>3. MembersPlaced' BY <1>2 DEF LeaveRemove, TypeOK, MembersPlaced
  <2> QED BY <2>1, <2>2, <2>3
<1>3. CASE LeaveCheck(s)
  <2>1. TypeOK' BY <1>3 DEF LeaveCheck, TypeOK
  <2>2. Placed' BY <1>3 DEF LeaveCheck, TypeOK, Placed
  <2>3. MembersPlaced' BY <1>3 DEF LeaveCheck, TypeOK, MembersPlaced
  <2> QED BY <2>1, <2>2, <2>3
<1>4. CASE LeaveAnnounce(s)
  <2>1. Msg("agent_left", s, None, {Host[s]}) \in Frame
    BY <1>4, HostType, MsgType DEF LeaveAnnounce, FrameKinds, Placed
  <2>2. QueuesOK(outq')
    BY <1>4, <2>1, SendType DEF LeaveAnnounce
  <2>3. TypeOK' BY <1>4, <2>2 DEF LeaveAnnounce, TypeOK, QueuesOK
  <2>4. Placed' BY <1>4, <2>2 DEF LeaveAnnounce, TypeOK, Placed, QueuesOK
  <2>5. MembersPlaced' BY <1>4 DEF LeaveAnnounce, TypeOK, MembersPlaced
  <2> QED BY <2>3, <2>4, <2>5
<1>5. CASE LeaveRetain(s)
  <2>1. TypeOK'
    <3>1. room[s] \in Session
      BY <1>5, NoneFresh DEF LeaveRetain, TypeOK, Placed
    <3>2. pending[room[s]] \in [Request -> Session \cup {None}]
      BY <3>1 DEF TypeOK
    <3>3. pending' = [pending EXCEPT ![room[s]] =
             [r \in Request |-> IF pending[room[s]][r] = s THEN None ELSE pending[room[s]][r]]]
      BY <1>5 DEF LeaveRetain
    <3>4. pending' \in [Session -> [Request -> Session \cup {None}]]
      BY <3>1, <3>2, <3>3 DEF TypeOK
    <3>5. pc' = [pc EXCEPT ![s] = "gc"]
      BY <1>5 DEF LeaveRetain
    <3> QED BY <1>5, <3>4, <3>5 DEF LeaveRetain, TypeOK
  <2>2. Placed' BY <1>5 DEF LeaveRetain, TypeOK, Placed
  <2>3. MembersPlaced' BY <1>5 DEF LeaveRetain, TypeOK, MembersPlaced
  <2> QED BY <2>1, <2>2, <2>3
<1>6. CASE LeaveGc(s)
  <2>1. TypeOK' BY <1>6 DEF LeaveGc, GcRoom, TypeOK
  <2>2. Placed' BY <1>6 DEF LeaveGc, TypeOK, Placed
  <2>3. MembersPlaced' BY <1>6 DEF LeaveGc, TypeOK, MembersPlaced
  <2> QED BY <2>1, <2>2, <2>3
<1> QED BY <1>1, <1>2, <1>3, <1>4, <1>5, <1>6 DEF Leaves

(* The writer task. *)
LEMMA WriterShape ==
  ASSUME Shape, NEW s \in Session, Writer(s) \/ WriterSend(s)
  PROVE  Shape'
<1> USE DEF Shape, registry, tables, history
<1>1. CASE PeerStall(s)
  <2>1. TypeOK' BY <1>1 DEF PeerStall, TypeOK
  <2>2. Placed' BY <1>1 DEF PeerStall, TypeOK, Placed
  <2>3. MembersPlaced' BY <1>1 DEF PeerStall, TypeOK, MembersPlaced
  <2> QED BY <2>1, <2>2, <2>3
<1>2. CASE WriterEnd(s, "running") \/ WriterEnd(s, "stuck")
  <2>0. /\ writer' = [writer EXCEPT ![s] = "ended"]
        /\ outq' = [outq EXCEPT ![s] = <<>>]
    BY <1>2 DEF WriterEnd
  <2>a. writer' \in [Session -> {"none", "running", "stuck", "ended"}]
    BY <2>0 DEF TypeOK
  <2>b. /\ outq' \in [Session -> Seq(Frame)]
        /\ \A x \in Session : Len(outq'[x]) <= QueueCap
    BY <2>0, QueueCapType DEF TypeOK
  <2>1. TypeOK' BY <1>2, <2>a, <2>b DEF WriterEnd, TypeOK
  <2>2. Placed' BY <1>2 DEF WriterEnd, TypeOK, Placed
  <2>3. MembersPlaced' BY <1>2 DEF WriterEnd, TypeOK, MembersPlaced
  <2> QED BY <2>1, <2>2, <2>3
<1>3. CASE WriterSend(s)
  <2>1. /\ outq' \in [Session -> Seq(Frame)]
        /\ \A x \in Session : Len(outq'[x]) <= QueueCap
    BY <1>3, QueueCapType DEF WriterSend, TypeOK
  <2>2. taken' \in [Id -> SUBSET Session]
    BY <1>3 DEF WriterSend, TypeOK
  <2>3. TypeOK' BY <1>3, <2>1, <2>2 DEF WriterSend, TypeOK
  <2>4. Placed' BY <1>3 DEF WriterSend, TypeOK, Placed
  <2>5. MembersPlaced' BY <1>3 DEF WriterSend, TypeOK, MembersPlaced
  <2> QED BY <2>3, <2>4, <2>5
<1> QED BY <1>1, <1>2, <1>3 DEF Writer, WriteError, WriterTimeout

(* The shape is inductive: Init establishes it ... *)
LEMMA InitShape == Init => Shape
<1> SUFFICES ASSUME Init PROVE Shape
  OBVIOUS
<1>1. TypeOK BY CapsType, QueueCapType DEF Init, TypeOK
<1>2. Placed BY DEF Init, Placed
<1>3. MembersPlaced BY DEF Init, MembersPlaced
<1> QED BY <1>1, <1>2, <1>3 DEF Shape

(* ... and every step keeps it. *)
LEMMA NextShape == Shape /\ [Next]_vars => Shape'
<1> SUFFICES ASSUME Shape, [Next]_vars PROVE Shape'
  OBVIOUS
<1>1. CASE UNCHANGED vars
  BY <1>1 DEF vars, Shape, TypeOK, Placed, MembersPlaced
<1>2. ASSUME NEW s \in Session, ServerStep(s)
      PROVE  Shape'
  BY <1>2, JoinsShape, HandleClientMsgShape, LeavesShape, WriterShape
  DEF ServerStep, CloseSession, ReapWriter
<1>3. ASSUME NEW s \in Session, WriterSend(s)
      PROVE  Shape'
  BY <1>3, WriterShape
<1> QED BY <1>1, <1>2, <1>3 DEF Next, Idle

LEMMA ShapeInvariant == Spec => []Shape
<1> QED BY InitShape, NextShape, PTL DEF Spec

(* Every reachable state of the relay is well typed, whatever the
   interleaving, and no outbound queue ever exceeds OUTBOUND_CAP. *)
THEOREM TypeCorrect == Spec => []TypeOK
<1>1. Shape => TypeOK BY DEF Shape
<1> QED BY <1>1, ShapeInvariant, PTL

-----------------------------------------------------------------------------
(* The gate of a room. *)

(* A Room in the map is in it under the key it was created for, and a session
   only ever holds a Room of its own key, after its auth frame was accepted. *)
Keyed ==
  /\ \A k \in Key : rooms[k] # None => KeyOf(rooms[k]) = k
  /\ \A s \in Session : room[s] # None => KeyOf(room[s]) = KeyOf(s) /\ AuthOk(s)

(* Only three actions touch the map of rooms or the Room a session holds. *)
LEMMA RoomsEffect ==
  ASSUME [Next]_vars
  PROVE  \/ UNCHANGED <<rooms, room>>
         \/ \E s \in Session : Authenticate(s)
         \/ \E s \in Session : AuthOkUndelivered(s) \/ LeaveGc(s)
<1> USE DEF registry
<1>1. CASE UNCHANGED vars
  BY <1>1 DEF vars
<1>2. ASSUME NEW s \in Session, ServerStep(s)
      PROVE  \/ UNCHANGED <<rooms, room>>
             \/ Authenticate(s) \/ AuthOkUndelivered(s) \/ LeaveGc(s)
  <2>1. CASE Joins(s)
    BY <2>1 DEF Joins, Reject, Register, ListPeers, SendList, Announce
  <2>2. CASE HandleClientMsg(s)
    BY <2>2 DEF HandleClientMsg, QueueOnly, ListAgents, Command, Reply, ReplyUnknown,
       Notify, UdpOffer, UdpAnswer, UdpResult, Ping, UpdateAgent
  <2>3. CASE Leaves(s)
    BY <2>3 DEF Leaves, LeaveRemove, LeaveCheck, LeaveAnnounce, LeaveRetain
  <2>4. CASE Writer(s) \/ CloseSession(s) \/ ReapWriter(s)
    BY <2>4 DEF Writer, PeerStall, WriteError, WriterTimeout, WriterEnd,
       CloseSession, ReapWriter, EndReader
  <2> QED BY <1>2, <2>1, <2>2, <2>3, <2>4 DEF ServerStep
<1>3. ASSUME NEW s \in Session, WriterSend(s)
      PROVE  UNCHANGED <<rooms, room>>
  BY <1>3 DEF WriterSend
<1> QED BY <1>1, <1>2, <1>3 DEF Next, Idle

LEMMA KeyedStep == Shape /\ Keyed /\ [Next]_vars => Keyed'
<1> SUFFICES ASSUME Shape, Keyed, [Next]_vars PROVE Keyed'
  OBVIOUS
<1> USE DEF Shape, TypeOK, Keyed
<1>1. CASE UNCHANGED <<rooms, room>>
  BY <1>1 DEF AuthOk, KeyOf
<1>2. ASSUME NEW s \in Session, Authenticate(s)
      PROVE  Keyed'
  <2>1. KeyOf(s) \in Key /\ AuthOk(s)
    BY <1>2, KeyOfType DEF Authenticate
  <2>2. CASE rooms[KeyOf(s)] = None
    <3>1. /\ rooms' = [rooms EXCEPT ![KeyOf(s)] = s]
          /\ room' = [room EXCEPT ![s] = s]
      BY <1>2, <2>2 DEF Authenticate, JoinRoom
    <3> QED BY <2>1, <3>1
  <2>3. CASE rooms[KeyOf(s)] # None
    <3>1. /\ rooms' = rooms
          /\ room' = [room EXCEPT ![s] = rooms[KeyOf(s)]]
      BY <1>2, <2>3 DEF Authenticate, JoinRoom
    <3> QED BY <2>1, <2>3, <3>1
  <2> QED BY <2>2, <2>3
<1>3. ASSUME NEW s \in Session, AuthOkUndelivered(s) \/ LeaveGc(s)
      PROVE  Keyed'
  <2>1. room' = room /\ \A k \in Key : rooms'[k] \in {rooms[k], None}
    BY <1>3 DEF AuthOkUndelivered, LeaveGc, GcRoom
  <2> QED BY <2>1
<1> QED BY <1>1, <1>2, <1>3, RoomsEffect

LEMMA KeyedInvariant == Spec => []Keyed
<1>1. Init => Keyed BY DEF Init, Keyed
<1> QED BY <1>1, KeyedStep, ShapeInvariant, PTL DEF Spec

(* Everyone in one Room shares its key. *)
LEMMA MemberKey ==
  ASSUME Shape, Keyed, NEW o \in Session, NEW s \in Members(o)
  PROVE  s \in Session /\ KeyOf(s) = KeyOf(o) /\ AuthOk(s)
  BY NoneFresh DEF Shape, TypeOK, MembersPlaced, Members, Keyed

(* For every number of connections, rooms and tokens: the sessions of one Room
   present the same name and query token and passed the auth check, also when
   the Room was collected and created again meanwhile. *)
THEOREM RoomGateHolds == Spec => []RoomGate
<1>1. ASSUME Shape, Keyed PROVE RoomGate
  <2> SUFFICES ASSUME NEW o \in Session, NEW s \in Members(o)
               PROVE  /\ Conn[s].name = Conn[o].name
                      /\ Conn[s].query = Conn[o].query
                      /\ AuthOk(s)
    BY DEF RoomGate
  <2>1. KeyOf(s) = KeyOf(o) /\ AuthOk(s)
    BY <1>1, MemberKey
  <2> QED BY <2>1 DEF KeyOf, RoomKey
<1> QED BY <1>1, ShapeInvariant, KeyedInvariant, PTL

-----------------------------------------------------------------------------
(* No frame crosses rooms. *)

(* Queuing, for sessions of the sender's own Room, a frame the sender caused. *)
LEMMA SendInRoom ==
  ASSUME Shape, Keyed, NoCrossTalk, NEW s \in Session, room[s] \in Session,
         NEW k, NEW id, NEW h, NEW S \in SUBSET (Members(room[s]) \cup {s}),
         Send(S, Msg(k, s, id, h))
  PROVE  NoCrossTalk'
<1> DEFINE m == Msg(k, s, id, h)
<1>a. m.from = s
  BY DEF Msg
<1> HIDE DEF m
<1> SUFFICES ASSUME NEW x \in Session, NEW i \in 1..Len(outq'[x])
             PROVE  KeyOf(outq'[x][i].from) = KeyOf(x)
  BY DEF NoCrossTalk, KeyOf
<1>1. outq'[x] = outq[x] \/ (x \in S /\ outq'[x] = Append(outq[x], m))
  BY DEF Send, m
<1>2. outq[x] \in Seq(Frame) /\ outq[x] \in Seq(Frame \cup {m})
  BY DEF Shape, TypeOK
<1>3. CASE outq'[x] = outq[x]
  BY <1>3 DEF NoCrossTalk
<1>4. CASE x \in S /\ outq'[x] = Append(outq[x], m)
  <2>1. Len(outq'[x]) = Len(outq[x]) + 1
    BY <1>2, <1>4
  <2>2. outq'[x][i] = IF i = Len(outq[x]) + 1 THEN m ELSE outq[x][i]
    BY <1>2, <1>4, <2>1
  <2>3. KeyOf(x) = KeyOf(s)
    BY <1>4, MemberKey, NoneFresh DEF Keyed
  <2> QED BY <1>2, <2>1, <2>2, <2>3, <1>a DEF NoCrossTalk
<1> QED BY <1>1, <1>3, <1>4

(* Dropping frames from the queues. *)
LEMMA TrimKeyed ==
  ASSUME Shape, NoCrossTalk, NEW s \in Session,
         \/ outq' = outq
         \/ outq' = [outq EXCEPT ![s] = <<>>]
         \/ outq[s] # <<>> /\ outq' = [outq EXCEPT ![s] = Tail(@)]
  PROVE  NoCrossTalk'
<1> SUFFICES ASSUME NEW x \in Session, NEW i \in 1..Len(outq'[x])
             PROVE  KeyOf(outq'[x][i].from) = KeyOf(x)
  BY DEF NoCrossTalk, KeyOf
<1>1. outq[x] \in Seq(Frame)
  BY DEF Shape, TypeOK
<1>2. \/ outq'[x] = outq[x]
      \/ outq'[x] = <<>>
      \/ outq[x] # <<>> /\ outq'[x] = Tail(outq[x])
  BY DEF Shape, TypeOK
<1>3. \E j \in 1..Len(outq[x]) : outq'[x][i] = outq[x][j]
  <2>1. CASE outq'[x] = outq[x]
    BY <2>1
  <2>2. CASE outq'[x] = <<>>
    BY <2>2
  <2>3. CASE outq[x] # <<>> /\ outq'[x] = Tail(outq[x])
    <3>1. i + 1 \in 1..Len(outq[x]) /\ outq'[x][i] = outq[x][i + 1]
      BY <1>1, <2>3
    <3> QED BY <3>1
  <2> QED BY <1>2, <2>1, <2>2, <2>3
<1> QED BY <1>3 DEF NoCrossTalk

(* The sessions each routing helper names are in the Room it is given. *)
LEMMA RoutesInRoom ==
  ASSUME NEW o, NEW i, NEW h
  PROVE  /\ AllBut(o, h) \subseteq Members(o)
         /\ FindSession(o, i) \subseteq Members(o)
         /\ RouteToOrigin(o, i) \subseteq Members(o)
         /\ Offerer(o, i) \subseteq Members(o)
         /\ mcp[o] \subseteq Members(o)
         /\ HostsIn(o) \subseteq {Host[x] : x \in Members(o)}
  BY DEF AllBut, FindSession, RouteToOrigin, Origin, Offerer, Members, HostsIn

LEMMA ResolvedInRoom ==
  ASSUME NEW o, NEW t, NEW T \in ResolveTargets(agents[o], Host, caps, t)
  PROVE  T \subseteq Members(o)
  BY DEF ResolveTargets, Members

LEMMA CrossTalkStep == Shape /\ Keyed /\ NoCrossTalk /\ [Next]_vars => NoCrossTalk'
<1> SUFFICES ASSUME Shape, Keyed, NoCrossTalk, [Next]_vars PROVE NoCrossTalk'
  OBVIOUS
<1> USE DEF QueueOnly, Handles, Goto
<1>a. \A s \in Session : pc[s] \notin {"init", "rejected"} => room[s] \in Session
  BY DEF Shape, TypeOK, Placed
<1>1. CASE UNCHANGED vars
  BY <1>1 DEF vars, NoCrossTalk, KeyOf
<1>2. ASSUME NEW s \in Session, Joins(s) PROVE NoCrossTalk'
  <2>1. CASE Reject(s) \/ Authenticate(s) \/ AuthOkUndelivered(s) \/ ListPeers(s)
    BY <2>1, TrimKeyed DEF Reject, Authenticate, AuthOkUndelivered, ListPeers
  <2>2. CASE Register(s)
    <3>1. outq[s] = <<>>
      BY <2>2 DEF Register, Shape, Placed
    <3>2. \A x \in Session :
            outq'[x] = IF x = s THEN Append(<<>>, Msg("your_endpoint", s, None, {})) ELSE outq[x]
      BY <2>2, <3>1 DEF Register, Shape, TypeOK
    <3>3. \A x \in Session :
            outq'[x] = IF x = s THEN <<Msg("your_endpoint", s, None, {})>> ELSE outq[x]
      BY <3>2
    <3>4. Msg("your_endpoint", s, None, {}).from = s
      BY DEF Msg
    <3> QED BY <3>3, <3>4 DEF NoCrossTalk, KeyOf
  <2>3. CASE SendList(s)
    BY <2>3, <1>a, SendInRoom DEF SendList
  <2>4. CASE Announce(s)
    BY <2>4, <1>a, SendInRoom, RoutesInRoom DEF Announce
  <2> QED BY <1>2, <2>1, <2>2, <2>3, <2>4 DEF Joins
<1>3. ASSUME NEW s \in Session, HandleClientMsg(s) PROVE NoCrossTalk'
  <2>1. CASE ListAgents(s) \/ Ping(s)
    BY <2>1, <1>a, SendInRoom DEF ListAgents, Ping
  <2>2. CASE ReplyUnknown(s) \/ Notify(s)
    BY <2>2, <1>a, SendInRoom, RoutesInRoom DEF ReplyUnknown, Notify
  <2>3. ASSUME NEW r \in Request, Reply(s, r) PROVE NoCrossTalk'
    BY <2>3, <1>a, SendInRoom, RoutesInRoom DEF Reply
  <2>4. ASSUME NEW r \in Request, NEW t \in AllTargets, Command(s, r, t) PROVE NoCrossTalk'
    <3>1. room[s] \in Session
      BY <2>4, <1>a DEF Command
    <3>2. PICK T \in ResolveTargets(agents[room[s]], Host, caps, t) :
            \/ Send({s}, Msg("command_error", s, r, {}))
            \/ Send(T, Msg("command", s, r, {}))
      BY <2>4 DEF Command
    <3> QED BY <3>1, <3>2, SendInRoom, ResolvedInRoom
  <2>5. ASSUME NEW c \in Channel, UdpAnswer(s, c) PROVE NoCrossTalk'
    BY <2>5, <1>a, SendInRoom, RoutesInRoom DEF UdpAnswer
  <2>6. ASSUME NEW c \in Channel, UdpResult(s, c) PROVE NoCrossTalk'
    BY <2>6, <1>a, SendInRoom, RoutesInRoom DEF UdpResult
  <2>7. ASSUME NEW c \in Channel, NEW to \in Session, UdpOffer(s, c, to) PROVE NoCrossTalk'
    BY <2>7, <1>a, SendInRoom, RoutesInRoom DEF UdpOffer
  <2>8. ASSUME NEW c \in Caps, UpdateAgent(s, c) PROVE NoCrossTalk'
    BY <2>8, <1>a, SendInRoom, RoutesInRoom DEF UpdateAgent
  <2> QED BY <1>3, <2>1, <2>2, <2>3, <2>4, <2>5, <2>6, <2>7, <2>8 DEF HandleClientMsg
<1>4. ASSUME NEW s \in Session, Leaves(s) PROVE NoCrossTalk'
  <2>1. CASE LeaveAnnounce(s)
    BY <2>1, <1>a, SendInRoom DEF LeaveAnnounce
  <2>2. CASE ~ LeaveAnnounce(s)
    BY <1>4, <2>2, TrimKeyed DEF Leaves, LeaveRemove, LeaveCheck, LeaveRetain, LeaveGc
  <2> QED BY <2>1, <2>2
<1>5. ASSUME NEW s \in Session,
             Writer(s) \/ CloseSession(s) \/ ReapWriter(s) \/ WriterSend(s)
      PROVE  NoCrossTalk'
  BY <1>5, TrimKeyed DEF Writer, PeerStall, WriteError, WriterTimeout, WriterEnd,
     CloseSession, ReapWriter, EndReader, WriterSend
<1> QED BY <1>1, <1>2, <1>3, <1>4, <1>5 DEF Next, ServerStep, Idle

(* For every instance: a frame queued for a session, on any routing path, was
   caused by a session of the same room name and token. *)
THEOREM NoCrossTalkHolds == Spec => []NoCrossTalk
<1>1. Init => NoCrossTalk BY DEF Init, NoCrossTalk
<1> QED BY <1>1, CrossTalkStep, ShapeInvariant, KeyedInvariant, PTL DEF Spec

-----------------------------------------------------------------------------
(* In-flight requests. *)

(* A pending entry is kept in the Room its session holds, and only until that
   session's clean-up has run. *)
PendingOwned ==
  \A o \in Session : \A r \in Request :
    pending[o][r] # None => room[pending[o][r]] = o /\ pc[pending[o][r]] \in Owning

(* Which actions touch what the invariant reads: two move `pending`, one moves
   `room`, and a session past "open" only advances. *)
LEMMA PendingEffect ==
  ASSUME Shape, [Next]_vars
  PROVE  \/ UNCHANGED <<pending, room>> /\ \A x \in Session : pc[x] \in Owning => pc'[x] \in Owning
         \/ \E s \in Session : LeaveRetain(s) \/ Authenticate(s)
         \/ \E s \in Session : \E r \in Request : \E t \in AllTargets : Command(s, r, t)
<1> USE DEF registry, tables, Goto, Handles, Owning, Shape, TypeOK
<1>1. CASE UNCHANGED vars
  BY <1>1 DEF vars
<1>2. ASSUME NEW s \in Session, Joins(s)
      PROVE  \/ UNCHANGED <<pending, room>> /\ \A x \in Session : pc[x] \in Owning => pc'[x] \in Owning
             \/ Authenticate(s)
  BY <1>2 DEF Joins, Reject, AuthOkUndelivered, Register, ListPeers, SendList, Announce
<1>3. ASSUME NEW s \in Session, HandleClientMsg(s)
      PROVE  \/ UNCHANGED <<pending, room>> /\ pc' = pc
             \/ \E r \in Request : \E t \in AllTargets : Command(s, r, t)
  BY <1>3 DEF HandleClientMsg, QueueOnly, ListAgents, Reply, ReplyUnknown, Notify,
     UdpOffer, UdpAnswer, UdpResult, Ping, UpdateAgent
<1>4. ASSUME NEW s \in Session, Leaves(s)
      PROVE  \/ UNCHANGED <<pending, room>> /\ \A x \in Session : pc[x] \in Owning => pc'[x] \in Owning
             \/ LeaveRetain(s)
  BY <1>4 DEF Leaves, LeaveRemove, LeaveCheck, LeaveAnnounce, LeaveGc
<1>5. ASSUME NEW s \in Session,
             Writer(s) \/ CloseSession(s) \/ ReapWriter(s) \/ WriterSend(s)
      PROVE  UNCHANGED <<pending, room>> /\ \A x \in Session : pc[x] \in Owning => pc'[x] \in Owning
  BY <1>5 DEF Writer, PeerStall, WriteError, WriterTimeout, WriterEnd,
     CloseSession, ReapWriter, EndReader, WriterSend
<1> QED BY <1>1, <1>2, <1>3, <1>4, <1>5 DEF Next, ServerStep, Idle

LEMMA PendingStep == Shape /\ PendingOwned /\ [Next]_vars => PendingOwned'
<1> SUFFICES ASSUME Shape, PendingOwned, [Next]_vars,
                    NEW o \in Session, NEW r \in Request, pending'[o][r] # None
             PROVE  room'[pending'[o][r]] = o /\ pc'[pending'[o][r]] \in Owning
  BY DEF PendingOwned
<1> USE DEF Shape, TypeOK
<1>1. CASE UNCHANGED <<pending, room>> /\ \A x \in Session : pc[x] \in Owning => pc'[x] \in Owning
  BY <1>1 DEF PendingOwned
<1>2. ASSUME NEW s \in Session, LeaveRetain(s)
      PROVE  room'[pending'[o][r]] = o /\ pc'[pending'[o][r]] \in Owning
  <2>1. /\ pending'[o][r] = pending[o][r]
        /\ o = room[s] => pending[o][r] # s
    BY <1>2 DEF LeaveRetain
  <2>2. pending[o][r] # s
    BY <2>1 DEF PendingOwned
  <2> QED BY <1>2, <2>1, <2>2 DEF LeaveRetain, PendingOwned, Goto, registry
<1>3. ASSUME NEW s \in Session, Authenticate(s)
      PROVE  room'[pending'[o][r]] = o /\ pc'[pending'[o][r]] \in Owning
  <2>1. pending' = pending /\ pending[o][r] # s
    <3>1. pending' = pending /\ pc[s] = "init"
      BY <1>3 DEF Authenticate, Goto, tables
    <3>2. pc[pending[o][r]] \in Owning
      BY <3>1 DEF PendingOwned
    <3> QED BY <3>1, <3>2 DEF Owning
  <2>2. \A x \in Session \ {s} : room'[x] = room[x] /\ pc'[x] = pc[x]
    BY <1>3 DEF Authenticate, JoinRoom, Goto
  <2> QED BY <2>1, <2>2 DEF PendingOwned
<1>4. ASSUME NEW s \in Session, NEW q \in Request, NEW t \in AllTargets, Command(s, q, t)
      PROVE  room'[pending'[o][r]] = o /\ pc'[pending'[o][r]] \in Owning
  <2>1. room' = room /\ pc' = pc /\ pc[s] = "open"
    BY <1>4 DEF Command, registry, Handles
  <2>2. pending' = pending \/ pending' = [pending EXCEPT ![room[s]][q] = s]
    BY <1>4 DEF Command
  <2>3. pending'[o][r] = pending[o][r] \/ (pending'[o][r] = s /\ o = room[s])
    <3>1. CASE pending' = pending
      BY <3>1
    <3>2. CASE pending' = [pending EXCEPT ![room[s]][q] = s]
      <4>1. pending'[o] = IF o = room[s] THEN [pending[o] EXCEPT ![q] = s] ELSE pending[o]
        BY <3>2
      <4>2. pending[o] \in [Request -> Session \cup {None}]
        OBVIOUS
      <4> QED BY <4>1, <4>2
    <3> QED BY <2>2, <3>1, <3>2
  <2> QED BY <2>1, <2>3 DEF PendingOwned, Owning
<1> QED BY <1>1, <1>2, <1>3, <1>4, PendingEffect

(* For every instance: once a session's clean-up has passed pending.retain, no
   Room holds an in-flight request of it, and none appears later. *)
THEOREM NoDanglingPendingHolds == Spec => []NoDanglingPending
<1>1. Init => PendingOwned BY DEF Init, PendingOwned
<1>2. Shape /\ PendingOwned => NoDanglingPending
  <2> SUFFICES ASSUME PendingOwned, NEW s \in Session, NEW o \in Session, NEW r \in Request,
                      pending[o][r] = s
               PROVE  pc[s] \notin {"gc", "done"}
    BY DEF NoDanglingPending
  <2>1. s # None
    BY NoneFresh
  <2> QED BY <2>1 DEF PendingOwned, Owning
<1> QED BY <1>1, <1>2, PendingStep, ShapeInvariant, PTL DEF Spec

-----------------------------------------------------------------------------
(* Empty rooms. *)

(* A Room in the map is held by a session that has not finished its clean-up
   (or whose AuthOk could not be written). *)
RoomsHeld ==
  \A k \in Key : rooms[k] # None =>
    \E s \in Session : room[s] = rooms[k] /\ pc[s] \notin {"init", "rejected", "done"}

LEMMA HeldEffect ==
  ASSUME Shape, [Next]_vars
  PROVE  \/ /\ room' = room
            /\ \A k \in Key : rooms'[k] \in {rooms[k], None}
            /\ \A x \in Session : pc[x] \notin {"init", "rejected", "done"} =>
                                   pc'[x] \notin {"init", "rejected", "done"}
         \/ \E s \in Session : Authenticate(s) \/ LeaveGc(s)
<1> USE DEF registry, tables, Goto, Handles, Shape, TypeOK
<1>1. CASE UNCHANGED vars
  BY <1>1 DEF vars
<1>2. ASSUME NEW s \in Session, Joins(s), ~ Authenticate(s)
      PROVE  /\ room' = room
             /\ \A k \in Key : rooms'[k] \in {rooms[k], None}
             /\ \A x \in Session : pc[x] \notin {"init", "rejected", "done"} =>
                                    pc'[x] \notin {"init", "rejected", "done"}
  BY <1>2 DEF Joins, Reject, AuthOkUndelivered, GcRoom, Register, ListPeers, SendList, Announce
<1>3. ASSUME NEW s \in Session, HandleClientMsg(s)
      PROVE  room' = room /\ rooms' = rooms /\ pc' = pc
  BY <1>3 DEF HandleClientMsg, QueueOnly, ListAgents, Reply, ReplyUnknown, Notify, Command,
     UdpOffer, UdpAnswer, UdpResult, Ping, UpdateAgent
<1>4. ASSUME NEW s \in Session, Leaves(s), ~ LeaveGc(s)
      PROVE  /\ room' = room /\ rooms' = rooms
             /\ \A x \in Session : pc[x] \notin {"init", "rejected", "done"} =>
                                    pc'[x] \notin {"init", "rejected", "done"}
  BY <1>4 DEF Leaves, LeaveRemove, LeaveCheck, LeaveAnnounce, LeaveRetain
<1>5. ASSUME NEW s \in Session,
             Writer(s) \/ CloseSession(s) \/ ReapWriter(s) \/ WriterSend(s)
      PROVE  /\ room' = room /\ rooms' = rooms
             /\ \A x \in Session : pc[x] \notin {"init", "rejected", "done"} =>
                                    pc'[x] \notin {"init", "rejected", "done"}
  BY <1>5 DEF Writer, PeerStall, WriteError, WriterTimeout, WriterEnd,
     CloseSession, ReapWriter, EndReader, WriterSend
<1> QED BY <1>1, <1>2, <1>3, <1>4, <1>5 DEF Next, ServerStep, Idle

LEMMA HeldStep == Shape /\ Keyed /\ RoomsHeld /\ [Next]_vars => RoomsHeld'
<1> SUFFICES ASSUME Shape, Keyed, RoomsHeld, [Next]_vars,
                    NEW k \in Key, rooms'[k] # None
             PROVE  \E s \in Session : room'[s] = rooms'[k]
                                     /\ pc'[s] \notin {"init", "rejected", "done"}
  BY DEF RoomsHeld
<1> USE DEF Shape, TypeOK
<1>1. CASE /\ room' = room
           /\ \A j \in Key : rooms'[j] \in {rooms[j], None}
           /\ \A x \in Session : pc[x] \notin {"init", "rejected", "done"} =>
                                  pc'[x] \notin {"init", "rejected", "done"}
  BY <1>1 DEF RoomsHeld
<1>2. ASSUME NEW s \in Session, Authenticate(s)
      PROVE  \E x \in Session : room'[x] = rooms'[k]
                              /\ pc'[x] \notin {"init", "rejected", "done"}
  <2>1. /\ pc[s] = "init" /\ pc'[s] = "auth"
        /\ \A x \in Session \ {s} : room'[x] = room[x] /\ pc'[x] = pc[x]
    BY <1>2 DEF Authenticate, JoinRoom, Goto
  <2>2. CASE rooms'[k] = rooms[k]
    <3>1. PICK x \in Session : room[x] = rooms[k] /\ pc[x] \notin {"init", "rejected", "done"}
      BY <2>2 DEF RoomsHeld
    <3>2. x # s
      BY <2>1, <3>1
    <3> QED BY <2>1, <2>2, <3>1, <3>2
  <2>3. CASE rooms'[k] # rooms[k]
    <3>1. rooms'[k] = s /\ room'[s] = s
      BY <1>2, <2>3 DEF Authenticate, JoinRoom
    <3> QED BY <2>1, <3>1
  <2> QED BY <2>2, <2>3
<1>3. ASSUME NEW s \in Session, LeaveGc(s)
      PROVE  \E x \in Session : room'[x] = rooms'[k]
                              /\ pc'[x] \notin {"init", "rejected", "done"}
  <2>1. /\ room' = room
        /\ pc[s] = "gc" /\ \A x \in Session \ {s} : pc'[x] = pc[x]
    BY <1>3 DEF LeaveGc, Goto
  <2>2. rooms'[k] = rooms[k]
    BY <1>3 DEF LeaveGc, GcRoom
  <2>3. PICK x \in Session : room[x] = rooms[k] /\ pc[x] \notin {"init", "rejected", "done"}
    BY <2>2 DEF RoomsHeld
  <2>4. CASE x # s
    BY <2>1, <2>2, <2>3, <2>4
  <2>5. CASE x = s
    (* s held the Room of its own key, so gc_room looked at this one and it is
       not empty. *)
    <3>1. KeyOf(s) = k
      BY <2>2, <2>3, <2>5 DEF Keyed
    <3>2. Members(rooms[k]) # {}
      BY <1>3, <2>2, <3>1 DEF LeaveGc, GcRoom
    <3>3. PICK y : y \in Members(rooms[k])
      BY <3>2
    <3>4. y \in Session /\ room[y] = rooms[k] /\ pc[y] \in Entered
      BY <2>2, <3>3 DEF Members, MembersPlaced
    <3> QED BY <2>1, <2>2, <3>4 DEF Entered
  <2> QED BY <2>4, <2>5
<1> QED BY <1>1, <1>2, <1>3, HeldEffect

(* For every instance: when every connection that was let in has gone through
   its clean-up, no Room is left in the map. *)
THEOREM RoomsCollectedHolds == Spec => []RoomsCollected
<1>1. Init => RoomsHeld BY DEF Init, RoomsHeld
<1>2. RoomsHeld => RoomsCollected BY DEF RoomsHeld, RoomsCollected
<1> QED BY <1>1, <1>2, HeldStep, ShapeInvariant, KeyedInvariant, PTL DEF Spec

-----------------------------------------------------------------------------
(* Where replies and UDP answers go: the tables of in-flight requests and offers name
   who issued an id, and the frames that may still be answered are traced to it. *)
(* The session a table names for a channel is the one that made the offer. *)
OffersIssued ==
  \A o \in Session : \A c \in Channel :
    udpOffers[o][c] # None => issuer[c] = udpOffers[o][c]

(* The session a table names for a request is the one that issued it. *)
PendingIssued ==
  \A o \in Session : \A r \in Request :
    pending[o][r] # None => issuer[r] = pending[o][r]

(* A request that may be answered, now or once its frame is written, is pending
   in the Room of its issuer until that one's clean-up. *)
Traced(r) ==
  /\ issuer[r] \in Session
  /\ pc[issuer[r]] \in Owning \cup {"gc", "done"}
  /\ pc[issuer[r]] \in Owning => pending[room[issuer[r]]][r] = issuer[r]
QueuedTraced ==
  \A x \in Session : \A i \in 1..Len(outq[x]) :
    /\ outq[x][i].kind = "command" => \E r \in Request : outq[x][i].id = r /\ Traced(r)
    /\ outq[x][i].kind = "udp_offer" => outq[x][i].id \in Channel
TakenTraced == \A r \in Request : taken[r] # {} => Traced(r)

-----------------------------------------------------------------------------
(* Where the frames of a queue come from. *)

(* A frame that was in the queue of x before the step, and one that the step
   put there: the handler that does so, and whom it is for. *)
Kept(x, i) == /\ Queued(x) => i <= Len(outq[x])
              /\ \E j \in 1..Len(outq[x]) : outq'[x][i] = outq[x][j]
Made(x, m) ==
  /\ m.kind = "reply" /\ m.id # None =>
       \E s \in Session : \E r \in Request :
         Reply(s, r) /\ m.id = r /\ x \in RouteToOrigin(room[s], r)
  /\ m.kind = "udp_answer" =>
       \E s \in Session : \E c \in Channel :
         UdpAnswer(s, c) /\ m.id = c /\ x \in Offerer(room[s], c) \cup mcp[room[s]]
  /\ m.kind = "command" =>
       \E s \in Session : \E r \in Request : \E t \in AllTargets :
         /\ Command(s, r, t) /\ m.id = r
         /\ pending' = [pending EXCEPT ![room[s]][r] = s]
  /\ m.kind = "udp_offer" => m.id \in Channel

LEMMA SendSource ==
  ASSUME Shape, NEW S, NEW m, Send(S, m), NEW x \in Session, NEW i \in 1..Len(outq'[x])
  PROVE  Kept(x, i) \/ (x \in S /\ outq'[x][i] = m)
<1>1. outq[x] \in Seq(Frame) /\ outq[x] \in Seq(Frame \cup {m})
  BY DEF Shape, TypeOK
<1>2. outq'[x] = IF x \in S /\ Accepts(x) THEN Append(outq[x], m) ELSE outq[x]
  BY DEF Send
<1>3. CASE outq'[x] = outq[x]
  BY <1>1, <1>3 DEF Kept
<1>4. CASE x \in S /\ outq'[x] = Append(outq[x], m)
  <2>1. Len(outq'[x]) = Len(outq[x]) + 1
    BY <1>1, <1>4
  <2>2. outq'[x][i] = IF i = Len(outq[x]) + 1 THEN m ELSE outq[x][i]
    BY <1>1, <1>4, <2>1
  <2> QED BY <1>1, <1>4, <2>1, <2>2 DEF Kept
<1> QED BY <1>2, <1>3, <1>4

LEMMA TrimSource ==
  ASSUME Shape, NEW s \in Session, NEW x \in Session, NEW i \in 1..Len(outq'[x]),
         \/ outq' = outq
         \/ outq' = [outq EXCEPT ![s] = <<>>]
         \/ outq[s] # <<>> /\ outq' = [outq EXCEPT ![s] = Tail(@)]
  PROVE  Kept(x, i)
<1>1. outq[x] \in Seq(Frame)
  BY DEF Shape, TypeOK
<1>2. outq'[x] = outq[x] \/ outq'[x] = <<>> \/ (outq[x] # <<>> /\ outq'[x] = Tail(outq[x]))
  BY DEF Shape, TypeOK
<1>3. CASE outq'[x] = outq[x]
  BY <1>1, <1>3 DEF Kept
<1>4. CASE outq'[x] = <<>>
  BY <1>4
<1>5. CASE outq[x] # <<>> /\ outq'[x] = Tail(outq[x])
  <2>1. i + 1 \in 1..Len(outq[x]) /\ outq'[x][i] = outq[x][i + 1]
    BY <1>1, <1>5
  <2>2. i <= Len(outq[x])
    BY <1>1, <2>1
  <2> QED BY <2>1, <2>2 DEF Kept
<1> QED BY <1>2, <1>3, <1>4, <1>5

LEMMA FrameSource ==
  ASSUME Shape, [Next]_vars, NEW x \in Session, NEW i \in 1..Len(outq'[x])
  PROVE  Kept(x, i) \/ Made(x, outq'[x][i])
<1> DEFINE m == outq'[x][i]
           Claim == Kept(x, i) \/ Made(x, m)
<1>k. \A k, s, id, h : Msg(k, s, id, h).kind = k /\ Msg(k, s, id, h).id = id
  BY DEF Msg
<1>o. ASSUME NEW k, k \notin {"reply", "udp_answer", "command", "udp_offer"},
             NEW s, NEW id, NEW h, NEW S, Send(S, Msg(k, s, id, h))
      PROVE  Claim
  <2>1. Kept(x, i) \/ m.kind = k
    BY <1>o, <1>k, SendSource
  <2> QED BY <2>1, <1>o DEF Made
<1> USE DEF QueueOnly
<1>1. CASE UNCHANGED vars
  BY <1>1, TrimSource DEF vars
<1>2. ASSUME NEW s \in Session, Joins(s) PROVE Claim
  <2>1. CASE Reject(s) \/ Authenticate(s) \/ AuthOkUndelivered(s) \/ ListPeers(s)
    BY <2>1, TrimSource DEF Reject, Authenticate, AuthOkUndelivered, ListPeers
  <2>2. CASE Register(s)
    <3>1. outq[s] = <<>> /\ outq[x] \in Seq(Frame)
      BY <2>2 DEF Register, Goto, Shape, Placed, TypeOK
    <3>2. outq'[x] = IF x = s THEN Append(<<>>, Msg("your_endpoint", s, None, {})) ELSE outq[x]
      BY <2>2, <3>1 DEF Register, Shape, TypeOK
    <3>3. CASE x = s
      <4>1. outq'[x] = <<Msg("your_endpoint", s, None, {})>>
        BY <3>2, <3>3
      <4>2. m = Msg("your_endpoint", s, None, {})
        BY <4>1
      <4> QED BY <4>2, <1>k DEF Made
    <3>4. CASE x # s
      BY <3>1, <3>2, <3>4 DEF Kept
    <3> QED BY <3>3, <3>4
  <2>3. CASE SendList(s)
    BY <2>3, <1>o DEF SendList
  <2>4. CASE Announce(s)
    BY <2>4, <1>o DEF Announce
  <2> QED BY <1>2, <2>1, <2>2, <2>3, <2>4 DEF Joins
<1>3. ASSUME NEW s \in Session, HandleClientMsg(s) PROVE Claim
  <2>1. CASE ListAgents(s) \/ Ping(s)
    BY <2>1, <1>o DEF ListAgents, Ping
  <2>2. CASE Notify(s)
    BY <2>2, <1>o DEF Notify
  <2>3. CASE ReplyUnknown(s)
    <3>1. Kept(x, i) \/ m = Msg("reply", s, None, {Host[s]} \ {None})
      BY <2>3, SendSource DEF ReplyUnknown
    <3> QED BY <3>1, <1>k DEF Made
  <2>4. ASSUME NEW r \in Request, Reply(s, r) PROVE Claim
    <3>1. Kept(x, i) \/ (/\ x \in RouteToOrigin(room[s], r)
                         /\ m = Msg("reply", s, r, {Host[s]} \ {None}))
      BY <2>4, SendSource DEF Reply
    <3> QED BY <2>4, <3>1, <1>k DEF Made
  <2>5. ASSUME NEW r \in Request, NEW t \in AllTargets, Command(s, r, t) PROVE Claim
    <3>1. PICK T \in ResolveTargets(agents[room[s]], Host, caps, t) :
            \/ Send({s}, Msg("command_error", s, r, {}))
            \/ /\ Send(T, Msg("command", s, r, {}))
               /\ pending' = [pending EXCEPT ![room[s]][r] = s]
      BY <2>5 DEF Command
    <3>2. CASE Send({s}, Msg("command_error", s, r, {}))
      BY <3>2, <1>o
    <3>3. CASE /\ Send(T, Msg("command", s, r, {}))
               /\ pending' = [pending EXCEPT ![room[s]][r] = s]
      <4>1. Kept(x, i) \/ m = Msg("command", s, r, {})
        BY <3>3, SendSource
      <4>2. \E a \in Session : \E q \in Request : \E u \in AllTargets :
              Command(a, q, u) /\ r = q /\ pending' = [pending EXCEPT ![room[a]][q] = a]
        BY <2>5, <3>3
      <4>3. m = Msg("command", s, r, {}) => m.kind = "command" /\ m.id = r
        BY <1>k
      <4> HIDE DEF m
      <4>4. m.kind = "command" /\ m.id = r => Made(x, m)
        BY <4>2 DEF Made
      <4> QED BY <4>1, <4>3, <4>4
    <3> QED BY <3>1, <3>2, <3>3
  <2>6. ASSUME NEW c \in Channel, UdpAnswer(s, c) PROVE Claim
    <3>1. PICK S : /\ Send(S, Msg("udp_answer", s, c, {}))
                   /\ S = Offerer(room[s], c) \/ S = mcp[room[s]]
      BY <2>6 DEF UdpAnswer
    <3>2. Kept(x, i) \/ (x \in S /\ m = Msg("udp_answer", s, c, {}))
      BY <3>1, SendSource
    <3> QED BY <2>6, <3>1, <3>2, <1>k DEF Made
  <2>7. ASSUME NEW c \in Channel, UdpResult(s, c) PROVE Claim
    BY <2>7, <1>o DEF UdpResult
  <2>8. ASSUME NEW c \in Channel, NEW to \in Session, UdpOffer(s, c, to) PROVE Claim
    <3>1. Kept(x, i) \/ m = Msg("udp_offer", s, c, {})
      BY <2>8, SendSource DEF UdpOffer
    <3> QED BY <3>1, <1>k DEF Made
  <2>9. ASSUME NEW c \in Caps, UpdateAgent(s, c) PROVE Claim
    BY <2>9, <1>o DEF UpdateAgent
  <2> QED BY <1>3, <2>1, <2>2, <2>3, <2>4, <2>5, <2>6, <2>7, <2>8, <2>9 DEF HandleClientMsg
<1>4. ASSUME NEW s \in Session, Leaves(s) PROVE Claim
  <2>1. CASE LeaveAnnounce(s)
    BY <2>1, <1>o DEF LeaveAnnounce
  <2>2. CASE ~ LeaveAnnounce(s)
    BY <1>4, <2>2, TrimSource DEF Leaves, LeaveRemove, LeaveCheck, LeaveRetain, LeaveGc
  <2> QED BY <2>1, <2>2
<1>5. ASSUME NEW s \in Session,
             Writer(s) \/ CloseSession(s) \/ ReapWriter(s) \/ WriterSend(s)
      PROVE  Claim
  BY <1>5, TrimSource DEF Writer, PeerStall, WriteError, WriterTimeout, WriterEnd,
     CloseSession, ReapWriter, EndReader, WriterSend
<1> QED BY <1>1, <1>2, <1>3, <1>4, <1>5 DEF Next, ServerStep, Idle

(* The frame a step appended is one it made. *)
LEMMA NewFrameMade ==
  ASSUME Shape, [Next]_vars, NEW x \in Session, Queued(x)
  PROVE  Made(x, NewFrame(x))
<1>1. outq[x] \in Seq(Frame) /\ outq'[x] \in Seq(Frame)
  BY NextShape DEF Shape, TypeOK
<1>2. Len(outq'[x]) \in 1..Len(outq'[x]) /\ ~ (Len(outq'[x]) <= Len(outq[x]))
  BY <1>1 DEF Queued
<1> QED BY <1>2, FrameSource DEF NewFrame, Kept

-----------------------------------------------------------------------------
(* UDP answers. *)

(* Only an offer and an answer touch the offers, and ids are issued once. *)
LEMMA OffersStep == Shape /\ OffersIssued /\ [Next]_vars => OffersIssued'
<1> SUFFICES ASSUME Shape, OffersIssued, [Next]_vars,
                    NEW o \in Session, NEW c \in Channel, udpOffers'[o][c] # None
             PROVE  issuer'[c] = udpOffers'[o][c]
  BY DEF OffersIssued
<1> USE DEF Shape, TypeOK, tables, history, Handles, QueueOnly, Id
<1>1. CASE UNCHANGED <<udpOffers, issuer>>
  BY <1>1 DEF OffersIssued
<1>2. ASSUME NEW s \in Session, NEW r \in Request, NEW t \in AllTargets, Command(s, r, t)
      PROVE  issuer'[c] = udpOffers'[o][c]
  <2>1. udpOffers' = udpOffers /\ issuer[r] = None /\ issuer' = [issuer EXCEPT ![r] = s]
    BY <1>2 DEF Command
  <2> QED BY <2>1, IdsDisjoint DEF OffersIssued
<1>3. ASSUME NEW s \in Session, NEW d \in Channel, NEW to \in Session, UdpOffer(s, d, to)
      PROVE  issuer'[c] = udpOffers'[o][c]
  <2>1. /\ issuer[d] = None /\ issuer' = [issuer EXCEPT ![d] = s]
        /\ udpOffers' = [udpOffers EXCEPT ![room[s]][d] = s]
    BY <1>3 DEF UdpOffer
  <2>2. CASE c = d
    BY <2>1, <2>2 DEF OffersIssued
  <2>3. CASE c # d
    BY <2>1, <2>3 DEF OffersIssued
  <2> QED BY <2>2, <2>3
<1>4. ASSUME NEW s \in Session, NEW d \in Channel, UdpAnswer(s, d)
      PROVE  issuer'[c] = udpOffers'[o][c]
  <2>1. issuer' = issuer /\ udpOffers' = [udpOffers EXCEPT ![room[s]][d] = None]
    BY <1>4 DEF UdpAnswer
  <2>2. udpOffers'[o][c] = udpOffers[o][c]
    BY <2>1
  <2> QED BY <2>1, <2>2 DEF OffersIssued
<1>5. \/ UNCHANGED <<udpOffers, issuer>>
      \/ \E s \in Session : \E d \in Channel :
           UdpAnswer(s, d) \/ \E to \in Session : UdpOffer(s, d, to)
      \/ \E s \in Session : \E r \in Request : \E t \in AllTargets : Command(s, r, t)
  <2>1. ASSUME NEW s \in Session, HandleClientMsg(s)
        PROVE  \/ UNCHANGED <<udpOffers, issuer>>
               \/ \E d \in Channel : UdpAnswer(s, d) \/ \E to \in Session : UdpOffer(s, d, to)
               \/ \E r \in Request : \E t \in AllTargets : Command(s, r, t)
    BY <2>1 DEF HandleClientMsg, ListAgents, Reply, ReplyUnknown, Notify, UdpResult, Ping, UpdateAgent
  <2>2. ASSUME NEW s \in Session, Joins(s) PROVE UNCHANGED <<udpOffers, issuer>>
    BY <2>2 DEF Joins, Reject, Authenticate, AuthOkUndelivered, Register, ListPeers, SendList, Announce
  <2>3. ASSUME NEW s \in Session, Leaves(s) PROVE UNCHANGED <<udpOffers, issuer>>
    BY <2>3 DEF Leaves, LeaveRemove, LeaveCheck, LeaveAnnounce, LeaveRetain, LeaveGc
  <2>4. ASSUME NEW s \in Session,
               Writer(s) \/ CloseSession(s) \/ ReapWriter(s) \/ WriterSend(s)
        PROVE  UNCHANGED <<udpOffers, issuer>>
    BY <2>4 DEF Writer, PeerStall, WriteError, WriterTimeout, WriterEnd,
       CloseSession, ReapWriter, EndReader, WriterSend
  <2> QED BY <2>1, <2>2, <2>3, <2>4 DEF Next, ServerStep, Idle, vars
<1> QED BY <1>1, <1>2, <1>3, <1>4, <1>5

(* For every instance: a UDP answer is queued for the session that made the
   offer or for an observer, and for no other peer. *)
THEOREM AnswerRoutingHolds == Spec => AnswerRouting
<1>1. Init => OffersIssued
  BY DEF Init, OffersIssued
<1>2. ASSUME Shape, OffersIssued, [Next]_vars
      PROVE  [\A x \in Session :
                Queued(x) /\ NewFrame(x).kind = "udp_answer" =>
                  x = issuer[NewFrame(x).id] \/ Host[x] = None]_vars
  <2> SUFFICES ASSUME NEW x \in Session, Queued(x), NewFrame(x).kind = "udp_answer"
               PROVE  x = issuer[NewFrame(x).id] \/ Host[x] = None
    OBVIOUS
  <2>1. PICK s \in Session, c \in Channel :
          /\ UdpAnswer(s, c) /\ NewFrame(x).id = c
          /\ x \in Offerer(room[s], c) \cup mcp[room[s]]
    BY <1>2, NewFrameMade DEF Made
  <2>2. room[s] \in Session
    BY <1>2, <2>1 DEF UdpAnswer, Handles, Shape, TypeOK, Placed
  <2>3. CASE x \in Offerer(room[s], c)
    BY <1>2, <2>1, <2>2, <2>3 DEF Offerer, FindSession, OffersIssued
  <2>4. CASE x \in mcp[room[s]]
    BY <1>2, <2>2, <2>4 DEF Shape, MembersPlaced
  <2> QED BY <2>1, <2>3, <2>4
<1> QED BY <1>1, <1>2, OffersStep, ShapeInvariant, PTL DEF Spec, AnswerRouting

-----------------------------------------------------------------------------
(* Replies. *)

(* Which actions touch what tells a request's issuer, its entry and its Room. *)
LEMMA TraceEffect ==
  ASSUME Shape, [Next]_vars
  PROVE  \/ /\ UNCHANGED <<pending, room>> /\ \A r \in Request : issuer'[r] = issuer[r]
            /\ \A x \in Session : /\ pc[x] \in Owning => pc'[x] \in Owning
                                  /\ pc[x] \in {"gc", "done"} => pc'[x] \in {"gc", "done"}
         \/ \E s \in Session : LeaveRetain(s) \/ Authenticate(s)
         \/ \E s \in Session : \E r \in Request : \E t \in AllTargets : Command(s, r, t)
<1> DEFINE Still == /\ UNCHANGED <<pending, room>> /\ \A r \in Request : issuer'[r] = issuer[r]
                    /\ \A x \in Session : /\ pc[x] \in Owning => pc'[x] \in Owning
                                          /\ pc[x] \in {"gc", "done"} => pc'[x] \in {"gc", "done"}
<1> USE DEF registry, tables, history, Goto, Handles, Owning, Shape, TypeOK
<1>1. CASE UNCHANGED vars
  BY <1>1 DEF vars
<1>2. ASSUME NEW s \in Session, Joins(s) PROVE Still \/ Authenticate(s)
  BY <1>2 DEF Joins, Reject, AuthOkUndelivered, Register, ListPeers, SendList, Announce
<1>3. ASSUME NEW s \in Session, HandleClientMsg(s)
      PROVE  Still \/ \E r \in Request : \E t \in AllTargets : Command(s, r, t)
  <2>1. ASSUME NEW c \in Channel, NEW to \in Session, UdpOffer(s, c, to) PROVE Still
    BY <2>1, IdsDisjoint DEF UdpOffer, Id
  <2>2. CASE \A c \in Channel, to \in Session : ~ UdpOffer(s, c, to)
    BY <1>3, <2>2 DEF HandleClientMsg, QueueOnly, ListAgents, Reply, ReplyUnknown, Notify,
       UdpAnswer, UdpResult, Ping, UpdateAgent
  <2> QED BY <2>1, <2>2
<1>4. ASSUME NEW s \in Session, Leaves(s) PROVE Still \/ LeaveRetain(s)
  BY <1>4 DEF Leaves, LeaveRemove, LeaveCheck, LeaveAnnounce, LeaveGc
<1>5. ASSUME NEW s \in Session,
             Writer(s) \/ CloseSession(s) \/ ReapWriter(s) \/ WriterSend(s)
      PROVE  Still
  BY <1>5 DEF Writer, PeerStall, WriteError, WriterTimeout, WriterEnd,
     CloseSession, ReapWriter, EndReader, WriterSend
<1> QED BY <1>1, <1>2, <1>3, <1>4, <1>5 DEF Next, ServerStep, Idle

(* One entry changes. *)
LEMMA PendingAt ==
  ASSUME Shape, NEW p, NEW q, NEW s, pending' = [pending EXCEPT ![p][q] = s],
         NEW o \in Session, NEW r \in Request
  PROVE  pending'[o][r] = IF o = p /\ r = q THEN s ELSE pending[o][r]
<1>1. pending'[o] = IF o = p THEN [pending[o] EXCEPT ![q] = s] ELSE pending[o]
  BY DEF Shape, TypeOK
<1>2. pending[o] \in [Request -> Session \cup {None}]
  BY DEF Shape, TypeOK
<1> QED BY <1>1, <1>2

LEMMA PendingIssuedStep == Shape /\ PendingIssued /\ [Next]_vars => PendingIssued'
<1> SUFFICES ASSUME Shape, PendingIssued, [Next]_vars,
                    NEW o \in Session, NEW r \in Request, pending'[o][r] # None
             PROVE  issuer'[r] = pending'[o][r]
  BY DEF PendingIssued
<1>a. ASSUME NEW s \in Session, NEW q \in Request,
             pending' = [pending EXCEPT ![room[s]][q] = s]
      PROVE  pending'[o][r] = IF o = room[s] /\ r = q THEN s ELSE pending[o][r]
  <2>1. pending'[o] = IF o = room[s] THEN [pending[o] EXCEPT ![q] = s] ELSE pending[o]
    BY <1>a DEF Shape, TypeOK
  <2>2. pending[o] \in [Request -> Session \cup {None}]
    BY DEF Shape, TypeOK
  <2> QED BY <2>1, <2>2
<1> USE DEF Shape, TypeOK, Id
<1>1. CASE (\A q \in Request : issuer'[q] = issuer[q]) /\ pending' = pending
  BY <1>1 DEF PendingIssued
<1>2. ASSUME NEW s \in Session, LeaveRetain(s)
      PROVE  issuer'[r] = pending'[o][r]
  BY <1>2 DEF LeaveRetain, history, PendingIssued
<1>3. ASSUME NEW s \in Session, NEW q \in Request, NEW t \in AllTargets, Command(s, q, t)
      PROVE  issuer'[r] = pending'[o][r]
  <2>1. /\ issuer[q] = None /\ issuer' = [issuer EXCEPT ![q] = s]
        /\ pending' = pending \/ pending' = [pending EXCEPT ![room[s]][q] = s]
    BY <1>3 DEF Command
  <2>2. CASE r # q
    <3>1. pending'[o][r] = pending[o][r]
      BY <2>1, <2>2, <1>a
    <3> QED BY <2>1, <2>2, <3>1 DEF PendingIssued
  <2>3. CASE r = q
    <3>1. pending[o][q] = None
      BY <2>1, <2>3 DEF PendingIssued
    <3>2. pending'[o][q] \in {None, s}
      BY <2>1, <2>3, <3>1, <1>a
    <3> QED BY <2>1, <2>3, <3>2
  <2> QED BY <2>2, <2>3
<1>4. ASSUME NEW s \in Session, Authenticate(s)
      PROVE  (\A q \in Request : issuer'[q] = issuer[q]) /\ pending' = pending
  BY <1>4 DEF Authenticate, tables, history
<1> QED BY <1>1, <1>2, <1>3, <1>4, TraceEffect

(* Once traced, a request stays so. *)
LEMMA TracedStep ==
  ASSUME Shape, [Next]_vars, NEW r \in Request, Traced(r)
  PROVE  Traced(r)'
<1> DEFINE y == issuer[r]
<1>a. y \in Session /\ y # None /\ room[y] \in Session
  BY NoneFresh DEF Traced, Shape, TypeOK, Placed, Owning
<1>b. ASSUME NEW p, NEW q, NEW s, pending' = [pending EXCEPT ![p][q] = s], q # r
      PROVE  pending'[room[y]][r] = pending[room[y]][r]
  BY <1>a, <1>b, PendingAt
<1> USE DEF Shape, TypeOK, Id
<1>1. CASE /\ UNCHANGED <<pending, room>> /\ \A q \in Request : issuer'[q] = issuer[q]
           /\ \A x \in Session : /\ pc[x] \in Owning => pc'[x] \in Owning
                                 /\ pc[x] \in {"gc", "done"} => pc'[x] \in {"gc", "done"}
  BY <1>1, <1>a DEF Traced, Owning
<1>2. ASSUME NEW s \in Session, LeaveRetain(s) PROVE Traced(r)'
  <2>1. /\ UNCHANGED <<room, issuer>>
        /\ pc[s] = "retain" /\ pc' = [pc EXCEPT ![s] = "gc"]
        /\ \A o \in Session : pending'[o][r] = pending[o][r]
                           \/ pending[o][r] = s
    BY <1>2 DEF LeaveRetain, Goto, registry, history
  <2>2. CASE y = s
    BY <2>1, <2>2, <1>a DEF Traced, Owning
  <2>3. CASE y # s
    BY <2>1, <2>3, <1>a DEF Traced
  <2> QED BY <2>2, <2>3
<1>3. ASSUME NEW s \in Session, Authenticate(s) PROVE Traced(r)'
  <2>1. /\ UNCHANGED <<pending, issuer>>
        /\ pc[s] = "init" /\ pc' = [pc EXCEPT ![s] = "auth"]
        /\ \A x \in Session \ {s} : room'[x] = room[x]
    BY <1>3 DEF Authenticate, JoinRoom, Goto, tables, history
  <2>2. y # s
    BY <2>1 DEF Traced, Owning
  <2> QED BY <2>1, <2>2, <1>a DEF Traced
<1>4. ASSUME NEW s \in Session, NEW q \in Request, NEW t \in AllTargets, Command(s, q, t)
      PROVE  Traced(r)'
  <2>1. /\ issuer[q] = None /\ issuer' = [issuer EXCEPT ![q] = s]
        /\ pending' = pending \/ pending' = [pending EXCEPT ![room[s]][q] = s]
        /\ UNCHANGED <<pc, room>>
    BY <1>4 DEF Command, registry
  <2>2. q # r
    BY <2>1, <1>a
  <2>3. issuer'[r] = y /\ pending'[room[y]][r] = pending[room[y]][r]
    BY <2>1, <2>2, <1>a, <1>b
  <2> QED BY <2>1, <2>3, <1>a DEF Traced
<1> QED BY <1>1, <1>2, <1>3, <1>4, TraceEffect

(* A command that a step puts into a queue is pending in its issuer's Room. *)
LEMMA CommandTraced ==
  ASSUME Shape, NEW s \in Session, NEW r \in Request, NEW t, Command(s, r, t),
         pending' = [pending EXCEPT ![room[s]][r] = s]
  PROVE  Traced(r)'
<1>1. /\ pc[s] = "open" /\ pc' = pc /\ room' = room
      /\ issuer' = [issuer EXCEPT ![r] = s]
  BY DEF Command, Handles, registry
<1>2. room[s] \in Session
  BY <1>1 DEF Shape, TypeOK, Placed
<1>3. issuer'[r] = s /\ pending'[room[s]][r] = s
  BY <1>1, <1>2 DEF Shape, TypeOK, Id
<1> QED BY <1>1, <1>3 DEF Traced, Owning

LEMMA QueuedStep == Shape /\ QueuedTraced /\ [Next]_vars => QueuedTraced'
<1> SUFFICES ASSUME Shape, QueuedTraced, [Next]_vars,
                    NEW x \in Session, NEW i \in 1..Len(outq'[x])
             PROVE  /\ outq'[x][i].kind = "command" =>
                         \E r \in Request : outq'[x][i].id = r /\ Traced(r)'
                    /\ outq'[x][i].kind = "udp_offer" => outq'[x][i].id \in Channel
  BY DEF QueuedTraced
<1>1. CASE Kept(x, i)
  <2>1. PICK j \in 1..Len(outq[x]) : outq'[x][i] = outq[x][j]
    BY <1>1 DEF Kept
  <2>2. ASSUME outq'[x][i].kind = "command"
        PROVE  \E r \in Request : outq'[x][i].id = r /\ Traced(r)'
    <3>1. PICK r \in Request : outq'[x][i].id = r /\ Traced(r)
      BY <2>1, <2>2 DEF QueuedTraced
    <3> QED BY <3>1, TracedStep
  <2> QED BY <2>1, <2>2 DEF QueuedTraced
<1>2. CASE Made(x, outq'[x][i])
  <2>1. ASSUME outq'[x][i].kind = "command"
        PROVE  \E r \in Request : outq'[x][i].id = r /\ Traced(r)'
    <3>1. PICK s \in Session, r \in Request, t \in AllTargets :
            /\ Command(s, r, t) /\ outq'[x][i].id = r
            /\ pending' = [pending EXCEPT ![room[s]][r] = s]
      BY <1>2, <2>1 DEF Made
    <3> QED BY <3>1, CommandTraced
  <2> QED BY <1>2, <2>1 DEF Made
<1> QED BY <1>1, <1>2, FrameSource

LEMMA TakenStep == Shape /\ QueuedTraced /\ TakenTraced /\ [Next]_vars => TakenTraced'
<1> SUFFICES ASSUME Shape, QueuedTraced, TakenTraced, [Next]_vars,
                    NEW r \in Request, taken'[r] # {}
             PROVE  Traced(r)'
  BY DEF TakenTraced, Traced
<1>1. CASE taken' = taken
  BY <1>1, TracedStep DEF TakenTraced
<1>2. ASSUME NEW s \in Session, WriterSend(s), taken' # taken PROVE Traced(r)'
  <2> DEFINE m == Head(outq[s])
  <2>1. /\ m = outq[s][1] /\ 1 \in 1..Len(outq[s])
        /\ m.kind \in {"command", "udp_offer"}
        /\ taken' = [taken EXCEPT ![m.id] = @ \cup {s}]
    BY <1>2 DEF WriterSend, Shape, TypeOK
  <2>2. m.kind = "command" => \E q \in Request : m.id = q /\ Traced(q)
    BY <2>1 DEF QueuedTraced
  <2>3. m.kind = "udp_offer" => m.id \in Channel
    BY <2>1 DEF QueuedTraced
  <2> HIDE DEF m
  <2>4. r = m.id \/ taken'[r] = taken[r]
    BY <2>1 DEF Shape, TypeOK, Id
  <2>5. Traced(r)
    BY <2>1, <2>2, <2>3, <2>4, IdsDisjoint DEF TakenTraced
  <2> QED BY <2>5, TracedStep
<1>3. taken' = taken \/ \E s \in Session : WriterSend(s)
  <2> USE DEF history, QueueOnly
  <2>1. ASSUME NEW s \in Session, HandleClientMsg(s) PROVE taken' = taken
    BY <2>1 DEF HandleClientMsg, ListAgents, Command, Reply, ReplyUnknown, Notify, UdpOffer,
       UdpAnswer, UdpResult, Ping, UpdateAgent
  <2>2. ASSUME NEW s \in Session, Joins(s) PROVE taken' = taken
    BY <2>2 DEF Joins, Reject, Authenticate, AuthOkUndelivered, Register, ListPeers, SendList, Announce
  <2>3. ASSUME NEW s \in Session, Leaves(s) PROVE taken' = taken
    BY <2>3 DEF Leaves, LeaveRemove, LeaveCheck, LeaveAnnounce, LeaveRetain, LeaveGc
  <2>4. ASSUME NEW s \in Session, Writer(s) \/ CloseSession(s) \/ ReapWriter(s)
        PROVE  taken' = taken
    BY <2>4 DEF Writer, PeerStall, WriteError, WriterTimeout, WriterEnd,
       CloseSession, ReapWriter, EndReader
  <2> QED BY <2>1, <2>2, <2>3, <2>4 DEF Next, ServerStep, Idle, vars
<1> QED BY <1>1, <1>2, <1>3

(* For every instance: a reply to a command the relay forwarded is queued for
   the session that issued it; an observer gets it only when the issuer is no
   longer in the Room the reply came from. *)
THEOREM ReplyRoutingHolds == Spec => ReplyRouting
<1>1. Init => PendingIssued /\ QueuedTraced /\ TakenTraced
  <2>1. Init => PendingIssued /\ TakenTraced
    BY DEF Init, PendingIssued, TakenTraced, Id
  <2>2. Init => QueuedTraced
    BY DEF Init, QueuedTraced
  <2> QED BY <2>1, <2>2
<1>2. ASSUME Shape, PendingIssued, TakenTraced, [Next]_vars
      PROVE  [\A x \in Session :
                Queued(x) /\ NewFrame(x).kind = "reply" /\ NewFrame(x).id # None =>
                  LET origin == issuer[NewFrame(x).id] IN
                    \/ x = origin
                    \/ x \in mcp[room[x]] /\ origin \notin Members(room[x])]_vars
  <2> SUFFICES ASSUME NEW x \in Session, Queued(x),
                      NewFrame(x).kind = "reply", NewFrame(x).id # None
               PROVE  LET origin == issuer[NewFrame(x).id] IN
                        \/ x = origin
                        \/ x \in mcp[room[x]] /\ origin \notin Members(room[x])
    OBVIOUS
  <2>1. PICK s \in Session, r \in Request :
          Reply(s, r) /\ NewFrame(x).id = r /\ x \in RouteToOrigin(room[s], r)
    BY <1>2, NewFrameMade DEF Made
  <2> DEFINE o == room[s]
  <2>2. o \in Session
    BY <1>2, <2>1 DEF Reply, Handles, Shape, TypeOK, Placed
  <2>3. CASE x \in Origin(o, r)
    BY <1>2, <2>1, <2>2, <2>3 DEF Origin, FindSession, PendingIssued
  <2>4. CASE Origin(o, r) = {} /\ x \in mcp[o]
    <3>1. room[x] = o
      BY <1>2, <2>2, <2>4 DEF Shape, MembersPlaced
    <3>2. Traced(r)
      BY <1>2, <2>1 DEF Reply, CanAnswer, TakenTraced
    <3>3. ASSUME issuer[r] \in Members(o) PROVE FALSE
      <4>1. room[issuer[r]] = o /\ pc[issuer[r]] \in Owning
        BY <1>2, <2>2, <3>2, <3>3 DEF Shape, MembersPlaced, Members, Traced, Entered, Owning
      <4>2. pending[o][r] = issuer[r] /\ issuer[r] # None
        BY <3>2, <4>1, NoneFresh DEF Traced
      <4> QED BY <2>4, <3>3, <4>2 DEF Origin, FindSession
    <3> QED BY <2>1, <2>4, <3>1, <3>3
  <2>5. x \in Origin(o, r) \/ (Origin(o, r) = {} /\ x \in mcp[o])
    BY <2>1 DEF RouteToOrigin
  <2> QED BY <2>3, <2>4, <2>5
<1> QED BY <1>1, <1>2, PendingIssuedStep, QueuedStep, TakenStep, ShapeInvariant, PTL DEF Spec, ReplyRouting

-----------------------------------------------------------------------------
(* Rosters (RelayPeers) *)

(* A frame that says whether machine h is there, and what it says. *)
Speaks(m, h) ==
  m.kind = "agent_list" \/ (m.kind \in {"agent_joined", "agent_left"} /\ h \in m.hosts)
Says(m, h) == m.kind # "agent_left" /\ h \in m.hosts

(* Whether a peer that has absorbed the frames q has h in its roster. *)
Learns(q, roster, h) ==
  \/ \E i \in 1..Len(q) : /\ Speaks(q[i], h) /\ Says(q[i], h)
                          /\ \A j \in i + 1..Len(q) : ~ Speaks(q[j], h)
  \/ h \in roster /\ \A i \in 1..Len(q) : ~ Speaks(q[i], h)

(* A peer that has been sent its list and reads, undisturbed. *)
Informed(s) ==
  /\ pc[s] \in {"announce", "open"} /\ Host[s] # None /\ writer[s] = "running"
  /\ s \notin missed /\ room[s] \notin overlap

(* Every peer on its way is in the map of its Room. *)
Inside == \A s \in Session : pc[s] \in Entered /\ Host[s] # None => s \in agents[room[s]]

(* Membership changes that have not overlapped come one at a time; what a newcomer was
   listed is the room as it is, and a machine said to leave has left. *)
OneAtATime ==
  \A s, x \in Session :
    Changing(s) /\ Changing(x) /\ room[s] = room[x] /\ room[s] \notin overlap => s = x
ListExact ==
  \A s \in Session : pc[s] = "listed" /\ room[s] \notin overlap =>
    snap[s] = HostsIn(room[s]) \ {Host[s]}
LeftIsGone ==
  \A s \in Session : pc[s] = "left" /\ room[s] \notin overlap => Host[s] \notin HostsIn(room[s])

(* A queue in which nothing promises a peer its own machine, and nobody is told of it
   otherwise. *)
Modest(q, s) == \A i \in 1..Len(q) : Speaks(q[i], Host[s]) => ~ Says(q[i], Host[s])
NotItself ==
  \A s \in Session : Host[s] # None =>
    Host[s] \notin peers[s] /\ Host[s] \notin snap[s] /\ Modest(outq[s], s)

(* What a peer will know of a machine that is not just coming or going is whether it is
   there; one that may be going it still knows. *)
Knows(s, h) ==
  /\ (\A x \in Session : Changing(x) /\ room[x] = room[s] => Host[x] # h) =>
       (Learns(outq[s], peers[s], h) <=> h \in HostsIn(room[s]))
  /\ (\E x \in Session : pc[x] = "check" /\ room[x] = room[s] /\ Host[x] = h) =>
       Learns(outq[s], peers[s], h)
WillKnow ==
  \A s \in Session : Informed(s) => \A h \in Agent \ {Host[s]} : Knows(s, h)

Rosters ==
  /\ peers \in [Session -> SUBSET Agent]
  /\ Inside /\ OneAtATime /\ ListExact /\ LeftIsGone /\ NotItself /\ WillKnow

LEMMA LearnsNothing ==
  ASSUME NEW roster, NEW h
  PROVE  Learns(<<>>, roster, h) <=> h \in roster
BY DEF Learns

(* The last frame decides. *)
LEMMA LearnsAppended ==
  ASSUME NEW q \in Seq(Frame), NEW m \in Frame, NEW roster, NEW h
  PROVE  /\ Speaks(m, h) => (Learns(Append(q, m), roster, h) <=> Says(m, h))
         /\ ~ Speaks(m, h) => (Learns(Append(q, m), roster, h) <=> Learns(q, roster, h))
<1> DEFINE n == Len(q)
           r == Append(q, m)
<1>1. n \in Nat /\ Len(r) = n + 1 /\ r[n + 1] = m /\ \A i \in 1..n : r[i] = q[i]
  OBVIOUS
<1> HIDE DEF r
<1>2. \A i \in 1..Len(r) : i = n + 1 \/ i \in 1..n
  BY <1>1
<1>3. ASSUME Speaks(m, h) PROVE Learns(r, roster, h) <=> Says(m, h)
  <2>1. ASSUME NEW i \in 1..Len(r), \A j \in i + 1..Len(r) : ~ Speaks(r[j], h)
        PROVE  i = n + 1
    <3>1. CASE i \in 1..n
      <4>1. n + 1 \in i + 1..Len(r)
        BY <1>1, <3>1
      <4> QED BY <1>1, <1>3, <2>1, <4>1
    <3> QED BY <1>2, <3>1
  <2>2. n + 1 \in 1..Len(r) /\ n + 1 + 1..Len(r) = {}
    BY <1>1
  <2> QED BY <1>1, <1>3, <2>1, <2>2 DEF Learns
<1>4. ASSUME ~ Speaks(m, h) PROVE Learns(r, roster, h) <=> Learns(q, roster, h)
  <2>1. (\A i \in 1..Len(r) : ~ Speaks(r[i], h)) <=> (\A i \in 1..n : ~ Speaks(q[i], h))
    BY <1>1, <1>2, <1>4
  <2>2. ASSUME NEW i \in 1..n
        PROVE  (\A j \in i + 1..Len(r) : ~ Speaks(r[j], h)) <=>
               (\A j \in i + 1..n : ~ Speaks(q[j], h))
    <3>1. \A j \in i + 1..Len(r) : j = n + 1 \/ j \in i + 1..n
      BY <1>1
    <3>2. \A j \in i + 1..n : j \in i + 1..Len(r) /\ j \in 1..n
      BY <1>1
    <3> QED BY <1>1, <1>4, <3>1, <3>2
  <2>3. \A i \in 1..n : i \in 1..Len(r)
    BY <1>1
  <2> QED BY <1>1, <1>2, <1>4, <2>1, <2>2, <2>3 DEF Learns
<1> QED BY <1>3, <1>4 DEF r

(* What is absorbed is not forgotten. *)
LEMMA LearnsAbsorbed ==
  ASSUME NEW q \in Seq(Frame), q # <<>>, NEW roster, NEW h
  PROVE  Learns(Tail(q), Absorb(roster, Head(q)), h) <=> Learns(q, roster, h)
<1> DEFINE n == Len(q)
           r == Tail(q)
           known == Absorb(roster, Head(q))
<1>1. n \in Nat /\ n # 0 /\ Len(r) = n - 1 /\ Head(q) = q[1] /\ \A i \in 1..n - 1 : r[i] = q[i + 1]
  OBVIOUS
<1>2. h \in known <=> IF Speaks(q[1], h) THEN Says(q[1], h) ELSE h \in roster
  <2>1. q[1] \in Frame
    BY <1>1
  <2> QED BY <1>1, <2>1 DEF Absorb, Speaks, Says, Frame
<1> HIDE DEF r, known
<1>3. \A i \in 1..n : i = 1 \/ (i - 1 \in 1..n - 1 /\ q[i] = r[i - 1])
  BY <1>1
<1>4. 1 \in 1..n /\ \A i \in 1..n - 1 : i + 1 \in 1..n /\ i \in 1..Len(r)
  BY <1>1
<1>5. (\A i \in 1..Len(r) : ~ Speaks(r[i], h)) <=> (\A j \in 1 + 1..n : ~ Speaks(q[j], h))
  <2>1. \A i \in 1..Len(r) : i + 1 \in 1 + 1..n /\ r[i] = q[i + 1]
    BY <1>1
  <2>2. \A j \in 1 + 1..n : j - 1 \in 1..Len(r) /\ r[j - 1] = q[j]
    BY <1>1
  <2> QED BY <2>1, <2>2
<1>6. ASSUME NEW i \in 1..n - 1
      PROVE  (\A j \in i + 1..Len(r) : ~ Speaks(r[j], h)) <=>
             (\A j \in i + 1 + 1..n : ~ Speaks(q[j], h))
  <2>1. \A j \in i + 1..Len(r) : j + 1 \in i + 1 + 1..n /\ r[j] = q[j + 1]
    BY <1>1
  <2>2. \A j \in i + 1 + 1..n : j - 1 \in i + 1..Len(r) /\ r[j - 1] = q[j]
    BY <1>1
  <2> QED BY <2>1, <2>2
<1>7. ASSUME \A j \in 1 + 1..n : ~ Speaks(q[j], h)
      PROVE  Learns(r, known, h) <=> Learns(q, roster, h)
  <2>1. Learns(r, known, h) <=> h \in known
    BY <1>5, <1>7 DEF Learns
  <2>2. \A i \in 1..n : i = 1 \/ ~ Speaks(q[i], h)
    <3>1. \A i \in 1..n : i = 1 \/ i \in 1 + 1..n
      BY <1>1
    <3> QED BY <1>7, <3>1
  <2>3. Learns(q, roster, h) <=> IF Speaks(q[1], h) THEN Says(q[1], h) ELSE h \in roster
    BY <1>4, <1>7, <2>2 DEF Learns
  <2> QED BY <1>2, <2>1, <2>3
<1>8. ASSUME ~ \A j \in 1 + 1..n : ~ Speaks(q[j], h)
      PROVE  Learns(r, known, h) <=> Learns(q, roster, h)
  <2>1. ~ (\A i \in 1..Len(r) : ~ Speaks(r[i], h)) /\ ~ (\A i \in 1..n : ~ Speaks(q[i], h))
    <3>1. \A j \in 1 + 1..n : j \in 1..n
      BY <1>1
    <3> QED BY <1>5, <1>8, <3>1
  <2>2. ASSUME NEW i \in 1..Len(r), Speaks(r[i], h), Says(r[i], h),
               \A j \in i + 1..Len(r) : ~ Speaks(r[j], h)
        PROVE  Learns(q, roster, h)
    <3>1. i \in 1..n - 1 /\ i + 1 \in 1..n /\ r[i] = q[i + 1]
      BY <1>1
    <3> QED BY <1>6, <2>2, <3>1 DEF Learns
  <2>3. ASSUME NEW i \in 1..n, Speaks(q[i], h), Says(q[i], h),
               \A j \in i + 1..n : ~ Speaks(q[j], h)
        PROVE  Learns(r, known, h)
    <3>1. i # 1
      BY <1>8, <2>3
    <3>2. i - 1 \in 1..n - 1 /\ i - 1 + 1 = i /\ q[i] = r[i - 1] /\ i - 1 \in 1..Len(r)
      BY <1>1, <1>3, <3>1
    <3> QED BY <1>6, <2>3, <3>2 DEF Learns
  <2> QED BY <2>1, <2>2, <2>3 DEF Learns
<1> QED BY <1>7, <1>8 DEF r, known

(* Queuing a frame: what its receivers learn from it, and everybody else. *)
LEMMA SendTells ==
  ASSUME Shape, NEW S, NEW m \in Frame, Send(S, m), NEW t \in Session, NEW roster, NEW h
  PROVE  /\ t \in S /\ Accepts(t) /\ Speaks(m, h) => (Learns(outq'[t], roster, h) <=> Says(m, h))
         /\ ~ (t \in S /\ Accepts(t) /\ Speaks(m, h)) =>
              (Learns(outq'[t], roster, h) <=> Learns(outq[t], roster, h))
<1>1. outq[t] \in Seq(Frame)
  BY DEF Shape, TypeOK
<1>2. outq'[t] = IF t \in S /\ Accepts(t) THEN Append(outq[t], m) ELSE outq[t]
  BY DEF Send
<1> QED BY <1>1, <1>2, LearnsAppended

(* Steps on the queues that keep them so. *)
LEMMA SendModest ==
  ASSUME Shape, NEW S, NEW m \in Frame, Send(S, m), NEW t \in Session, Modest(outq[t], t),
         t \in S /\ Speaks(m, Host[t]) => ~ Says(m, Host[t])
  PROVE  Modest(outq'[t], t)
<1>1. ASSUME NEW i \in 1..Len(outq'[t]), Speaks(outq'[t][i], Host[t])
      PROVE  ~ Says(outq'[t][i], Host[t])
  <2>1. Kept(t, i) \/ (t \in S /\ outq'[t][i] = m)
    BY SendSource
  <2> QED BY <1>1, <2>1 DEF Kept, Modest
<1> QED BY <1>1 DEF Modest

LEMMA TrimModest ==
  ASSUME Shape, NEW s \in Session, NEW t \in Session, Modest(outq[t], t),
         \/ outq' = outq
         \/ outq' = [outq EXCEPT ![s] = <<>>]
         \/ outq[s] # <<>> /\ outq' = [outq EXCEPT ![s] = Tail(@)]
  PROVE  Modest(outq'[t], t)
<1>1. ASSUME NEW i \in 1..Len(outq'[t]), Speaks(outq'[t][i], Host[t])
      PROVE  ~ Says(outq'[t][i], Host[t])
  <2>1. Kept(t, i)
    BY TrimSource
  <2> QED BY <1>1, <2>1 DEF Kept, Modest
<1> QED BY <1>1 DEF Modest

(* What Server records. *)
Recorded(s) ==
  /\ peers' = peers /\ overlap \subseteq overlap' /\ missed \subseteq missed'
  /\ \A x, y \in Session : Changing(x)' /\ Changing(y)' /\ room'[x] = room'[y] /\ x # y =>
       room'[x] \in overlap'
  /\ pc' # pc => \A x \in Told(s) : Accepts(x) \/ x \in missed'

LEMMA ServerRecords ==
  ASSUME NEW s \in Session, Server(s), Shape
  PROVE  Recorded(s)
<1>1. peers' = peers /\ overlap \subseteq overlap'
  BY DEF Server
<1>2. missed \subseteq missed'
  BY DEF Server
<1>3. pc' # pc => \A x \in Told(s) : Accepts(x) \/ x \in missed'
  BY DEF Server
<1>4. ASSUME NEW x \in Session, NEW y \in Session, Changing(x)', Changing(y)', room'[x] = room'[y],
             x # y
      PROVE  room'[x] \in overlap'
  BY <1>4 DEF Server
<1> QED BY <1>1, <1>2, <1>3, <1>4 DEF Recorded

(* One step moves one session, and only authentication gives it a Room. *)
Local(s) ==
  /\ \A x \in Session : x # s => pc'[x] = pc[x] /\ room'[x] = room[x]
  /\ \A x \in Session : pc[x] # "init" => room'[x] = room[x]
  /\ \A x \in Session : writer'[x] = "running" => writer[x] = "running" \/ x = s

LEMMA JoinsLocal ==
  ASSUME Shape, NEW s \in Session, Joins(s)
  PROVE  Local(s)
<1> USE DEF Local, Shape, TypeOK, Goto, registry
<1>1. CASE Reject(s) \/ AuthOkUndelivered(s) \/ ListPeers(s) \/ SendList(s) \/ Announce(s)
  BY <1>1 DEF Reject, AuthOkUndelivered, ListPeers, SendList, Announce
<1>2. CASE Authenticate(s)
  BY <1>2 DEF Authenticate, JoinRoom
<1>3. CASE Register(s)
  <2>1. /\ pc' = [pc EXCEPT ![s] = IF Host[s] = None THEN "open" ELSE "joined"]
        /\ writer' = [writer EXCEPT ![s] = "running"] /\ room' = room
    BY <1>3 DEF Register
  <2> QED BY <2>1
<1> QED BY <1>1, <1>2, <1>3 DEF Joins

LEMMA MessagesLocal ==
  ASSUME Shape, NEW s \in Session, HandleClientMsg(s)
  PROVE  Local(s) /\ UNCHANGED <<agents, snap, pc, room, writer>>
<1>1. UNCHANGED <<agents, snap, pc, room, writer>>
  BY DEF HandleClientMsg, QueueOnly, ListAgents, Command, Reply, ReplyUnknown, Notify,
     UdpOffer, UdpAnswer, UdpResult, Ping, UpdateAgent, registry
<1> QED BY <1>1 DEF Local

LEMMA RestLocal ==
  ASSUME Shape, NEW s \in Session, Leaves(s) \/ Writer(s) \/ CloseSession(s) \/ ReapWriter(s)
  PROVE  Local(s)
<1> USE DEF Local, Shape, TypeOK, Goto, registry
<1>1. CASE Leaves(s)
  <2>1. \E to : pc' = [pc EXCEPT ![s] = to]
    BY <1>1 DEF Leaves, LeaveRemove, LeaveCheck, LeaveAnnounce, LeaveRetain, LeaveGc
  <2>2. room' = room /\ writer' = writer
    BY <1>1 DEF Leaves, LeaveRemove, LeaveCheck, LeaveAnnounce, LeaveRetain, LeaveGc
  <2> QED BY <2>1, <2>2
<1>2. CASE Writer(s)
  <2>1. pc' = pc /\ room' = room
    BY <1>2 DEF Writer, PeerStall, WriteError, WriterTimeout, WriterEnd
  <2>2. \E to \in {"stuck", "ended"} : writer' = [writer EXCEPT ![s] = to]
    BY <1>2 DEF Writer, PeerStall, WriteError, WriterTimeout, WriterEnd
  <2> QED BY <2>1, <2>2
<1>3. CASE EndReader(s)
  BY <1>3 DEF EndReader
<1> QED BY <1>1, <1>2, <1>3 DEF CloseSession, ReapWriter

LEMMA ServerLocal ==
  ASSUME Shape, NEW s \in Session, ServerStep(s)
  PROVE  Local(s)
BY JoinsLocal, MessagesLocal, RestLocal DEF ServerStep

(* What a peer will know of a machine stays right if the step neither brings the machine
   in or out of the Room nor ends a change of it. *)
LEMMA KnowsOn ==
  ASSUME NEW t \in Session, NEW h, Knows(t, h), room'[t] = room[t],
         \A x \in Session : Changing(x) /\ room[x] = room[t] /\ Host[x] = h =>
                              Changing(x)' /\ room'[x] = room[t],
         \A x \in Session : pc'[x] = "check" /\ room'[x] = room[t] /\ Host[x] = h =>
                              pc[x] = "check" /\ room[x] = room[t],
         h \in HostsIn(room[t])' <=> h \in HostsIn(room[t]),
         \/ Learns(outq'[t], peers'[t], h) <=> Learns(outq[t], peers[t], h)
         \/ Learns(outq'[t], peers'[t], h) /\ h \in HostsIn(room[t])
  PROVE  Knows(t, h)'
<1>2. ASSUME \A x \in Session : Changing(x)' /\ room'[x] = room'[t] => Host[x] # h
      PROVE  Learns(outq'[t], peers'[t], h) <=> h \in HostsIn(room[t])
  <2>1. \A x \in Session : Changing(x) /\ room[x] = room[t] => Host[x] # h
    BY <1>2
  <2>2. Learns(outq[t], peers[t], h) <=> h \in HostsIn(room[t])
    BY <2>1 DEF Knows
  <2> QED BY <2>2
<1>3. ASSUME \E x \in Session : pc'[x] = "check" /\ room'[x] = room'[t] /\ Host[x] = h
      PROVE  Learns(outq'[t], peers'[t], h)
  <2>1. \E x \in Session : pc[x] = "check" /\ room[x] = room[t] /\ Host[x] = h
    BY <1>3
  <2>2. Learns(outq[t], peers[t], h)
    BY <2>1 DEF Knows
  <2> QED BY <2>2
<1> QED BY <1>2, <1>3 DEF Knows

(* A step that leaves the rosters aside: no change of membership begins, advances or ends,
   no session enters or leaves a map of its Room, and what peers are told of a machine is
   what they would know of it already, or is so. *)
Aside ==
  /\ agents' = agents /\ snap' = snap
  /\ \A x \in Session : pc'[x] = pc[x] \/ (~ Changing(x) /\ ~ Changing(x)')
  /\ \A x \in Session : pc'[x] \in Entered /\ Host[x] # None => pc[x] \in Entered
  /\ \A t \in Session : Host[t] # None => Modest(outq'[t], t)
  /\ \A t \in Session : Informed(t)' => Informed(t)
  /\ \A t \in Session : Informed(t)' => \A h \in Agent :
       \/ Learns(outq'[t], peers'[t], h) <=> Learns(outq[t], peers[t], h)
       \/ Learns(outq'[t], peers'[t], h) /\ h \in HostsIn(room[t])

LEMMA AsideKeeps ==
  ASSUME Shape, Rosters, NEW s \in Session, Local(s), Recorded(s), Aside
  PROVE  Rosters'
<1> USE DEF Changing
<1>1. peers' = peers
  BY DEF Recorded
<1>2. \A x \in Session : pc'[x] \in Entered /\ Host[x] # None => room'[x] = room[x]
  BY DEF Aside, Local, Entered
<1>3. \A x \in Session : Changing(x)' => pc'[x] = pc[x] /\ room'[x] = room[x]
  BY DEF Aside, Local
<1>5. Inside'
  BY <1>2 DEF Inside, Rosters, Aside
<1>6. OneAtATime'
  BY DEF Recorded, OneAtATime
<1>7. ListExact'
  BY <1>3 DEF ListExact, Rosters, Aside, Recorded, HostsIn
<1>8. LeftIsGone'
  BY <1>3 DEF LeftIsGone, Rosters, Aside, Recorded, HostsIn
<1>9. NotItself'
  BY <1>1 DEF NotItself, Rosters, Aside
<1>10. ASSUME NEW t \in Session, Informed(t)', NEW h \in Agent \ {Host[t]}
       PROVE  Knows(t, h)'
  <2>1. Informed(t) /\ Knows(t, h)
    BY <1>10 DEF Aside, Rosters, WillKnow
  <2>2. room'[t] = room[t]
    BY <2>1 DEF Informed, Local
  <2>3. HostsIn(room[t])' = HostsIn(room[t])
    BY <2>2 DEF Aside, HostsIn
  <2>4. \A x \in Session : Changing(x) => Changing(x)' /\ room'[x] = room[x]
    BY DEF Aside, Local
  <2>5. \A x \in Session : pc'[x] = "check" => pc[x] = "check" /\ room'[x] = room[x]
    BY <1>3
  <2> QED BY <1>10, <2>1, <2>2, <2>3, <2>4, <2>5, KnowsOn DEF Aside
<1>11. WillKnow'
  BY <1>10 DEF WillKnow
<1> QED BY <1>1, <1>5, <1>6, <1>7, <1>8, <1>9, <1>11 DEF Rosters

(* Steps that queue nothing for anybody who goes on. *)
LEMMA SilentAside ==
  ASSUME Shape, Rosters, NEW s \in Session, peers' = peers, missed \subseteq missed',
         overlap \subseteq overlap',
         \/ Reject(s) \/ Authenticate(s) \/ AuthOkUndelivered(s)
         \/ LeaveRetain(s) \/ LeaveGc(s) \/ Writer(s) \/ EndReader(s)
         \/ Host[s] = None /\ (Register(s) \/ LeaveRemove(s))
  PROVE  Aside
<1> USE DEF Shape, TypeOK, Goto, registry
<1>1. CASE Reject(s) \/ Authenticate(s) \/ AuthOkUndelivered(s) \/ LeaveRetain(s) \/ LeaveGc(s)
  <2>1. UNCHANGED <<agents, snap, outq, writer>>
    BY <1>1 DEF Reject, Authenticate, AuthOkUndelivered, LeaveRetain, LeaveGc
  <2>2. \A x \in Session : pc'[x] = pc[x] \/ (~ Changing(x) /\ ~ Changing(x)' /\ pc'[x] \notin Entered)
    BY <1>1 DEF Reject, Authenticate, AuthOkUndelivered, LeaveRetain, LeaveGc, Changing, Entered
  <2>3. \A x \in Session : pc'[x] = pc[x] \/ pc'[x] \notin {"announce", "open"}
    BY <2>2 DEF Entered
  <2>4. \A x \in Session : pc[x] \in {"announce", "open"} => room'[x] = room[x]
    BY <1>1 DEF Reject, Authenticate, JoinRoom, AuthOkUndelivered, LeaveRetain, LeaveGc
  <2>5. \A t \in Session : Informed(t)' => Informed(t)
    BY <2>1, <2>3, <2>4 DEF Informed
  <2> QED BY <2>1, <2>2, <2>5 DEF Aside, Rosters, NotItself
<1>2. CASE Writer(s) \/ EndReader(s)
  <2>1. UNCHANGED <<agents, snap, room>>
    BY <1>2 DEF Writer, PeerStall, WriteError, WriterTimeout, WriterEnd, EndReader
  <2>2. \A x \in Session : pc'[x] = pc[x] \/ (pc[x] = "open" /\ pc'[x] = "leave")
    BY <1>2 DEF Writer, PeerStall, WriteError, WriterTimeout, WriterEnd, EndReader
  <2>3. \E w \in {"stuck", "ended"} : writer' = [writer EXCEPT ![s] = w]
    BY <1>2 DEF Writer, PeerStall, WriteError, WriterTimeout, WriterEnd, EndReader
  <2>4. outq' = outq \/ outq' = [outq EXCEPT ![s] = <<>>]
    BY <1>2 DEF Writer, PeerStall, WriteError, WriterTimeout, WriterEnd, EndReader
  <2>5. \A t \in Session : Informed(t)' => Informed(t) /\ t # s
    BY <2>1, <2>2, <2>3 DEF Informed
  <2>6. \A t \in Session : Host[t] # None => Modest(outq'[t], t)
    BY <2>4, TrimModest DEF Rosters, NotItself
  <2>7. \A t \in Session : Informed(t)' => outq'[t] = outq[t]
    BY <2>4, <2>5
  <2> QED BY <2>1, <2>2, <2>5, <2>6, <2>7 DEF Aside, Changing, Entered
<1>3. CASE Host[s] = None /\ (Register(s) \/ LeaveRemove(s))
  <2>1. agents' = agents
    <3>1. CASE Register(s)
      BY <1>3, <3>1 DEF Register
    <3>2. CASE LeaveRemove(s)
      <4>1. \A o \in Session : s \notin agents[o]
        BY <1>3 DEF MembersPlaced
      <4>2. room[s] \in Session
        BY <3>2 DEF LeaveRemove, Placed
      <4> QED BY <3>2, <4>1, <4>2 DEF LeaveRemove
    <3> QED BY <1>3, <3>1, <3>2
  <2>2. UNCHANGED <<snap, room>>
    BY <1>3 DEF Register, LeaveRemove
  <2>3. \A x \in Session : pc'[x] = pc[x] \/ (x = s /\ pc[s] \in {"auth", "leave"} /\ pc'[s] \in {"open", "retain"})
    BY <1>3 DEF Register, LeaveRemove
  <2>4. \A t \in Session : t # s => writer'[t] = writer[t] /\ outq'[t] = outq[t]
    BY <1>3 DEF Register, LeaveRemove
  <2>5. \A t \in Session : Informed(t)' => Informed(t) /\ outq'[t] = outq[t]
    BY <1>3, <2>2, <2>3, <2>4 DEF Informed
  <2> QED BY <1>3, <2>1, <2>2, <2>3, <2>4, <2>5 DEF Aside, Changing, Entered, Rosters, NotItself
<1> QED BY <1>1, <1>2, <1>3

(* What a message of a client makes the relay queue: nothing that speaks of a machine, an
   observer's list, or what UpdateAgent says, that the machine is there. *)
Fair(S, m) ==
  /\ m \in Frame /\ Send(S, m)
  /\ \A t \in Session : \A h \in Agent :
       t \in S /\ Host[t] # None /\ Speaks(m, h) =>
         Says(m, h) /\ h # Host[t] /\ h \in HostsIn(room[t])

LEMMA MessagesFair ==
  ASSUME Shape, NEW s \in Session, HandleClientMsg(s), Host[s] # None => ~ ListAgents(s)
  PROVE  \E S, m : Fair(S, m)
<1> USE DEF Handles, Id
<1>a. pc[s] = "open"
  BY DEF HandleClientMsg, ListAgents, ReplyUnknown, Notify, Ping, Reply, Command,
         UdpAnswer, UdpResult, UdpOffer, UpdateAgent
<1>b. room[s] \in Session /\ {Host[s]} \ {None} \in SUBSET Agent
  BY <1>a, HandlesFacts
<1>c. ASSUME NEW S, NEW k \in FrameKinds \ {"agent_list", "agent_joined", "agent_left"},
             NEW i \in Id \cup {None}, NEW h \in SUBSET Agent, Send(S, Msg(k, s, i, h))
      PROVE  \E T, m : Fair(T, m)
  <2>1. Msg(k, s, i, h) \in Frame
    BY MsgType
  <2>2. \A x : ~ Speaks(Msg(k, s, i, h), x)
    BY DEF Speaks, Msg
  <2>3. Fair(S, Msg(k, s, i, h))
    BY <1>c, <2>1, <2>2 DEF Fair
  <2> QED BY <2>3
<1>1. CASE ListAgents(s)
  <2>1. Host[s] = None
    BY <1>1
  <2>2. Msg("agent_list", s, None, HostsIn(room[s])) \in Frame
    BY <1>b, HostsInType, MsgType DEF FrameKinds
  <2>3. Fair({s}, Msg("agent_list", s, None, HostsIn(room[s])))
    BY <1>1, <2>1, <2>2 DEF Fair, ListAgents, QueueOnly
  <2> QED BY <2>3
<1>2. CASE ReplyUnknown(s)
  BY <1>2, <1>b, <1>c DEF ReplyUnknown, QueueOnly, FrameKinds
<1>3. CASE Notify(s)
  BY <1>3, <1>b, <1>c DEF Notify, QueueOnly, FrameKinds
<1>4. CASE Ping(s)
  BY <1>4, <1>c DEF Ping, QueueOnly, FrameKinds
<1>5. ASSUME NEW r \in Request, Reply(s, r)
      PROVE  \E S, m : Fair(S, m)
  BY <1>5, <1>b, <1>c DEF Reply, QueueOnly, FrameKinds
<1>6. ASSUME NEW r \in Request, NEW t \in AllTargets, Command(s, r, t)
      PROVE  \E S, m : Fair(S, m)
  BY <1>6, <1>c DEF Command, FrameKinds
<1>7. ASSUME NEW c \in Channel, UdpAnswer(s, c)
      PROVE  \E S, m : Fair(S, m)
  BY <1>7, <1>c DEF UdpAnswer, FrameKinds
<1>8. ASSUME NEW c \in Channel, UdpResult(s, c)
      PROVE  \E S, m : Fair(S, m)
  BY <1>8, <1>c DEF UdpResult, QueueOnly, FrameKinds
<1>9. ASSUME NEW c \in Channel, NEW to \in Session, UdpOffer(s, c, to)
      PROVE  \E S, m : Fair(S, m)
  BY <1>9, <1>c DEF UdpOffer, FrameKinds
<1>10. ASSUME NEW c \in Caps, UpdateAgent(s, c)
       PROVE  \E S, m : Fair(S, m)
  <2> DEFINE S == AllBut(room[s], Host[s])
             m == Msg("agent_joined", s, None, {Host[s]})
  <2>1. s \in agents[room[s]] /\ Send(S, m)
    BY <1>10 DEF UpdateAgent
  <2>2. m \in Frame
    BY <2>1, <1>b, HostType, MsgType DEF FrameKinds, Shape, MembersPlaced
  <2>3. \A h : Speaks(m, h) => h = Host[s] /\ Says(m, h)
    BY DEF Speaks, Says, Msg
  <2>4. \A t \in S \cap Session : Host[t] # None => Host[s] # Host[t] /\ room[t] = room[s]
    BY <1>b DEF AllBut, Shape, MembersPlaced
  <2>5. Host[s] \in HostsIn(room[s])
    BY <2>1 DEF HostsIn
  <2> HIDE DEF S, m
  <2>6. Fair(S, m)
    BY <2>1, <2>2, <2>3, <2>4, <2>5 DEF Fair
  <2> QED BY <2>6
<1> QED BY <1>1, <1>2, <1>3, <1>4, <1>5, <1>6, <1>7, <1>8, <1>9, <1>10 DEF HandleClientMsg

LEMMA MessagesAside ==
  ASSUME Shape, Rosters, NEW s \in Session, HandleClientMsg(s),
         Host[s] # None => ~ ListAgents(s),
         peers' = peers, missed \subseteq missed', overlap \subseteq overlap'
  PROVE  Aside
<1>1. UNCHANGED <<agents, snap, pc, room, writer>>
  BY MessagesLocal
<1>2. PICK S, m : Fair(S, m)
  BY MessagesFair
<1>3. m \in Frame /\ Send(S, m)
  BY <1>2 DEF Fair
<1>4. ASSUME NEW t \in Session, Host[t] # None
      PROVE  Modest(outq'[t], t)
  <2>1. Host[t] \in Agent
    BY <1>4, HostType
  <2>2. t \in S /\ Speaks(m, Host[t]) => ~ Says(m, Host[t])
    BY <1>2, <1>4, <2>1 DEF Fair
  <2> QED BY <1>3, <1>4, <2>2, SendModest DEF Rosters, NotItself
<1>5. \A t \in Session : Informed(t)' => Informed(t)
  BY <1>1 DEF Informed
<1>6. ASSUME NEW t \in Session, Informed(t)', NEW h \in Agent
      PROVE  \/ Learns(outq'[t], peers'[t], h) <=> Learns(outq[t], peers[t], h)
             \/ Learns(outq'[t], peers'[t], h) /\ h \in HostsIn(room[t])
  <2>1. Host[t] # None
    BY <1>6 DEF Informed
  <2>2. CASE t \in S /\ Accepts(t) /\ Speaks(m, h)
    <3>1. Says(m, h) /\ h \in HostsIn(room[t])
      BY <1>2, <2>1, <2>2 DEF Fair
    <3>2. Learns(outq'[t], peers[t], h) <=> Says(m, h)
      BY <1>3, <2>2, SendTells
    <3> QED BY <3>1, <3>2
  <2>3. CASE ~ (t \in S /\ Accepts(t) /\ Speaks(m, h))
    <3>1. Learns(outq'[t], peers[t], h) <=> Learns(outq[t], peers[t], h)
      BY <1>3, <2>3, SendTells
    <3> QED BY <3>1
  <2> QED BY <2>2, <2>3
<1> QED BY <1>1, <1>4, <1>5, <1>6 DEF Aside, Changing

(* What a change of the membership of peer s touches. *)
Touches(s) ==
  /\ pc[s] # "init" /\ Host[s] # None
  /\ \A o, x \in Session : x # s \/ o # room[s] => (x \in agents'[o] <=> x \in agents[o])
  /\ agents' = agents \/ Changing(s)'
  /\ \A x \in Session : x # s => snap'[x] = snap[x]

LEMMA RoomsStay ==
  ASSUME NEW s \in Session, Local(s), pc[s] # "init"
  PROVE  \A x \in Session : room'[x] = room[x]
BY DEF Local

(* It is nothing to a peer of another Room, nor to what a peer knows of other machines. *)
LEMMA Elsewhere ==
  ASSUME Shape, Shape', NEW s \in Session, Local(s), Touches(s),
         NEW t \in Session, room[t] \in Session, NEW h, Knows(t, h),
         room[s] # room[t] \/ Host[s] # h,
         Learns(outq'[t], peers'[t], h) <=> Learns(outq[t], peers[t], h)
  PROVE  Knows(t, h)'
<1>1. \A x \in Session : room'[x] = room[x]
  BY RoomsStay DEF Touches
<1>2. \A x \in Session : Host[x] = h /\ room[x] = room[t] => pc'[x] = pc[x]
  BY DEF Local
<1>3. h \in HostsIn(room[t])' <=> h \in HostsIn(room[t])
  <2>1. agents[room[t]] \subseteq Session /\ agents'[room[t]] \subseteq Session
    BY DEF Shape, TypeOK
  <2>2. \A x \in Session : Host[x] = h => (x \in agents'[room[t]] <=> x \in agents[room[t]])
    BY DEF Touches
  <2> QED BY <1>1, <2>1, <2>2 DEF HostsIn
<1>4. \A x \in Session : Changing(x) /\ room[x] = room[t] /\ Host[x] = h =>
        Changing(x)' /\ room'[x] = room[t]
  BY <1>1, <1>2 DEF Changing
<1>5. \A x \in Session : pc'[x] = "check" /\ room'[x] = room[t] /\ Host[x] = h =>
        pc[x] = "check" /\ room[x] = room[t]
  BY <1>1, <1>2
<1> QED BY <1>1, <1>3, <1>4, <1>5, KnowsOn

LEMMA MembershipKeeps ==
  ASSUME Shape, Shape', Rosters, NEW s \in Session, Local(s), Recorded(s), Touches(s),
         pc'[s] \in Entered => s \in agents'[room[s]],
         pc'[s] = "listed" => snap'[s] = HostsIn(room[s])' \ {Host[s]},
         pc'[s] = "left" => Host[s] \notin HostsIn(room[s])',
         Host[s] \notin snap'[s],
         \A t \in Session : Host[t] # None => Modest(outq'[t], t),
         \A t \in Session : Informed(t)' => \A h \in Agent \ {Host[t]} : Knows(t, h)'
  PROVE  Rosters'
<1>1. peers' = peers
  BY DEF Recorded
<1>2. \A x \in Session : room'[x] = room[x]
  BY RoomsStay DEF Touches
<1>3. \A x \in Session : x # s => pc'[x] = pc[x]
  BY DEF Local
<1>4. Inside'
  <2>1. ASSUME NEW x \in Session, x # s, pc'[x] \in Entered, Host[x] # None
        PROVE  x \in agents'[room'[x]]
    <3>1. x \in agents[room[x]]
      BY <1>3, <2>1 DEF Rosters, Inside
    <3>2. room[x] \in Session
      BY <1>3, <2>1 DEF Shape, TypeOK, Placed, Entered
    <3> QED BY <1>2, <2>1, <3>1, <3>2 DEF Touches
  <2> QED BY <1>2, <2>1 DEF Inside
<1>5. OneAtATime'
  BY DEF Recorded, OneAtATime
<1>6. ASSUME NEW x \in Session, x # s, pc'[x] \in {"listed", "left"}, room'[x] \notin overlap'
      PROVE  room[x] \notin overlap /\ HostsIn(room[x])' = HostsIn(room[x])
  <2>1. Changing(s)' => room[s] # room[x]
    BY <1>2, <1>6 DEF Recorded, Changing
  <2>2. room[x] \in Session
    BY <1>3, <1>6 DEF Shape, TypeOK, Placed
  <2>3. agents[room[x]] \subseteq Session /\ agents'[room[x]] \subseteq Session
    BY <2>2 DEF Shape, TypeOK
  <2>4. agents'[room[x]] = agents[room[x]]
    BY <2>1, <2>2, <2>3 DEF Touches
  <2> QED BY <1>2, <1>6, <2>4 DEF HostsIn, Recorded
<1>7. ListExact'
  <2>1. ASSUME NEW x \in Session, x # s, pc'[x] = "listed", room'[x] \notin overlap'
        PROVE  snap'[x] = HostsIn(room[x])' \ {Host[x]}
    BY <1>3, <1>6, <2>1 DEF Rosters, ListExact, Touches
  <2> QED BY <2>1 DEF ListExact
<1>8. LeftIsGone'
  <2>1. ASSUME NEW x \in Session, x # s, pc'[x] = "left", room'[x] \notin overlap'
        PROVE  Host[x] \notin HostsIn(room[x])'
    BY <1>3, <1>6, <2>1 DEF Rosters, LeftIsGone
  <2> QED BY <2>1 DEF LeftIsGone
<1>9. NotItself'
  BY <1>1 DEF NotItself, Rosters, Touches
<1>10. WillKnow'
  BY DEF WillKnow
<1> QED BY <1>1, <1>4, <1>5, <1>7, <1>8, <1>9, <1>10 DEF Rosters

LEMMA BystanderInformed ==
  ASSUME NEW s \in Session, Local(s), Recorded(s), pc[s] # "init",
         NEW t \in Session, t # s, Informed(t)'
  PROVE  Informed(t)
BY DEF Local, Recorded, Informed

(* Somebody else's change of the same Room: the Room is no longer undisturbed. *)
LEMMA AloneInRoom ==
  ASSUME NEW s \in Session, Local(s), Recorded(s), pc[s] # "init", Changing(s)',
         NEW t \in Session, Informed(t)', room[t] = room[s],
         NEW x \in Session, x # s, room[x] = room[t]
  PROVE  ~ Changing(x) /\ ~ Changing(x)'
<1>1. \A y \in Session : room'[y] = room[y]
  BY RoomsStay
<1>2. room'[s] \notin overlap'
  BY <1>1 DEF Informed
<1>3. ~ Changing(x)'
  BY <1>1, <1>2 DEF Recorded
<1> QED BY <1>3 DEF Local, Changing

LEMMA InformedRoom ==
  ASSUME Shape, NEW t \in Session, Informed(t)
  PROVE  room[t] \in Session
<1>1. room[t] \in Session \cup {None} /\ room[t] # None
  BY DEF Informed, Shape, TypeOK, Placed
<1> QED BY <1>1

LEMMA RegisterRosters ==
  ASSUME Shape, Shape', Rosters, NEW s \in Session, Register(s), Host[s] # None,
         Local(s), Recorded(s)
  PROVE  Rosters'
<1> USE DEF Goto
<1>1. /\ pc[s] = "auth" /\ pc'[s] = "joined" /\ snap' = snap /\ room' = room
      /\ agents' = [agents EXCEPT ![room[s]] = @ \cup {s}]
      /\ \A t \in Session : t # s => outq'[t] = outq[t]
  BY DEF Register, Shape, TypeOK
<1>2. room[s] \in Session
  BY <1>1 DEF Shape, TypeOK, Placed
<1>3. Touches(s) /\ Changing(s)'
  BY <1>1, <1>2 DEF Touches, Changing, Shape, TypeOK
<1>4. s \in agents'[room[s]]
  BY <1>1, <1>2 DEF Shape, TypeOK
<1>5. \A t \in Session : Host[t] # None => Modest(outq'[t], t)
  <2>1. Modest(outq'[s], s)
    <3> DEFINE m == Msg("your_endpoint", s, None, {})
    <3>1. outq[s] = <<>> /\ outq' = [outq EXCEPT ![s] = Append(@, m)]
      BY <1>1 DEF Register, Shape, Placed
    <3>2. outq'[s] = <<m>>
      BY <3>1 DEF Shape, TypeOK
    <3>3. ~ Speaks(m, Host[s])
      BY DEF Speaks, Msg
    <3> HIDE DEF m
    <3> QED BY <3>2, <3>3 DEF Modest
  <2> QED BY <1>1, <2>1 DEF Rosters, NotItself
<1>6. ASSUME NEW t \in Session, Informed(t)', NEW h \in Agent \ {Host[t]}
      PROVE  Knows(t, h)'
  <2>1. t # s
    BY <1>1, <1>6 DEF Informed
  <2>2. Informed(t) /\ Knows(t, h) /\ room[t] \in Session
    <3>1. Informed(t) /\ Knows(t, h)
      BY <1>1, <1>6, <2>1, BystanderInformed DEF Rosters, WillKnow
    <3> QED BY <3>1, InformedRoom
  <2>3. peers' = peers /\ outq'[t] = outq[t]
    BY <1>1, <2>1 DEF Recorded
  <2>4. CASE room[s] = room[t] /\ Host[s] = h
    <3>1. \A x \in Session : x # s /\ room[x] = room[t] => pc'[x] # "check"
      BY <1>1, <1>3, <1>6, <2>4, AloneInRoom DEF Changing
    <3> QED BY <1>1, <1>3, <2>4, <3>1 DEF Knows
  <2>5. CASE room[s] # room[t] \/ Host[s] # h
    BY <1>3, <2>2, <2>3, <2>5, Elsewhere
  <2> QED BY <2>4, <2>5
<1> QED BY <1>1, <1>3, <1>4, <1>5, <1>6, MembershipKeeps DEF Rosters, NotItself

LEMMA ListPeersRosters ==
  ASSUME Shape, Shape', Rosters, NEW s \in Session, ListPeers(s), Local(s), Recorded(s)
  PROVE  Rosters'
<1> USE DEF Goto
<1>1. /\ pc[s] = "joined" /\ pc'[s] = "listed"
      /\ UNCHANGED <<room, agents, outq>>
      /\ snap' = [snap EXCEPT ![s] = HostsIn(room[s]) \ {Host[s]}]
  BY DEF ListPeers, Shape, TypeOK, registry
<1>2. Host[s] # None
  BY <1>1 DEF Shape, Placed
<1>3. Touches(s) /\ Changing(s) /\ Changing(s)'
  BY <1>1, <1>2 DEF Touches, Changing, Shape, TypeOK
<1>4. s \in agents[room[s]]
  BY <1>1, <1>2 DEF Rosters, Inside, Entered
<1>5. snap'[s] = HostsIn(room[s]) \ {Host[s]} /\ HostsIn(room[s])' = HostsIn(room[s])
  BY <1>1 DEF HostsIn, Shape, TypeOK
<1>6. ASSUME NEW t \in Session, Informed(t)', NEW h \in Agent \ {Host[t]}
      PROVE  Knows(t, h)'
  <2>1. t # s
    BY <1>1, <1>6 DEF Informed
  <2>2. Informed(t) /\ Knows(t, h)
    BY <1>1, <1>6, <2>1, BystanderInformed DEF Rosters, WillKnow
  <2>3. \A x \in Session : Changing(x) => Changing(x)'
    BY <1>3 DEF Local, Changing
  <2>4. \A x \in Session : pc'[x] = "check" => pc[x] = "check"
    BY <1>1 DEF Local
  <2> QED BY <1>1, <2>2, <2>3, <2>4, KnowsOn DEF HostsIn, Recorded
<1> QED BY <1>1, <1>3, <1>4, <1>5, <1>6, MembershipKeeps DEF Rosters, NotItself

LEMMA SendListRosters ==
  ASSUME Shape, Shape', Rosters, NEW s \in Session, SendList(s), Local(s), Recorded(s)
  PROVE  Rosters'
<1> DEFINE m == Msg("agent_list", s, None, snap[s])
<1>1. /\ pc[s] = "listed" /\ pc'[s] = "announce"
      /\ UNCHANGED <<room, agents>> /\ Send({s}, m) /\ snap' = [snap EXCEPT ![s] = {}]
  BY DEF SendList, Goto, Shape, TypeOK, registry
<1>2. Host[s] # None
  BY <1>1 DEF Shape, Placed
<1>3. Touches(s) /\ Changing(s) /\ Changing(s)'
  BY <1>1, <1>2 DEF Touches, Changing, Shape, TypeOK
<1>4. s \in agents[room[s]]
  BY <1>1, <1>2 DEF Rosters, Inside, Entered
<1>5. m \in Frame
  BY MsgType DEF FrameKinds, Shape, TypeOK
<1>6. \A h : Speaks(m, h) /\ (Says(m, h) <=> h \in snap[s])
  BY DEF Speaks, Says, Msg
<1> HIDE DEF m
<1>7. \A t \in Session : Host[t] # None => Modest(outq'[t], t)
  BY <1>1, <1>5, <1>6, SendModest DEF Rosters, NotItself
<1>8. ASSUME NEW t \in Session, t # s, Informed(t)', NEW h \in Agent \ {Host[t]}
      PROVE  Knows(t, h)'
  <2>1. Informed(t) /\ Knows(t, h)
    BY <1>1, <1>8, BystanderInformed DEF Rosters, WillKnow
  <2>2. Learns(outq'[t], peers'[t], h) <=> Learns(outq[t], peers[t], h)
    BY <1>1, <1>5, <1>8, SendTells DEF Recorded
  <2>3. \A x \in Session : Changing(x) => Changing(x)'
    BY <1>3 DEF Local, Changing
  <2>4. \A x \in Session : pc'[x] = "check" => pc[x] = "check"
    BY <1>1 DEF Local
  <2> QED BY <1>1, <2>1, <2>2, <2>3, <2>4, KnowsOn DEF HostsIn
<1>9. ASSUME Informed(s)', NEW h \in Agent \ {Host[s]}
      PROVE  Knows(s, h)'
  <2>1. Accepts(s)
    BY <1>1, <1>9 DEF Recorded, Told, Informed
  <2>2. Learns(outq'[s], peers'[s], h) <=> h \in snap[s]
    BY <1>1, <1>5, <1>6, <2>1, SendTells
  <2>3. snap[s] = HostsIn(room[s]) \ {Host[s]}
    BY <1>1, <1>9 DEF Rosters, ListExact, Informed, Recorded
  <2>4. HostsIn(room[s])' = HostsIn(room[s])
    BY <1>1 DEF HostsIn
  <2>5. \A x \in Session : room[x] = room[s] => pc'[x] # "check"
    BY <1>1, <1>3, <1>9, AloneInRoom DEF Changing
  <2> QED BY <1>1, <2>2, <2>3, <2>4, <2>5 DEF Knows
<1>10. Host[s] \notin snap'[s]
  BY <1>1 DEF Shape, TypeOK
<1> QED BY <1>1, <1>3, <1>4, <1>7, <1>8, <1>9, <1>10, MembershipKeeps

LEMMA AnnounceRosters ==
  ASSUME Shape, Shape', Rosters, NEW s \in Session, Announce(s), Local(s), Recorded(s)
  PROVE  Rosters'
<1> DEFINE m == Msg("agent_joined", s, None, {Host[s]})
           S == AllBut(room[s], Host[s])
<1>1. /\ pc[s] = "announce" /\ pc'[s] = "open" /\ pc' # pc
      /\ UNCHANGED <<room, agents, snap, writer>> /\ Send(S, m)
  BY DEF Announce, Goto, Shape, TypeOK, registry
<1>2. Host[s] # None /\ Host[s] \in Agent
  BY <1>1, HostType DEF Shape, Placed
<1>3. Touches(s)
  BY <1>1, <1>2 DEF Touches
<1>4. s \in agents[room[s]] /\ room[s] \in Session
  BY <1>1, <1>2 DEF Rosters, Inside, Entered, Shape, TypeOK, Placed
<1>5. m \in Frame
  BY <1>2, MsgType DEF FrameKinds
<1>6. \A h : (Speaks(m, h) <=> h = Host[s]) /\ (Says(m, h) <=> h = Host[s])
  BY DEF Speaks, Says, Msg
<1>7. \A t \in Session : Host[t] # None /\ t \in S => Host[t] # Host[s] /\ room[t] = room[s]
  BY <1>4 DEF AllBut, Shape, MembersPlaced
<1>8. ASSUME NEW t \in Session, room[t] = room[s], Host[t] # Host[s], Informed(t), Informed(t)'
      PROVE  t \in S /\ Accepts(t)
  <2>1. t \in agents[room[s]]
    BY <1>8 DEF Rosters, Inside, Informed, Entered
  <2>2. t \in S
    BY <1>8, <2>1 DEF AllBut
  <2>3. t \in Told(s)
    BY <1>1, <2>2 DEF Told
  <2> QED BY <1>1, <1>8, <2>2, <2>3 DEF Recorded, Informed
<1> HIDE DEF m, S
<1>9. \A t \in Session : Host[t] # None => Modest(outq'[t], t)
  BY <1>1, <1>5, <1>6, <1>7, SendModest DEF Rosters, NotItself
<1>10. ASSUME NEW t \in Session, Informed(t)', NEW h \in Agent \ {Host[t]}
       PROVE  Knows(t, h)'
  <2>1. Informed(t)
    BY <1>1, <1>10, BystanderInformed DEF Informed, Recorded
  <2>2. Knows(t, h) /\ room[t] \in Session
    BY <1>10, <2>1, InformedRoom DEF Rosters, WillKnow
  <2>3. CASE room[s] = room[t] /\ Host[s] = h
    <3>1. t \in S /\ Accepts(t)
      BY <1>8, <1>10, <2>1, <2>3
    <3>2. Learns(outq'[t], peers[t], h)
      BY <1>1, <1>5, <1>6, <2>3, <3>1, SendTells
    <3>3. h \in HostsIn(room[t])'
      BY <1>1, <1>4, <2>3 DEF HostsIn
    <3> QED BY <3>2, <3>3 DEF Knows, Recorded
  <2>4. CASE room[s] # room[t] \/ Host[s] # h
    <3>1. ~ (t \in S /\ Accepts(t) /\ Speaks(m, h))
      BY <1>6, <1>7, <2>1, <2>4 DEF Informed
    <3>2. Learns(outq'[t], peers'[t], h) <=> Learns(outq[t], peers[t], h)
      BY <1>1, <1>5, <3>1, SendTells DEF Recorded
    <3> QED BY <1>3, <2>2, <2>4, <3>2, Elsewhere
  <2> QED BY <2>3, <2>4
<1>11. Host[s] \notin snap'[s] /\ s \in agents'[room[s]]
  BY <1>1, <1>2, <1>4 DEF Rosters, NotItself
<1> QED BY <1>1, <1>3, <1>9, <1>10, <1>11, MembershipKeeps

LEMMA LeaveRemoveRosters ==
  ASSUME Shape, Shape', Rosters, NEW s \in Session, LeaveRemove(s), Host[s] # None,
         Local(s), Recorded(s)
  PROVE  Rosters'
<1>1. /\ pc[s] = "leave" /\ pc'[s] = "check" /\ UNCHANGED <<room, snap, outq>>
      /\ agents' = [agents EXCEPT ![room[s]] = @ \ {s}]
  BY DEF LeaveRemove, Goto, Shape, TypeOK
<1>2. s \in agents[room[s]] /\ room[s] \in Session
  BY <1>1 DEF Rosters, Inside, Entered, Shape, TypeOK, Placed
<1>3. Touches(s) /\ ~ Changing(s) /\ Changing(s)'
  BY <1>1, <1>2 DEF Touches, Changing, Shape, TypeOK
<1>4. ASSUME NEW t \in Session, Informed(t)', NEW h \in Agent \ {Host[t]}
      PROVE  Knows(t, h)'
  <2>1. t # s
    BY <1>1, <1>4 DEF Informed
  <2>2. Informed(t) /\ Knows(t, h)
    BY <1>1, <1>4, <2>1, BystanderInformed DEF Rosters, WillKnow
  <2>3. peers' = peers /\ outq' = outq /\ room[t] \in Session
    BY <1>1, <2>2, InformedRoom DEF Recorded
  <2>4. CASE room[s] = room[t] /\ Host[s] = h
    <3>1. \A x \in Session : room[x] = room[t] => ~ Changing(x)
      BY <1>1, <1>3, <1>4, <2>4, AloneInRoom
    <3>2. h \in HostsIn(room[t])
      BY <1>2, <2>4 DEF HostsIn
    <3>3. Learns(outq[t], peers[t], h)
      BY <2>2, <3>1, <3>2 DEF Knows
    <3> QED BY <1>1, <1>3, <2>3, <2>4, <3>3 DEF Knows
  <2>5. CASE room[s] # room[t] \/ Host[s] # h
    BY <1>3, <2>2, <2>3, <2>5, Elsewhere
  <2> QED BY <2>4, <2>5
<1> QED BY <1>1, <1>3, <1>4, MembershipKeeps DEF Rosters, NotItself, Entered

LEMMA LeaveCheckRosters ==
  ASSUME Shape, Shape', Rosters, NEW s \in Session, LeaveCheck(s), Local(s), Recorded(s)
  PROVE  Rosters'
<1>1. /\ pc[s] = "check" /\ pc'[s] = IF StillPresent(s) THEN "retain" ELSE "left"
      /\ UNCHANGED <<room, agents, snap, outq>>
  BY DEF LeaveCheck, Goto, Shape, TypeOK, registry
<1>2. Host[s] # None
  BY <1>1 DEF Shape, Placed
<1>3. Touches(s) /\ Changing(s)
  BY <1>1, <1>2 DEF Touches, Changing
<1>4. /\ StillPresent(s) <=> Host[s] \in HostsIn(room[s])
      /\ HostsIn(room[s])' = HostsIn(room[s])
  BY <1>1 DEF StillPresent, HostsIn
<1>5. ASSUME NEW t \in Session, Informed(t)', NEW h \in Agent \ {Host[t]}
      PROVE  Knows(t, h)'
  <2>1. t # s
    BY <1>1, <1>5 DEF Informed
  <2>2. Informed(t) /\ Knows(t, h)
    BY <1>1, <1>5, <2>1, BystanderInformed DEF Rosters, WillKnow
  <2>3. peers' = peers /\ room[t] \in Session
    BY <2>2, InformedRoom DEF Recorded
  <2>4. CASE room[s] = room[t] /\ Host[s] = h
    <3>1. Learns(outq'[t], peers'[t], h)
      BY <1>1, <2>2, <2>3, <2>4 DEF Knows
    <3>2. CASE StillPresent(s)
      <4>1. h \in HostsIn(room[t])'
        BY <1>1, <1>4, <2>4, <3>2 DEF HostsIn
      <4> QED BY <3>1, <4>1 DEF Knows
    <3>3. CASE ~ StillPresent(s)
      <4>1. Changing(s)' /\ room'[s] = room'[t]
        BY <1>1, <2>4, <3>3 DEF Changing
      <4> QED BY <2>4, <3>1, <4>1 DEF Knows
    <3> QED BY <3>2, <3>3
  <2>5. CASE room[s] # room[t] \/ Host[s] # h
    BY <1>1, <1>3, <2>2, <2>3, <2>5, Elsewhere
  <2> QED BY <2>4, <2>5
<1>6. pc'[s] \notin Entered /\ pc'[s] # "listed" /\ Host[s] \notin snap'[s]
  BY <1>1, <1>2 DEF Entered, Rosters, NotItself
<1>7. pc'[s] = "left" => Host[s] \notin HostsIn(room[s])'
  BY <1>1, <1>4
<1>8. \A t \in Session : Host[t] # None => Modest(outq'[t], t)
  BY <1>1 DEF Rosters, NotItself
<1> QED BY <1>3, <1>5, <1>6, <1>7, <1>8, MembershipKeeps

LEMMA LeaveAnnounceRosters ==
  ASSUME Shape, Shape', Rosters, NEW s \in Session, LeaveAnnounce(s), Local(s), Recorded(s)
  PROVE  Rosters'
<1> DEFINE m == Msg("agent_left", s, None, {Host[s]})
           S == Members(room[s])
<1>1. /\ pc[s] = "left" /\ pc'[s] = "retain" /\ pc' # pc
      /\ UNCHANGED <<room, agents, snap>> /\ Send(S, m)
  BY DEF LeaveAnnounce, Goto, Shape, TypeOK, registry
<1>2. Host[s] # None /\ Host[s] \in Agent /\ room[s] \in Session
  BY <1>1, HostType DEF Shape, TypeOK, Placed
<1>3. Touches(s) /\ Changing(s)
  BY <1>1, <1>2 DEF Touches, Changing
<1>4. m \in Frame
  BY <1>2, MsgType DEF FrameKinds
<1>5. \A h : (Speaks(m, h) <=> h = Host[s]) /\ ~ Says(m, h)
  BY DEF Speaks, Says, Msg
<1>6. \A t \in Session : t \in S => room[t] = room[s]
  BY <1>2 DEF Members, Shape, MembersPlaced
<1>7. ASSUME NEW t \in Session, room[t] = room[s], Informed(t), Informed(t)'
      PROVE  t \in S /\ Accepts(t)
  <2>1. t \in S
    BY <1>7 DEF Rosters, Inside, Informed, Entered, Members
  <2>2. t \in Told(s)
    BY <1>1, <2>1 DEF Told
  <2> QED BY <1>1, <1>7, <2>1, <2>2 DEF Recorded, Informed
<1> HIDE DEF m, S
<1>8. \A t \in Session : Host[t] # None => Modest(outq'[t], t)
  BY <1>1, <1>4, <1>5, SendModest DEF Rosters, NotItself
<1>9. ASSUME NEW t \in Session, Informed(t)', NEW h \in Agent \ {Host[t]}
      PROVE  Knows(t, h)'
  <2>1. t # s
    BY <1>1, <1>9 DEF Informed
  <2>2. Informed(t) /\ Knows(t, h) /\ room[t] \in Session
    BY <1>1, <1>9, <2>1, BystanderInformed, InformedRoom DEF Rosters, WillKnow
  <2>3. CASE room[s] = room[t] /\ Host[s] = h
    <3>1. t \in S /\ Accepts(t)
      BY <1>7, <1>9, <2>2, <2>3
    <3>2. ~ Learns(outq'[t], peers[t], h)
      BY <1>1, <1>4, <1>5, <2>3, <3>1, SendTells
    <3>3. room[s] \notin overlap
      BY <2>2, <2>3 DEF Informed
    <3>4. h \notin HostsIn(room[t])'
      BY <1>1, <2>3, <3>3 DEF HostsIn, Rosters, LeftIsGone
    <3>5. \A x \in Session : room[x] = room[t] => pc'[x] # "check"
      BY <1>1, <1>3, <2>3, <3>3 DEF Local, Rosters, OneAtATime, Changing
    <3> QED BY <1>1, <3>2, <3>4, <3>5 DEF Knows, Recorded
  <2>4. CASE room[s] # room[t] \/ Host[s] # h
    <3>1. ~ (t \in S /\ Accepts(t) /\ Speaks(m, h))
      BY <1>5, <1>6, <2>4
    <3>2. Learns(outq'[t], peers'[t], h) <=> Learns(outq[t], peers[t], h)
      BY <1>1, <1>4, <3>1, SendTells DEF Recorded
    <3> QED BY <1>3, <2>2, <2>4, <3>2, Elsewhere
  <2> QED BY <2>3, <2>4
<1>10. Host[s] \notin snap'[s]
  BY <1>1, <1>2 DEF Rosters, NotItself
<1> QED BY <1>1, <1>3, <1>8, <1>9, <1>10, MembershipKeeps DEF Entered

LEMMA ServerRosters ==
  ASSUME Shape, Shape', Rosters, NEW s \in Session, Server(s)
  PROVE  Rosters'
<1>1. ServerStep(s) /\ Local(s) /\ Recorded(s)
  BY ServerLocal, ServerRecords DEF Server
<1>2. peers' = peers /\ missed \subseteq missed' /\ overlap \subseteq overlap'
  BY <1>1 DEF Recorded
<1>3. CASE Aside
  BY <1>1, <1>3, AsideKeeps
<1>4. CASE Joins(s)
  BY <1>1, <1>2, <1>3, <1>4, SilentAside, RegisterRosters, ListPeersRosters, SendListRosters,
     AnnounceRosters DEF Joins
<1>5. CASE HandleClientMsg(s)
  BY <1>2, <1>3, <1>5, MessagesAside DEF Server
<1>6. CASE Leaves(s)
  BY <1>1, <1>2, <1>3, <1>6, SilentAside, LeaveRemoveRosters, LeaveCheckRosters,
     LeaveAnnounceRosters DEF Leaves
<1>7. CASE Writer(s) \/ CloseSession(s) \/ ReapWriter(s)
  BY <1>2, <1>3, <1>7, SilentAside DEF CloseSession, ReapWriter
<1> QED BY <1>1, <1>4, <1>5, <1>6, <1>7 DEF ServerStep

LEMMA DeliverRosters ==
  ASSUME Shape, Rosters, NEW s \in Session, Deliver(s)
  PROVE  Rosters'
<1>1. /\ UNCHANGED <<rooms, room, agents, mcp, pc, snap, writer, overlap, missed>>
      /\ outq[s] # <<>> /\ outq' = [outq EXCEPT ![s] = Tail(@)]
      /\ peers' = [peers EXCEPT ![s] = Absorb(@, Head(outq[s]))]
  BY DEF Deliver, WriterSend, registry
<1>2. \A t \in Session : outq[t] \in Seq(Frame) /\ peers[t] \in SUBSET Agent
  BY DEF Shape, TypeOK, Rosters
<1>3. Head(outq[s]) \in Frame /\ 1 \in 1..Len(outq[s]) /\ Head(outq[s]) = outq[s][1]
  BY <1>1, <1>2
<1>4. peers' \in [Session -> SUBSET Agent]
  BY <1>1, <1>2, <1>3 DEF Absorb, Frame, Rosters
<1>5. \A t, h : t \in Session =>
        (Learns(outq'[t], peers'[t], h) <=> Learns(outq[t], peers[t], h))
  BY <1>1, <1>2, <1>4, LearnsAbsorbed DEF Shape, TypeOK, Rosters
<1>6. Inside' /\ OneAtATime' /\ ListExact' /\ LeftIsGone'
  BY <1>1 DEF Rosters, Inside, OneAtATime, ListExact, LeftIsGone, Changing, HostsIn
<1>7. NotItself'
  <2>1. \A t \in Session : Host[t] # None => Modest(outq'[t], t)
    BY <1>1, TrimModest DEF Rosters, NotItself
  <2>2. ASSUME Host[s] # None PROVE Host[s] \notin peers'[s]
    <3>1. Host[s] \notin peers[s] /\ (Speaks(outq[s][1], Host[s]) => ~ Says(outq[s][1], Host[s]))
      BY <1>3, <2>2 DEF Rosters, NotItself, Modest
    <3> QED BY <1>1, <1>2, <1>3, <3>1 DEF Absorb, Speaks, Says, Rosters
  <2> QED BY <1>1, <2>1, <2>2 DEF Rosters, NotItself
<1>8. WillKnow'
  <2>1. \A t \in Session : Informed(t)' <=> Informed(t)
    BY <1>1 DEF Informed
  <2>2. \A h : \A t \in Session : Knows(t, h)' <=> Knows(t, h)
    BY <1>1, <1>5 DEF Knows, Changing, HostsIn
  <2> QED BY <2>1, <2>2 DEF Rosters, WillKnow
<1> QED BY <1>4, <1>6, <1>7, <1>8 DEF Rosters

LEMMA PeersRefineRelay == [PNext]_pvars => [Next]_vars
BY DEF PNext, Next, Server, Deliver, pvars

LEMMA RostersStep == Shape /\ Shape' /\ Rosters /\ [PNext]_pvars => Rosters'
<1> SUFFICES ASSUME Shape, Shape', Rosters, [PNext]_pvars PROVE Rosters'
  OBVIOUS
<1>1. CASE UNCHANGED pvars
  BY <1>1 DEF pvars, vars, Rosters, Inside, OneAtATime, ListExact, LeftIsGone, NotItself,
     WillKnow, Informed, Knows, Changing, HostsIn
<1> QED BY <1>1, ServerRosters, DeliverRosters DEF PNext

LEMMA InitRosters == PInit => Rosters
<1> SUFFICES ASSUME PInit PROVE Rosters
  OBVIOUS
<1>1. /\ \A s \in Session : pc[s] = "init" /\ snap[s] = {} /\ outq[s] = <<>> /\ peers[s] = {}
      /\ peers \in [Session -> SUBSET Agent]
  BY DEF PInit, Init
<1> QED BY <1>1 DEF Rosters, Inside, Entered, OneAtATime, Changing, ListExact, LeftIsGone,
  NotItself, Modest, WillKnow, Informed

LEMMA RostersInvariant == PSpec => [](Shape /\ Rosters)
<1>1. PInit => Shape /\ Rosters
  BY InitShape, InitRosters DEF PInit
<1>2. Shape /\ Rosters /\ [PNext]_pvars => Shape' /\ Rosters'
  BY PeersRefineRelay, NextShape, RostersStep
<1> QED BY <1>1, <1>2, PTL DEF PSpec

(* For every number of connections and machines and every capacity of the queues: unless
   membership changes of its Room have overlapped, or its queue was full for a frame that
   told of one, a peer's roster (AgentState.peers, kept only from AgentList, AgentJoined
   and AgentLeft) is exactly the other machines of its Room whenever nothing is on its
   way. *)
THEOREM QuietRosterHolds == PSpec => []QuietRoster
<1>1. ASSUME Shape, Rosters PROVE QuietRoster
  <2> SUFFICES ASSUME NEW s \in Session, UpToDate(s), room[s] \notin overlap, s \notin missed
               PROVE  RosterExact(s)
    BY DEF QuietRoster
  <2>1. Informed(s) /\ outq[s] = <<>> /\ room[s] \in Session
    BY <1>1, InformedRoom DEF UpToDate, Informed
  <2>2. ASSUME NEW h \in Agent \ {Host[s]}
        PROVE  h \in peers[s] <=> h \in HostsIn(room[s])
    <3>1. \A x \in Session : Changing(x) /\ room[x] = room[s] => Host[x] # h
      BY DEF UpToDate
    <3>2. Learns(outq[s], peers[s], h) <=> h \in HostsIn(room[s])
      BY <1>1, <2>1, <2>2, <3>1 DEF Rosters, WillKnow, Knows
    <3> QED BY <2>1, <3>2, LearnsNothing
  <2>3. peers[s] \subseteq Agent /\ HostsIn(room[s]) \subseteq Agent
    BY <1>1, <2>1, HostsInType DEF Rosters
  <2>4. Host[s] \notin peers[s]
    BY <1>1, <2>1 DEF Rosters, NotItself, Informed
  <2> QED BY <2>2, <2>3, <2>4 DEF RosterExact
<1> QED BY <1>1, RostersInvariant, PTL
=============================================================================
