------------------------------ MODULE WorkerRoom ------------------------------
(***************************************************************************)
(* The relay as a Durable Object (worker/src/room.ts): one room, one event  *)
(* at a time.  What a socket's attachment holds survives hibernation; the   *)
(* map of pending requests does not.  A connection may die without a close  *)
(* event: an alarm then reaps its socket.                                   *)
(*                                                                         *)
(* Time passes in rounds of PING_INTERVAL (30 s): the reaper runs every two *)
(* rounds and a socket is stale after three.  Frames are sent and received  *)
(* in order, so a broadcast changes the views of its receivers at once.     *)
(***************************************************************************)
EXTENDS Naturals, FiniteSets, Absent

CONSTANTS
  Sock,    \* connections
  Id,      \* agent ids: several connections may have one
  IdOf,    \* the agent id a connection authenticates with, or None: an observer
  Silent,  \* connections whose clients do not ping
  Issuer   \* those that issue a command

(* None is neither an id nor a number of rounds. *)
ASSUME RoomAssumption ==
  IdOf \in [Sock -> Id \cup {None}] /\ None \notin Id /\ None \notin Nat

VARIABLES
  sock,     \* getWebSockets(): "new", "open", "closing" or "gone"
  alive,    \* connections whose client is there
  session,  \* attachment.sessionId: the authenticated sockets
  ident,    \* attachment.agentInfo: the id, or None
  age,      \* rounds since attachment.lastSeen
  alarm,    \* rounds until the alarm, or None
  waiting,  \* requests whose issuer is known; the request of s is s
  asked,    \* requests on their way to an agent: pairs of issuer and socket
  got,      \* issuers that got a result, or an error
  missed,   \* results that did not get to their connected issuer (ghost)
  slept,    \* requests in flight during a hibernation (ghost)
  view      \* the ids a client has in its list: changed by agent_list, _joined, _left

attached == <<session, ident>>
request  == <<waiting, asked, got, missed, slept>>
roomVars == <<sock, alive, attached, age, alarm, request, view>>

ReapInterval == 2
Stale        == 3
Oldest       == Stale + ReapInterval

RoomTypeOK ==
  /\ sock \in [Sock -> {"new", "open", "closing", "gone"}]
  /\ alive \subseteq Sock /\ session \subseteq Sock
  /\ ident \in [Sock -> Id \cup {None}]
  /\ age \in [Sock -> 0..Oldest + 1]
  /\ alarm \in {None} \cup 0..ReapInterval
  /\ waiting \subseteq Sock /\ asked \subseteq Sock \X Sock
  /\ got \subseteq Sock /\ missed \subseteq Sock /\ slept \subseteq Sock
  /\ view \in [Sock -> SUBSET Id]

RoomInit ==
  /\ sock = [s \in Sock |-> "new"] /\ alive = {} /\ session = {}
  /\ ident = [s \in Sock |-> None] /\ age = [s \in Sock |-> 0] /\ alarm = None
  /\ waiting = {} /\ asked = {} /\ got = {} /\ missed = {} /\ slept = {}
  /\ view = [s \in Sock |-> {}]

Sockets == {s \in Sock : sock[s] \in {"open", "closing"}}
AgentSockets == {s \in Sockets : ident[s] # None}
McpSockets == Sockets \ AgentSockets
Listed == {ident[s] : s \in AgentSockets}

-----------------------------------------------------------------------------
(* Frames to the clients *)

(* Who hears of an agent that joins or leaves: observers and agents with another id. *)
Hears(s, i) == s \in alive /\ ident[s] # i
(* Mutant: whoever leaves is announced, whatever other sockets the id has. *)
AnnounceAll(leaving) == {ident[s] : s \in leaving} \ {None}

(* The ids that leave with these sockets: no other live socket holds them. *)
Left(leaving) ==
  ({ident[s] : s \in leaving} \ {None}) \ {ident[s] : s \in AgentSockets \ leaving}

(* handleDisconnect: the departure is announced and the session's requests dropped. *)
Disconnect(leaving) ==
  /\ view' = [s \in Sock |-> view[s] \ {i \in Left(leaving) : Hears(s, i)}]
  /\ waiting' = waiting \ (leaving \cap session)

-----------------------------------------------------------------------------
(* Connections *)

(* fetch, handleWebSocket: the socket is accepted and the reaper is sure to run. *)
Accept(s) ==
  /\ sock[s] = "new" /\ sock' = [sock EXCEPT ![s] = "open"]
  /\ alive' = alive \cup {s} /\ age' = [age EXCEPT ![s] = 0]
  /\ alarm' = IF alarm = None THEN ReapInterval ELSE alarm
  /\ UNCHANGED <<attached, request, view>>

Open(s) == sock[s] = "open" /\ s \in alive

(* handleAuth: an agent gets the list of its peers, the others hear of it. *)
Auth(s) ==
  LET i == IdOf[s] IN
  /\ Open(s) /\ s \notin session
  /\ session' = session \cup {s} /\ ident' = [ident EXCEPT ![s] = i]
  /\ age' = [age EXCEPT ![s] = 0]
  /\ view' = IF i = None THEN view
             ELSE [r \in Sock |-> IF r = s THEN Listed \ {i}
                                  ELSE IF Hears(r, i) THEN view[r] \cup {i} ELSE view[r]]
  /\ UNCHANGED <<sock, alive, alarm, request>>

(* A token that does not match: auth_failed and close. *)
AuthFails(s) ==
  /\ Open(s) /\ s \notin session
  /\ sock' = [sock EXCEPT ![s] = "closing"] /\ age' = [age EXCEPT ![s] = 0]
  /\ UNCHANGED <<alive, attached, alarm, request, view>>

(* update_agent of an agent about itself: told as a join is.  One that names another id,
   or comes from a socket without an id, only counts as a message. *)
UpdateAgent(s) ==
  /\ Open(s) /\ ident[s] # None
  /\ view' = [r \in Sock |-> IF Hears(r, ident[s]) THEN view[r] \cup {ident[s]} ELSE view[r]]
  /\ age' = [age EXCEPT ![s] = 0]
  /\ UNCHANGED <<sock, alive, attached, alarm, request>>

(* list_agents, only for an authenticated socket. *)
ListAgents(s) ==
  /\ Open(s) /\ s \in session
  /\ view' = [view EXCEPT ![s] = Listed] /\ age' = [age EXCEPT ![s] = 0]
  /\ UNCHANGED <<sock, alive, attached, alarm, request>>

(* close: the departure is announced; the attachment stays until the socket is gone. *)
CloseSocket(s) ==
  /\ Open(s) /\ Disconnect({s})
  /\ sock' = [sock EXCEPT ![s] = "closing"] /\ age' = [age EXCEPT ![s] = 0]
  /\ UNCHANGED <<alive, attached, alarm, asked, got, missed, slept>>

(* webSocketClose or webSocketError, once the client is gone. *)
Closed(s) ==
  /\ s \in Sockets \ alive /\ Disconnect({s})
  /\ sock' = [sock EXCEPT ![s] = "gone"]
  /\ session' = session \ {s} /\ ident' = [ident EXCEPT ![s] = None]
  /\ age' = [age EXCEPT ![s] = 0]
  /\ UNCHANGED <<alive, alarm, asked, got, missed, slept>>

(* The client goes away; for the object to notice takes a close event, if one comes. *)
Die(s) ==
  /\ s \in alive /\ alive' = alive \ {s} /\ view' = [view EXCEPT ![s] = {}]
  /\ UNCHANGED <<sock, attached, age, alarm, request>>

-----------------------------------------------------------------------------
(* Time *)

(* Every client pings once a round, unless it is silent or gone. *)
Age == [s \in Sock |-> IF Open(s) /\ s \notin Silent THEN 0
                       ELSE IF s \in Sockets /\ age[s] <= Oldest THEN age[s] + 1 ELSE age[s]]

Round ==
  /\ alarm # 0
  /\ age' = Age
  /\ alarm' = IF alarm = None THEN None ELSE alarm - 1
  /\ UNCHANGED <<sock, alive, attached, request, view>>

(* Mutant: the next alarm is set only if this one found nothing to reap. *)
NextAlarmIfIdle(overdue) == IF Sockets # {} /\ overdue = {} THEN ReapInterval ELSE None

NextAlarm(overdue) == IF Sockets # {} THEN ReapInterval ELSE None

(* The alarm: overdue sockets are announced, stripped of their identity and closed. *)
Alarm ==
  LET overdue == {s \in Sockets : age[s] > Stale} IN
  /\ alarm = 0
  /\ Disconnect(overdue)
  /\ session' = session \ overdue
  /\ ident' = [s \in Sock |-> IF s \in overdue THEN None ELSE ident[s]]
  /\ sock' = [s \in Sock |-> IF s \in overdue THEN "closing" ELSE sock[s]]
  /\ alarm' = NextAlarm(overdue)
  /\ UNCHANGED <<alive, age, asked, got, missed, slept>>

(* The object is evicted from memory between two events. *)
Hibernate ==
  /\ waiting # {} /\ waiting' = {} /\ slept' = slept \cup waiting
  /\ UNCHANGED <<sock, alive, attached, age, alarm, asked, got, missed, view>>

-----------------------------------------------------------------------------
(* Requests *)

(* command: one socket of the agent gets it (Routing models which), or the sender an error. *)
Command(s) ==
  /\ s \in Issuer /\ Open(s) /\ s \in session /\ s \notin got \cup waiting \cup slept \cup missed
  /\ \A r \in Sock : <<s, r>> \notin asked
  /\ age' = [age EXCEPT ![s] = 0]
  /\ \E i \in Id :
       LET targets == {r \in AgentSockets : ident[r] = i} IN
       IF targets = {} THEN got' = got \cup {s} /\ UNCHANGED <<waiting, asked>>
       ELSE /\ waiting' = waiting \cup {s} /\ UNCHANGED got
            /\ \E r \in targets : asked' = asked \cup {<<s, r>>}
  /\ UNCHANGED <<sock, alive, attached, alarm, missed, slept, view>>

(* Mutant: an issuer that is not known any more gets nothing. *)
ReceiversKnown(s) == IF s \in waiting THEN {s} ELSE {}

(* routeToOrigin: the session that asked, or every observer if it is not known or gone. *)
Receivers(s) == IF s \in waiting /\ s \in Sockets \cap session THEN {s} ELSE McpSockets

(* command_result or command_error. *)
Result(s, r) ==
  /\ <<s, r>> \in asked /\ Open(r)
  /\ asked' = asked \ {<<s, r>>} /\ age' = [age EXCEPT ![r] = 0]
  /\ got' = IF s \in Receivers(s) /\ Open(s) THEN got \cup {s} ELSE got
  /\ missed' = IF Open(s) /\ s \in session /\ s \notin got' THEN missed \cup {s} ELSE missed
  /\ UNCHANGED <<sock, alive, attached, alarm, waiting, slept, view>>

-----------------------------------------------------------------------------
RoomNext ==
  \/ \E s \in Sock : \/ Accept(s) \/ Auth(s) \/ AuthFails(s) \/ UpdateAgent(s) \/ ListAgents(s)
                     \/ CloseSocket(s) \/ Closed(s) \/ Die(s) \/ Command(s)
                     \/ \E r \in Sock : Result(s, r)
  \/ Round \/ Alarm \/ Hibernate

RoomSpec == RoomInit /\ [][RoomNext]_roomVars

-----------------------------------------------------------------------------
(* No client misses an agent that is there: whichever of the sockets of one id close, *)
(* are closed or reaped, in any order, the id stays listed while another one is open. *)
NoFlicker ==
  \A s, r \in Sock : Open(s) /\ s \in session /\ IdOf[s] # None /\ Open(r) /\ ident[r] # None
    => ident[r] \in view[s] \cup {ident[s]}

(* A client that pings is never reaped. *)
LiveKept ==
  [][\A s \in Sock : Alarm /\ Open(s) /\ s \notin Silent => sock'[s] = "open"]_roomVars

(* A machine that died silently is out of the lists within five rounds (150 s), however *)
(* many sockets are reaped at a time: no open identified socket gets older.             *)
DeadForgotten == \A s \in AgentSockets : age[s] <= Oldest

(* The result of a request reaches the client that asked and is still connected, unless *)
(* the object hibernated meanwhile and the client is an identified peer.                *)
ResultReturns == \A s \in missed : s \in slept /\ IdOf[s] # None

(* As documented (room.ts): after a hibernation the result still arrives, by broadcast. *)
ResultAlwaysReturns == missed = {}
=============================================================================
