------------------------------- MODULE RequestsProofs -------------------------------
(***************************************************************************)
(* What holds of a request on its way: the Durable Object's room returns a   *)
(* result to who asked, and neither hides an agent that is there nor shows   *)
(* one that is gone (WorkerRoom); a command is executed by whom its target   *)
(* names, whatever build the relay is (Wire), and both relays choose the     *)
(* same connections for it (RoutingLoops); its pipes never make it wait for  *)
(* itself (Shell); and a search finds what was announced (SessionIndex).     *)
(***************************************************************************)
EXTENDS WorkerRoom, Wire, RoutingLoops, Shell, SessionIndex, FiniteSetTheorems, TLAPS

(***************************************************************************)
(* WorkerRoom, for any sockets, ids and requests                             *)
(***************************************************************************)

-----------------------------------------------------------------------------
(* The type invariant *)

LEMMA InitTyped == RoomInit => RoomTypeOK
BY RoomAssumption DEF RoomInit, RoomTypeOK, ReapInterval, Stale, Oldest

(* The view of a disconnect, an arrival and a list hold ids only. *)
LEMMA ListedTyped == ASSUME RoomTypeOK PROVE Listed \subseteq Id
BY DEF RoomTypeOK, Listed, AgentSockets, Sockets

LEMMA DisconnectTyped ==
  ASSUME RoomTypeOK, NEW L \in SUBSET Sock, Disconnect(L)
  PROVE  view' \in [Sock -> SUBSET Id] /\ waiting' \subseteq waiting
BY DEF RoomTypeOK, Disconnect, Hears

LEMMA NextTyped == ASSUME RoomTypeOK, [RoomNext]_roomVars PROVE RoomTypeOK'
<1>1. ASSUME NEW s \in Sock, Accept(s) PROVE RoomTypeOK'
  BY <1>1 DEF RoomTypeOK, Accept, attached, request, ReapInterval, Stale, Oldest
<1>2. ASSUME NEW s \in Sock, Auth(s) PROVE RoomTypeOK'
  <2>1. IdOf[s] \in Id \cup {None}
    BY RoomAssumption
  <2>2. view' \in [Sock -> SUBSET Id]
    BY <1>2, <2>1, ListedTyped DEF RoomTypeOK, Auth, Hears
  <2> QED BY <1>2, <2>1, <2>2 DEF RoomTypeOK, Auth, request, Stale, Oldest, ReapInterval
<1>3. ASSUME NEW s \in Sock, AuthFails(s) PROVE RoomTypeOK'
  BY <1>3 DEF RoomTypeOK, AuthFails, attached, request, ReapInterval, Stale, Oldest
<1>4. ASSUME NEW s \in Sock, ListAgents(s) PROVE RoomTypeOK'
  BY <1>4, ListedTyped DEF RoomTypeOK, ListAgents, attached, request, ReapInterval, Stale, Oldest
<1>5. ASSUME NEW s \in Sock, CloseSocket(s) PROVE RoomTypeOK'
  <2>1. view' \in [Sock -> SUBSET Id] /\ waiting' \subseteq waiting
    BY <1>5, DisconnectTyped DEF CloseSocket
  <2>2. sock' \in [Sock -> {"new", "open", "closing", "gone"}] /\ age' \in [Sock -> 0..Oldest + 1]
    BY <1>5 DEF RoomTypeOK, CloseSocket, ReapInterval, Stale, Oldest
  <2>3. UNCHANGED <<alive, session, ident, alarm, asked, got, missed, slept>>
    BY <1>5 DEF CloseSocket, attached
  <2> QED BY <2>1, <2>2, <2>3 DEF RoomTypeOK
<1>6. ASSUME NEW s \in Sock, Closed(s) PROVE RoomTypeOK'
  <2>1. view' \in [Sock -> SUBSET Id] /\ waiting' \subseteq waiting
    BY <1>6, DisconnectTyped DEF Closed
  <2>2. sock' \in [Sock -> {"new", "open", "closing", "gone"}] /\ age' \in [Sock -> 0..Oldest + 1]
    BY <1>6 DEF RoomTypeOK, Closed, ReapInterval, Stale, Oldest
  <2>3. session' \subseteq Sock /\ ident' \in [Sock -> Id \cup {None}]
    BY <1>6 DEF RoomTypeOK, Closed
  <2>4. UNCHANGED <<alive, alarm, asked, got, missed, slept>>
    BY <1>6 DEF Closed
  <2> QED BY <2>1, <2>2, <2>3, <2>4 DEF RoomTypeOK
<1>7. ASSUME NEW s \in Sock, Die(s) PROVE RoomTypeOK'
  BY <1>7 DEF RoomTypeOK, Die, attached, request
<1>8. ASSUME NEW s \in Sock, Command(s) PROVE RoomTypeOK'
  <2>1. waiting' \subseteq Sock /\ got' \subseteq Sock /\ asked' \subseteq Sock \X Sock
    BY <1>8 DEF RoomTypeOK, Command, AgentSockets, Sockets
  <2> QED BY <1>8, <2>1 DEF RoomTypeOK, Command, attached, ReapInterval, Stale, Oldest
<1>9. ASSUME NEW s \in Sock, NEW r \in Sock, Result(s, r) PROVE RoomTypeOK'
  BY <1>9 DEF RoomTypeOK, Result, attached, ReapInterval, Stale, Oldest
<1>10. ASSUME Round PROVE RoomTypeOK'
  <2>1. age' \in [Sock -> 0..Oldest + 1]
    BY <1>10 DEF RoomTypeOK, Round, Age, ReapInterval, Stale, Oldest
  <2>2. alarm' \in {None} \cup 0..ReapInterval
    BY <1>10 DEF RoomTypeOK, Round, ReapInterval
  <2> QED BY <1>10, <2>1, <2>2 DEF RoomTypeOK, Round, attached, request
<1>11. ASSUME Alarm PROVE RoomTypeOK'
  <2>1. view' \in [Sock -> SUBSET Id] /\ waiting' \subseteq waiting
    BY <1>11, DisconnectTyped DEF Alarm, Sockets
  <2>2. alarm' \in {None} \cup 0..ReapInterval
    BY <1>11 DEF Alarm, NextAlarm, ReapInterval
  <2> QED BY <1>11, <2>1, <2>2 DEF RoomTypeOK, Alarm
<1>12. ASSUME Hibernate PROVE RoomTypeOK'
  BY <1>12 DEF RoomTypeOK, Hibernate, attached
<1>13. ASSUME UNCHANGED roomVars PROVE RoomTypeOK'
  BY <1>13 DEF RoomTypeOK, roomVars, attached, request
<1>14. ASSUME NEW s \in Sock, UpdateAgent(s) PROVE RoomTypeOK'
  <2>1. view' \in [Sock -> SUBSET Id]
    BY <1>14 DEF RoomTypeOK, UpdateAgent
  <2> QED BY <1>14, <2>1 DEF RoomTypeOK, UpdateAgent, attached, request, ReapInterval, Stale, Oldest
<1> QED BY <1>1, <1>2, <1>3, <1>4, <1>5, <1>6, <1>7, <1>8, <1>9, <1>10, <1>11, <1>12, <1>13, <1>14
        DEF RoomNext

(* The variables have their types, for any sockets and ids. *)
THEOREM TypeCorrect == RoomSpec => []RoomTypeOK
<1> QED BY InitTyped, NextTyped, PTL DEF RoomSpec

-----------------------------------------------------------------------------
(* Identities: who is attached as what *)

(* A socket has an id from its authentication to its end; a new one has neither
   client nor session. *)
Attached ==
  \A s \in Sock :
    /\ ident[s] = IF s \in session THEN IdOf[s] ELSE None
    /\ sock[s] = "new" => s \notin session /\ s \notin alive

LEMMA AttachedStep == ASSUME RoomTypeOK, Attached, [RoomNext]_roomVars PROVE Attached'
<1>1. ASSUME NEW s \in Sock, Accept(s) PROVE Attached'
  BY <1>1 DEF RoomTypeOK, Attached, Accept, attached
<1>2. ASSUME NEW s \in Sock, Auth(s) PROVE Attached'
  BY <1>2 DEF RoomTypeOK, Attached, Auth, Open
<1>3. ASSUME NEW s \in Sock, AuthFails(s) PROVE Attached'
  BY <1>3 DEF RoomTypeOK, Attached, AuthFails, Open, attached
<1>4. ASSUME NEW s \in Sock, ListAgents(s) PROVE Attached'
  BY <1>4 DEF Attached, ListAgents, attached
<1>5. ASSUME NEW s \in Sock, CloseSocket(s) PROVE Attached'
  BY <1>5 DEF RoomTypeOK, Attached, CloseSocket, attached
<1>6. ASSUME NEW s \in Sock, Closed(s) PROVE Attached'
  BY <1>6 DEF RoomTypeOK, Attached, Closed
<1>7. ASSUME NEW s \in Sock, Die(s) PROVE Attached'
  BY <1>7 DEF RoomTypeOK, Attached, Die, attached
<1>8. ASSUME NEW s \in Sock, Command(s) PROVE Attached'
  BY <1>8 DEF Attached, Command, attached
<1>9. ASSUME NEW s \in Sock, NEW r \in Sock, Result(s, r) PROVE Attached'
  BY <1>9 DEF Attached, Result, attached
<1>10. ASSUME Round PROVE Attached'
  BY <1>10 DEF Attached, Round, attached
<1>11. ASSUME Alarm PROVE Attached'
  BY <1>11 DEF RoomTypeOK, Attached, Alarm, Sockets
<1>12. ASSUME Hibernate PROVE Attached'
  BY <1>12 DEF Attached, Hibernate, attached
<1>13. ASSUME UNCHANGED roomVars PROVE Attached'
  BY <1>13 DEF Attached, roomVars, attached
<1>14. ASSUME NEW s \in Sock, UpdateAgent(s) PROVE Attached'
  BY <1>14 DEF Attached, UpdateAgent, attached
<1> QED BY <1>1, <1>2, <1>3, <1>4, <1>5, <1>6, <1>7, <1>8, <1>9, <1>10, <1>11, <1>12, <1>13, <1>14
        DEF RoomNext

(* NoFlicker is inductive once identities are: an event that takes an id off a list
   has seen that no other socket holds it, and one that adds a holder tells the rest. *)
LEMMA FlickerStep ==
  ASSUME RoomTypeOK, Attached, NoFlicker, [RoomNext]_roomVars PROVE NoFlicker'
<1> SUFFICES ASSUME NEW c \in Sock, NEW r \in Sock,
                    Open(c)', (c \in session)', IdOf[c] # None, Open(r)', ident'[r] # None
             PROVE  ident'[r] \in view'[c] \cup {ident'[c]}
  BY DEF NoFlicker
<1>1. ASSUME NEW s \in Sock, Accept(s) PROVE ident'[r] \in view'[c] \cup {ident'[c]}
  BY <1>1 DEF RoomTypeOK, NoFlicker, Attached, Open, Accept, attached
<1>2. ASSUME NEW s \in Sock, Auth(s) PROVE ident'[r] \in view'[c] \cup {ident'[c]}
  <2>1. sock' = sock /\ alive' = alive /\ Open(c) /\ Open(r)
    BY <1>2 DEF Auth, Open
  <2>2. CASE c = s
    <3>1. ident'[c] = IdOf[s] /\ view'[c] = Listed \ {IdOf[s]}
      BY <1>2, <2>2 DEF RoomTypeOK, Auth
    <3>2. r # s => ident'[r] \in Listed
      BY <1>2, <2>1 DEF RoomTypeOK, Auth, Open, Listed, AgentSockets, Sockets
    <3> QED BY <2>2, <3>1, <3>2
  <2>3. CASE c # s /\ r = s
    <3>1. ident'[r] = IdOf[s] /\ IdOf[s] # None /\ ident'[c] = ident[c]
      BY <1>2, <2>3 DEF RoomTypeOK, Auth
    <3>2. view'[c] = IF Hears(c, IdOf[s]) THEN view[c] \cup {IdOf[s]} ELSE view[c]
      BY <1>2, <2>3, <3>1 DEF Auth
    <3> QED BY <2>1, <3>1, <3>2 DEF Hears, Open
  <2>4. CASE c # s /\ r # s
    <3>1. ident'[r] = ident[r] /\ ident'[c] = ident[c] /\ c \in session
      BY <1>2, <2>4 DEF RoomTypeOK, Auth
    <3>2. view[c] \subseteq view'[c]
      BY <1>2, <2>4 DEF Auth
    <3> QED BY <2>1, <3>1, <3>2 DEF NoFlicker
  <2> QED BY <2>2, <2>3, <2>4
<1>3. ASSUME NEW s \in Sock, AuthFails(s) PROVE ident'[r] \in view'[c] \cup {ident'[c]}
  BY <1>3 DEF RoomTypeOK, NoFlicker, Open, AuthFails, attached
<1>4. ASSUME NEW s \in Sock, ListAgents(s) PROVE ident'[r] \in view'[c] \cup {ident'[c]}
  <2>1. ident'[r] \in Listed
    BY <1>4 DEF ListAgents, attached, Open, Listed, AgentSockets, Sockets
  <2> QED BY <1>4, <2>1 DEF RoomTypeOK, NoFlicker, Open, ListAgents, attached
<1>5. ASSUME NEW s \in Sock, CloseSocket(s) PROVE ident'[r] \in view'[c] \cup {ident'[c]}
  <2>1. r # s /\ Open(r) /\ Open(c) /\ ident' = ident /\ session' = session
    BY <1>5 DEF RoomTypeOK, CloseSocket, Open, attached
  <2>2. ident[r] \notin Left({s})
    BY <2>1 DEF Left, AgentSockets, Sockets, Open
  <2> QED BY <1>5, <2>1, <2>2 DEF NoFlicker, CloseSocket, Disconnect
<1>6. ASSUME NEW s \in Sock, Closed(s) PROVE ident'[r] \in view'[c] \cup {ident'[c]}
  <2>1. r # s /\ c # s /\ Open(r) /\ Open(c)
    BY <1>6 DEF RoomTypeOK, Closed, Open, Sockets
  <2>2. ident'[r] = ident[r] /\ ident'[c] = ident[c] /\ c \in session
    BY <1>6, <2>1 DEF RoomTypeOK, Closed
  <2>3. ident[r] \notin Left({s})
    BY <2>1, <2>2 DEF Left, AgentSockets, Sockets, Open
  <2> QED BY <1>6, <2>1, <2>2, <2>3 DEF NoFlicker, Closed, Disconnect
<1>7. ASSUME NEW s \in Sock, Die(s) PROVE ident'[r] \in view'[c] \cup {ident'[c]}
  BY <1>7 DEF RoomTypeOK, NoFlicker, Open, Die, attached
<1>8. ASSUME NEW s \in Sock, Command(s) PROVE ident'[r] \in view'[c] \cup {ident'[c]}
  BY <1>8 DEF NoFlicker, Open, Command, attached
<1>9. ASSUME NEW s \in Sock, NEW q \in Sock, Result(s, q)
      PROVE  ident'[r] \in view'[c] \cup {ident'[c]}
  BY <1>9 DEF NoFlicker, Open, Result, attached
<1>10. ASSUME Round PROVE ident'[r] \in view'[c] \cup {ident'[c]}
  BY <1>10 DEF NoFlicker, Open, Round, attached
<1>11. ASSUME Alarm PROVE ident'[r] \in view'[c] \cup {ident'[c]}
  <2> DEFINE overdue == {x \in Sockets : age[x] > Stale}
  <2>1. r \notin overdue /\ c \notin overdue /\ Open(r) /\ Open(c)
    BY <1>11 DEF RoomTypeOK, Alarm, Open
  <2>2. ident'[r] = ident[r] /\ ident'[c] = ident[c] /\ c \in session
    BY <1>11, <2>1 DEF Alarm
  <2>3. ident[r] \notin Left(overdue)
    BY <2>1, <2>2 DEF Left, AgentSockets, Sockets, Open
  <2>4. Disconnect(overdue)
    BY <1>11 DEF Alarm
  <2> HIDE DEF overdue
  <2> QED BY <2>1, <2>2, <2>3, <2>4 DEF NoFlicker, Disconnect
<1>12. ASSUME Hibernate PROVE ident'[r] \in view'[c] \cup {ident'[c]}
  BY <1>12 DEF NoFlicker, Open, Hibernate, attached
<1>13. ASSUME UNCHANGED roomVars PROVE ident'[r] \in view'[c] \cup {ident'[c]}
  BY <1>13 DEF NoFlicker, Open, roomVars, attached
<1>14. ASSUME NEW s \in Sock, UpdateAgent(s) PROVE ident'[r] \in view'[c] \cup {ident'[c]}
  <2>1. view[c] \subseteq view'[c]
    BY <1>14 DEF UpdateAgent
  <2> QED BY <1>14, <2>1 DEF NoFlicker, Open, UpdateAgent, attached
<1> QED BY <1>1, <1>2, <1>3, <1>4, <1>5, <1>6, <1>7, <1>8, <1>9, <1>10, <1>11, <1>12, <1>13, <1>14
        DEF RoomNext

LEMMA AttachedInvariant == RoomSpec => [](RoomTypeOK /\ Attached)
<1>1. RoomInit => RoomTypeOK /\ Attached
  BY InitTyped DEF RoomInit, Attached
<1>2. RoomTypeOK /\ Attached /\ [RoomNext]_roomVars => (RoomTypeOK /\ Attached)'
  BY NextTyped, AttachedStep
<1> QED BY <1>1, <1>2, PTL DEF RoomSpec

(* No client misses an agent that is there, whichever sockets of its id come and go. *)
THEOREM ListsHold == RoomSpec => []NoFlicker
<1>1. RoomInit => NoFlicker
  BY DEF RoomInit, NoFlicker, Open
<1>2. RoomTypeOK /\ Attached /\ NoFlicker /\ [RoomNext]_roomVars => NoFlicker'
  BY FlickerStep
<1> QED BY <1>1, <1>2, AttachedInvariant, PTL DEF RoomSpec

-----------------------------------------------------------------------------
(* The reaper *)

(* While there are sockets an alarm is set, and it will come before a socket that has
   an id gets too old. *)
Watched ==
  /\ Sockets # {} => alarm # None
  /\ \A s \in AgentSockets : age[s] + alarm <= Oldest

(* Every message of a client renews its attachment, and the others ping each round. *)
Fresh == \A s \in Sock : Open(s) /\ s \notin Silent => age[s] = 0

LEMMA WatchedStep == ASSUME RoomTypeOK, Attached, Watched, [RoomNext]_roomVars PROVE Watched'
<1>1. ASSUME NEW s \in Sock, Accept(s) PROVE Watched'
  BY <1>1, RoomAssumption DEF RoomTypeOK, Watched, Sockets, AgentSockets, Open, ReapInterval, Stale, Oldest,
              Attached, Accept, attached, request
<1>2. ASSUME NEW s \in Sock, Auth(s) PROVE Watched'
  BY <1>2, RoomAssumption DEF RoomTypeOK, Watched, Sockets, AgentSockets, Open, ReapInterval, Stale, Oldest,
              Auth, request
<1>3. ASSUME NEW s \in Sock, AuthFails(s) PROVE Watched'
  BY <1>3 DEF RoomTypeOK, Watched, Sockets, AgentSockets, Open, ReapInterval, Stale, Oldest,
              AuthFails, attached, request
<1>4. ASSUME NEW s \in Sock, ListAgents(s) PROVE Watched'
  BY <1>4 DEF RoomTypeOK, Watched, Sockets, AgentSockets, Open, ReapInterval, Stale, Oldest,
              ListAgents, attached, request
<1>5. ASSUME NEW s \in Sock, CloseSocket(s) PROVE Watched'
  BY <1>5 DEF RoomTypeOK, Watched, Sockets, AgentSockets, Open, ReapInterval, Stale, Oldest,
              CloseSocket, attached
<1>6. ASSUME NEW s \in Sock, Closed(s) PROVE Watched'
  BY <1>6 DEF RoomTypeOK, Watched, Sockets, AgentSockets, Open, ReapInterval, Stale, Oldest, Closed
<1>7. ASSUME NEW s \in Sock, Die(s) PROVE Watched'
  BY <1>7 DEF RoomTypeOK, Watched, Sockets, AgentSockets, Open, ReapInterval, Stale, Oldest,
              Die, attached, request
<1>8. ASSUME NEW s \in Sock, Command(s) PROVE Watched'
  BY <1>8 DEF RoomTypeOK, Watched, Sockets, AgentSockets, Open, ReapInterval, Stale, Oldest,
              Command, attached
<1>9. ASSUME NEW s \in Sock, NEW q \in Sock, Result(s, q) PROVE Watched'
  BY <1>9 DEF RoomTypeOK, Watched, Sockets, AgentSockets, Open, ReapInterval, Stale, Oldest,
              Result, attached
<1>10. ASSUME Round PROVE Watched'
  BY <1>10, RoomAssumption DEF RoomTypeOK, Watched, Sockets, AgentSockets, Open, ReapInterval, Stale, Oldest,
               Age, Round, attached, request
<1>11. ASSUME Alarm PROVE Watched'
  BY <1>11, RoomAssumption DEF RoomTypeOK, Watched, Sockets, AgentSockets, Open, ReapInterval, Stale, Oldest,
               NextAlarm, Alarm
<1>12. ASSUME Hibernate PROVE Watched'
  BY <1>12 DEF RoomTypeOK, Watched, Sockets, AgentSockets, Open, ReapInterval, Stale, Oldest,
               Hibernate, attached
<1>13. ASSUME UNCHANGED roomVars PROVE Watched'
  BY <1>13 DEF RoomTypeOK, Watched, Sockets, AgentSockets, Open, ReapInterval, Stale, Oldest,
               roomVars, attached, request
<1>14. ASSUME NEW s \in Sock, UpdateAgent(s) PROVE Watched'
  BY <1>14 DEF RoomTypeOK, Watched, Sockets, AgentSockets, Open, ReapInterval, Stale, Oldest,
               UpdateAgent, attached, request
<1> QED BY <1>1, <1>2, <1>3, <1>4, <1>5, <1>6, <1>7, <1>8, <1>9, <1>10, <1>11, <1>12, <1>13, <1>14
        DEF RoomNext

LEMMA FreshStep == ASSUME RoomTypeOK, Attached, Fresh, [RoomNext]_roomVars PROVE Fresh'
<1>1. ASSUME NEW s \in Sock, Accept(s) PROVE Fresh'
  BY <1>1 DEF RoomTypeOK, Fresh, Open, Attached, Accept, attached, request
<1>2. ASSUME NEW s \in Sock, Auth(s) PROVE Fresh'
  BY <1>2 DEF RoomTypeOK, Fresh, Open, Auth, request
<1>3. ASSUME NEW s \in Sock, AuthFails(s) PROVE Fresh'
  BY <1>3 DEF RoomTypeOK, Fresh, Open, AuthFails, attached, request
<1>4. ASSUME NEW s \in Sock, ListAgents(s) PROVE Fresh'
  BY <1>4 DEF RoomTypeOK, Fresh, Open, ListAgents, attached, request
<1>5. ASSUME NEW s \in Sock, CloseSocket(s) PROVE Fresh'
  BY <1>5 DEF RoomTypeOK, Fresh, Open, CloseSocket, attached
<1>6. ASSUME NEW s \in Sock, Closed(s) PROVE Fresh'
  BY <1>6 DEF RoomTypeOK, Fresh, Open, Sockets, Closed
<1>7. ASSUME NEW s \in Sock, Die(s) PROVE Fresh'
  BY <1>7 DEF RoomTypeOK, Fresh, Open, Die, attached, request
<1>8. ASSUME NEW s \in Sock, Command(s) PROVE Fresh'
  BY <1>8 DEF RoomTypeOK, Fresh, Open, Command, attached
<1>9. ASSUME NEW s \in Sock, NEW q \in Sock, Result(s, q) PROVE Fresh'
  BY <1>9 DEF RoomTypeOK, Fresh, Open, Result, attached
<1>10. ASSUME Round PROVE Fresh'
  BY <1>10 DEF RoomTypeOK, Fresh, Open, Age, Round, attached, request
<1>11. ASSUME Alarm PROVE Fresh'
  BY <1>11 DEF RoomTypeOK, Fresh, Open, Sockets, Alarm
<1>12. ASSUME Hibernate PROVE Fresh'
  BY <1>12 DEF RoomTypeOK, Fresh, Open, Hibernate, attached
<1>13. ASSUME UNCHANGED roomVars PROVE Fresh'
  BY <1>13 DEF RoomTypeOK, Fresh, Open, roomVars, attached, request
<1>14. ASSUME NEW s \in Sock, UpdateAgent(s) PROVE Fresh'
  BY <1>14 DEF RoomTypeOK, Fresh, Open, UpdateAgent, attached, request
<1> QED BY <1>1, <1>2, <1>3, <1>4, <1>5, <1>6, <1>7, <1>8, <1>9, <1>10, <1>11, <1>12, <1>13, <1>14
        DEF RoomNext

LEMMA ReaperInvariant ==
  RoomSpec => [](RoomTypeOK /\ Attached /\ Watched /\ Fresh)
<1>1. RoomInit => Watched /\ Fresh
  BY DEF RoomInit, Watched, Fresh, Sockets, AgentSockets, Open
<1>2. RoomTypeOK /\ Attached /\ Watched /\ Fresh /\ [RoomNext]_roomVars => (Watched /\ Fresh)'
  BY WatchedStep, FreshStep
<1> QED BY <1>1, <1>2, AttachedInvariant, PTL DEF RoomSpec

(* A machine that died silently is out of the lists in time, whatever was reaped before. *)
THEOREM DeadReaped == RoomSpec => []DeadForgotten
<1>1. RoomTypeOK /\ Watched => DeadForgotten
  <2> SUFFICES ASSUME RoomTypeOK, Watched, NEW s \in AgentSockets PROVE age[s] <= Oldest
    BY DEF DeadForgotten
  <2>1. alarm \in Nat /\ age[s] \in Nat /\ age[s] + alarm <= Oldest
    BY DEF RoomTypeOK, Watched, AgentSockets, Sockets, ReapInterval
  <2> QED BY <2>1 DEF Oldest, Stale, ReapInterval
<1> QED BY <1>1, ReaperInvariant, PTL

(* A client that pings is not reaped. *)
THEOREM PingingKept == RoomSpec => LiveKept
<1>1. RoomTypeOK /\ Fresh /\ [RoomNext]_roomVars =>
        [\A s \in Sock : Alarm /\ Open(s) /\ s \notin Silent => sock'[s] = "open"]_roomVars
  <2> SUFFICES ASSUME RoomTypeOK, Fresh, NEW s \in Sock, Alarm, Open(s), s \notin Silent
               PROVE  sock'[s] = "open"
    OBVIOUS
  <2>1. age[s] = 0 /\ ~(age[s] > Stale)
    BY DEF Fresh, Stale
  <2> QED BY <2>1 DEF Alarm, Open
<1> QED BY <1>1, ReaperInvariant, PTL DEF RoomSpec, LiveKept

-----------------------------------------------------------------------------
(* Results *)

(* An agent is at work on requests whose issuer the room knows, or knew until it
   hibernated, or who has left. *)
IssuersKnown ==
  \A s, r \in Sock : <<s, r>> \in asked =>
    s \in waiting \cup slept \/ sock[s] \in {"closing", "gone"}

LEMMA KnownStep == ASSUME RoomTypeOK, Attached, IssuersKnown, [RoomNext]_roomVars PROVE IssuersKnown'
<1>1. ASSUME NEW s \in Sock, Accept(s) PROVE IssuersKnown'
  BY <1>1 DEF IssuersKnown, RoomTypeOK, Attached, Accept, attached, request
<1>2. ASSUME NEW s \in Sock, Auth(s) PROVE IssuersKnown'
  BY <1>2 DEF IssuersKnown, Auth, request
<1>3. ASSUME NEW s \in Sock, AuthFails(s) PROVE IssuersKnown'
  BY <1>3 DEF IssuersKnown, RoomTypeOK, Open, AuthFails, attached, request
<1>4. ASSUME NEW s \in Sock, ListAgents(s) PROVE IssuersKnown'
  BY <1>4 DEF IssuersKnown, ListAgents, attached, request
<1>5. ASSUME NEW s \in Sock, CloseSocket(s) PROVE IssuersKnown'
  BY <1>5 DEF IssuersKnown, RoomTypeOK, Disconnect, CloseSocket, attached
<1>6. ASSUME NEW s \in Sock, Closed(s) PROVE IssuersKnown'
  BY <1>6 DEF IssuersKnown, RoomTypeOK, Disconnect, Closed
<1>7. ASSUME NEW s \in Sock, Die(s) PROVE IssuersKnown'
  BY <1>7 DEF IssuersKnown, Die, attached, request
<1>8. ASSUME NEW s \in Sock, Command(s) PROVE IssuersKnown'
  BY <1>8 DEF IssuersKnown, Command, attached
<1>9. ASSUME NEW s \in Sock, NEW q \in Sock, Result(s, q) PROVE IssuersKnown'
  BY <1>9 DEF IssuersKnown, Result, attached
<1>10. ASSUME Round PROVE IssuersKnown'
  BY <1>10 DEF IssuersKnown, Round, attached, request
<1>11. ASSUME Alarm PROVE IssuersKnown'
  BY <1>11 DEF IssuersKnown, RoomTypeOK, Disconnect, Alarm
<1>12. ASSUME Hibernate PROVE IssuersKnown'
  BY <1>12 DEF IssuersKnown, Hibernate, attached
<1>13. ASSUME UNCHANGED roomVars PROVE IssuersKnown'
  BY <1>13 DEF IssuersKnown, roomVars, attached, request
<1>14. ASSUME NEW s \in Sock, UpdateAgent(s) PROVE IssuersKnown'
  BY <1>14 DEF IssuersKnown, UpdateAgent, attached, request
<1> QED BY <1>1, <1>2, <1>3, <1>4, <1>5, <1>6, <1>7, <1>8, <1>9, <1>10, <1>11, <1>12, <1>13, <1>14
        DEF RoomNext

LEMMA ResultStep ==
  ASSUME RoomTypeOK, Attached, IssuersKnown, ResultReturns, [RoomNext]_roomVars PROVE ResultReturns'
<1>1. ASSUME NEW s \in Sock, NEW r \in Sock, Result(s, r) PROVE ResultReturns'
  <2>1. CASE Open(s) /\ s \in session /\ s \notin got'
    <3>1. s \in waiting => Receivers(s) = {s}
      BY <2>1 DEF Receivers, Sockets, Open
    <3>2. s \notin Receivers(s)
      BY <1>1, <2>1 DEF Result
    <3>3. s \in slept
      BY <1>1, <2>1, <3>1, <3>2 DEF IssuersKnown, Result, Open
    <3>4. s \notin McpSockets
      BY <3>1, <3>2 DEF Receivers
    <3>5. IdOf[s] # None
      BY <2>1, <3>4 DEF McpSockets, AgentSockets, Sockets, Open, Attached
    <3> QED BY <1>1, <3>3, <3>5 DEF ResultReturns, Result
  <2>2. CASE ~(Open(s) /\ s \in session /\ s \notin got')
    BY <1>1, <2>2 DEF Result, ResultReturns
  <2> QED BY <2>1, <2>2
<1>2. (missed' = missed /\ slept \subseteq slept') \/ \E s, r \in Sock : Result(s, r)
  BY DEF RoomNext, Accept, Auth, AuthFails, UpdateAgent, ListAgents, CloseSocket, Closed, Die, Command, Round,
         Alarm, Hibernate, roomVars, request
<1> QED BY <1>1, <1>2 DEF ResultReturns

(* Whoever asked and is still connected gets the result, or the room hibernated meanwhile
   and the asker is a peer with an id of its own. *)
THEOREM ResultsReturn == RoomSpec => []ResultReturns
<1>1. RoomInit => IssuersKnown /\ ResultReturns
  BY DEF RoomInit, IssuersKnown, ResultReturns
<1>2. RoomTypeOK /\ Attached /\ IssuersKnown /\ ResultReturns /\ [RoomNext]_roomVars => (IssuersKnown /\ ResultReturns)'
  BY KnownStep, ResultStep
<1> QED BY <1>1, <1>2, AttachedInvariant, PTL DEF RoomSpec

-----------------------------------------------------------------------------
(***************************************************************************)
(* Wire, for any agents and builds                                           *)
(***************************************************************************)

LEMMA WireInitTyped == WireInit => WireTypeOK
BY DEF WireInit, WireTypeOK, Plan, Newer

LEMMA ModeFromTyped == ASSUME NEW v, NEW m \in 0..Newer PROVE ModeFrom(v, m) \in {m, Plan}
BY DEF ModeFrom

(* Frames keep their type on the way. *)
LEMMA CarriedTyped ==
  ASSUME WireTypeOK, NEW f \in net, NEW more \in SUBSET Frame, Carry(f, more)
  PROVE  net' \subseteq Frame
BY DEF WireTypeOK, Carry

LEMMA WireNextTyped == ASSUME WireTypeOK, [WireNext]_wireVars PROVE WireTypeOK'
<1>1. ASSUME NEW t \in Target("new"), NEW d \in Deeds("new"), Issue(t, d) PROVE WireTypeOK'
  <2>1. [target |-> t, deed |-> d] \in Commands
    BY DEF Commands
  <2>2. issued' \subseteq Commands
    BY <1>1, <2>1 DEF Issue
  <2>3. [kind: {"command"}, at: {"relay"}, command: issued'] \subseteq Frame
    BY <2>2 DEF Frame, Node
  <2> QED BY <1>1, <2>2, <2>3 DEF Issue, WireTypeOK, builds
<1>2. ASSUME NEW a \in Agent, NEW m \in {Known, Newer}, Enter(a, m) PROVE WireTypeOK'
  <2>1. [kind |-> "update", at |-> "relay", about |-> a, mode |-> m] \in Frame
    BY DEF Frame, Known, Newer
  <2>2. m \in 0..Newer
    BY DEF Known, Newer
  <2>3. net' \subseteq Frame
    BY <1>2, <2>1 DEF Enter, WireTypeOK
  <2>4. mode' \in [Agent -> 0..Newer] /\ been' \in [Agent -> SUBSET (0..Newer)]
    BY <1>2, <2>2 DEF Enter, WireTypeOK
  <2> QED BY <1>2, <2>3, <2>4 DEF Enter, WireTypeOK, builds
<1>3. ASSUME NEW f \in net, Forward(f) PROVE WireTypeOK'
  <2> DEFINE targets == TargetFrom(version["relay"], f.command.target)
             named == UNION {t.names : t \in targets}
             more == {[kind |-> "forwarded", at |-> a, command |-> f.command] : a \in named}
  <2>1. f \in [kind: {"command", "forwarded"}, at: Node, command: Commands]
    BY <1>3 DEF WireTypeOK, Frame, Forward
  <2>2. named \subseteq Agent
    <3>1. f.command.target.names \subseteq Agent
      BY <2>1 DEF Commands, Target
    <3> QED BY <3>1 DEF TargetFrom, TargetTry, TargetFromPb
  <2>3. more \subseteq Frame
    <3>1. \A a \in Agent :
            [kind |-> "forwarded", at |-> a, command |-> f.command]
              \in [kind: {"command", "forwarded"}, at: Node, command: Commands]
      BY <2>1 DEF Node
    <3> QED BY <2>2, <3>1 DEF Frame
  <2>4. Carry(f, more)
    BY <1>3 DEF Forward
  <2>5. net' \subseteq Frame
    <3> HIDE DEF more
    <3> QED BY <2>3, <2>4, CarriedTyped
  <2>6. outcome' \subseteq ((Agent \cup {"relay"}) \X {"ok", "key mismatch?", "no agents"})
    <3>1. outcome' \subseteq outcome \cup {<<"relay", "no agents">>}
      BY <1>3 DEF Forward
    <3>2. <<"relay", "no agents">> \in ((Agent \cup {"relay"}) \X {"ok", "key mismatch?", "no agents"})
      OBVIOUS
    <3> QED BY <3>1, <3>2, Zenon DEF WireTypeOK
  <2> QED BY <1>3, <2>5, <2>6 DEF Forward, WireTypeOK, builds
<1>4. ASSUME NEW f \in net, Execute(f) PROVE WireTypeOK'
  <2> DEFINE a == f.at
             d == f.command.deed
             says(s) == [kind |-> "result", at |-> "relay", about |-> a, says |-> s]
             news == [kind |-> "update", at |-> "relay", about |-> a, mode |-> d.mode]
  <2>1. a \in Agent /\ f \in [kind: {"command", "forwarded"}, at: Node, command: Commands]
    BY <1>4 DEF WireTypeOK, Frame, Execute
  <2>2. d.mode \in 0..Newer
    BY <2>1 DEF Commands, Deeds, Modes, Plan, Known, Newer
  <2>3. says("ok") \in Frame /\ says("key mismatch?") \in Frame /\ news \in Frame
    BY <2>1, <2>2 DEF Frame
  <2>4. net' \subseteq Frame
    <3>1. \/ Carry(f, {says("ok")}) \/ Carry(f, {says("key mismatch?")})
          \/ Carry(f, {says("ok"), news})
      BY <1>4 DEF Execute
    <3> HIDE DEF says, news
    <3> QED BY <3>1, <2>3 DEF Carry, WireTypeOK
  <2>5. mode' \in [Agent -> 0..Newer] /\ been' \in [Agent -> SUBSET (0..Newer)]
    <3>1. CASE UNCHANGED <<mode, been>>
      BY <3>1 DEF WireTypeOK
    <3>2. CASE /\ mode' = [mode EXCEPT ![a] = d.mode]
               /\ been' = [been EXCEPT ![a] = @ \cup {d.mode}]
      BY <3>2, <2>2 DEF WireTypeOK
    <3> QED BY <1>4, <3>1, <3>2 DEF Execute
  <2>6. ran' \subseteq Agent
    BY <1>4, <2>1 DEF Execute, WireTypeOK
  <2> QED BY <1>4, <2>4, <2>5, <2>6 DEF Execute, WireTypeOK, builds
<1>5. ASSUME NEW f \in net, Announce(f) PROVE WireTypeOK'
  <2>1. f \in [kind: {"update", "joined"}, at: {"issuer", "relay"}, about: Agent, mode: 0..Newer]
    BY <1>5 DEF WireTypeOK, Frame, Announce
  <2>2. ModeFrom(version["relay"], f.mode) \in 0..Newer
    BY <2>1, ModeFromTyped DEF Plan, Newer
  <2>3. net' \subseteq Frame
    BY <1>5, <2>1, <2>2 DEF Announce, Carry, WireTypeOK, Frame
  <2> QED BY <1>5, <2>3 DEF Announce, WireTypeOK, builds
<1>6. ASSUME NEW f \in net, Joined(f) PROVE WireTypeOK'
  <2>1. f \in [kind: {"update", "joined"}, at: {"issuer", "relay"}, about: Agent, mode: 0..Newer]
    BY <1>6 DEF WireTypeOK, Frame, Joined
  <2>2. ModeFrom(version["issuer"], f.mode) \in 0..Newer
    BY <2>1, ModeFromTyped DEF Plan, Newer
  <2> QED BY <1>6, <2>1, <2>2 DEF Joined, Carry, WireTypeOK, builds
<1>7. ASSUME NEW f \in net, Pass(f) PROVE WireTypeOK'
  <2>1. f \in [kind: {"result", "reply"}, at: {"issuer", "relay"}, about: Agent,
               says: {"ok", "key mismatch?"}]
    BY <1>7 DEF WireTypeOK, Frame, Pass
  <2>2. net' \subseteq Frame
    BY <1>7, <2>1 DEF Pass, Carry, WireTypeOK, Frame
  <2> QED BY <1>7, <2>2 DEF Pass, WireTypeOK, builds
<1>8. ASSUME NEW f \in net, Reply(f) PROVE WireTypeOK'
  <2>1. f \in [kind: {"result", "reply"}, at: {"issuer", "relay"}, about: Agent,
               says: {"ok", "key mismatch?"}]
    BY <1>8 DEF WireTypeOK, Frame, Reply
  <2>2. outcome' \subseteq ((Agent \cup {"relay"}) \X {"ok", "key mismatch?", "no agents"})
    <3>1. outcome' = outcome \cup {<<f.about, f.says>>}
      BY <1>8 DEF Reply
    <3>2. <<f.about, f.says>> \in ((Agent \cup {"relay"}) \X {"ok", "key mismatch?", "no agents"})
      BY <2>1
    <3> QED BY <3>1, <3>2, Zenon DEF WireTypeOK
  <2> QED BY <1>8, <2>2 DEF Reply, Carry, WireTypeOK, builds
<1>9. CASE UNCHANGED wireVars
  BY <1>9 DEF WireTypeOK, wireVars, builds
<1> QED BY <1>1, <1>2, <1>3, <1>4, <1>5, <1>6, <1>7, <1>8, <1>9 DEF WireNext

(* The types of the wire: whatever the builds of the relay and of its clients. *)
THEOREM WireTypeCorrect == WireSpec => []WireTypeOK
BY WireInitTyped, WireNextTyped, PTL DEF WireSpec

-----------------------------------------------------------------------------
(* What is forwarded is the command that was issued, to an agent it names. *)
Addressed ==
  /\ relay = "rust"
  /\ \A c, d \in issued : c = d
  /\ issued = {} => ran = {}
  /\ \A f \in net : f.kind \in {"command", "forwarded"} => f.command \in issued
  /\ \A f \in net : f.kind = "forwarded" => f.at \in f.command.target.names

(* A hop that carries neither a command nor its order, and that runs nothing. *)
LEMMA AddressedKept ==
  ASSUME Addressed, OnlyNamed, UNCHANGED <<relay, issued, ran>>,
         \A f \in net' : f \in net \/ f.kind \notin {"command", "forwarded"}
  PROVE  Addressed' /\ OnlyNamed'
BY DEF Addressed, OnlyNamed

LEMMA AddressedNext ==
  ASSUME WireTypeOK, Addressed, OnlyNamed, [WireNext]_wireVars
  PROVE  Addressed' /\ OnlyNamed'
<1>1. ASSUME NEW t \in Target("new"), NEW d \in Deeds("new"), Issue(t, d)
      PROVE  Addressed' /\ OnlyNamed'
  <2>1. issued = {} /\ ran = {} /\ ran' = ran /\ relay' = relay
    BY <1>1 DEF Issue, Addressed, builds
  <2>2. issued' = {[target |-> t, deed |-> d]}
    BY <1>1 DEF Issue
  <2>3. \A f \in net : f.kind \notin {"command", "forwarded"}
    BY <2>1 DEF Addressed
  <2>4. \A f \in net' : \/ f.kind \notin {"command", "forwarded"}
                        \/ f.kind = "command" /\ f.command \in issued'
    BY <1>1, <2>3 DEF Issue
  <2> QED BY <2>1, <2>2, <2>4 DEF Addressed, OnlyNamed
<1>2. ASSUME NEW a \in Agent, NEW m \in {Known, Newer}, Enter(a, m)
      PROVE  Addressed' /\ OnlyNamed'
  BY <1>2, AddressedKept DEF Enter, builds
<1>3. ASSUME NEW f \in net, Forward(f) PROVE Addressed' /\ OnlyNamed'
  <2>1. f.kind = "command" /\ f.command \in issued
    BY <1>3 DEF Forward, Addressed
  <2>2. TargetFrom(version["relay"], f.command.target) \subseteq {f.command.target}
    BY DEF Addressed, TargetFrom, TargetTry
  <2>3. ASSUME NEW g \in net', g \notin net
        PROVE  /\ g.kind = "forwarded" /\ g.command = f.command
               /\ g.at \in f.command.target.names
    <3> DEFINE named == UNION {t.names : t \in TargetFrom(version["relay"], f.command.target)}
    <3>1. net' = (net \ {f}) \cup
                   {[kind |-> "forwarded", at |-> a, command |-> f.command] : a \in named}
      BY <1>3 DEF Forward, Carry
    <3>2. named \subseteq f.command.target.names
      BY <2>2
    <3> HIDE DEF named
    <3>3. PICK a \in named : g = [kind |-> "forwarded", at |-> a, command |-> f.command]
      BY <2>3, <3>1
    <3> QED BY <3>2, <3>3
  <2>4. UNCHANGED <<relay, issued, ran>>
    BY <1>3 DEF Forward, builds
  <2> QED BY <2>1, <2>3, <2>4 DEF Addressed, OnlyNamed
<1>4. ASSUME NEW f \in net, Execute(f) PROVE Addressed' /\ OnlyNamed'
  <2>1. f.kind = "forwarded" /\ f.command \in issued /\ f.at \in f.command.target.names
    BY <1>4 DEF Execute, Addressed
  <2>2. \A g \in net' : g \in net \/ g.kind \notin {"command", "forwarded"}
    <3> DEFINE says(s) == [kind |-> "result", at |-> "relay", about |-> f.at, says |-> s]
               news == [kind |-> "update", at |-> "relay", about |-> f.at,
                        mode |-> f.command.deed.mode]
    <3>1. \/ Carry(f, {says("ok")}) \/ Carry(f, {says("key mismatch?")})
          \/ Carry(f, {says("ok"), news})
      BY <1>4 DEF Execute
    <3>2. /\ says("ok").kind = "result" /\ says("key mismatch?").kind = "result"
          /\ news.kind = "update"
      OBVIOUS
    <3> HIDE DEF says, news
    <3> QED BY <3>1, <3>2 DEF Carry
  <2>3. ran' \subseteq ran \cup {f.at} /\ UNCHANGED <<relay, issued>>
    BY <1>4 DEF Execute, builds
  <2> QED BY <2>1, <2>2, <2>3 DEF Addressed, OnlyNamed
<1>5. ASSUME NEW f \in net, Announce(f) \/ Joined(f) \/ Pass(f) \/ Reply(f)
      PROVE  Addressed' /\ OnlyNamed'
  <2>1. UNCHANGED <<relay, issued, ran>>
    BY <1>5 DEF Announce, Joined, Pass, Reply, builds
  <2>2. \A g \in net' : g \in net \/ g.kind \notin {"command", "forwarded"}
    <3>1. CASE Announce(f)
      <4>1. f \in [kind: {"update", "joined"}, at: {"issuer", "relay"}, about: Agent,
                   mode: 0..Newer]
        BY <3>1 DEF WireTypeOK, Frame, Announce
      <4> QED BY <3>1, <4>1 DEF Announce, Carry
    <3>2. CASE Pass(f)
      <4>1. f \in [kind: {"result", "reply"}, at: {"issuer", "relay"}, about: Agent,
                   says: {"ok", "key mismatch?"}]
        BY <3>2 DEF WireTypeOK, Frame, Pass
      <4> QED BY <3>2, <4>1 DEF Pass, Carry
    <3> QED BY <1>5, <3>1, <3>2 DEF Joined, Reply, Carry
  <2> QED BY <2>1, <2>2, AddressedKept
<1>6. CASE UNCHANGED wireVars
  BY <1>6 DEF wireVars, builds, Addressed, OnlyNamed
<1> QED BY <1>1, <1>2, <1>3, <1>4, <1>5, <1>6 DEF WireNext

(* With the Rust relay a command is executed by agents its target names only, however many
   agents there are and whichever builds lie between them and the issuer. *)
THEOREM OnlyNamedHolds == WireSpec /\ relay = "rust" => []OnlyNamed
<1>1. WireInit /\ relay = "rust" => Addressed /\ OnlyNamed
  BY DEF WireInit, Addressed, OnlyNamed
<1> QED BY <1>1, AddressedNext, WireTypeCorrect, PTL DEF WireSpec
-----------------------------------------------------------------------------
(* A mode on its way to a roster is one its agent has announced, or the least powerful. *)
Announced ==
  \A f \in net : f.kind \in {"update", "joined"} => f.mode \in been[f.about] \cup {Plan}

LEMMA AnnouncedKept ==
  ASSUME Announced, NoModeMadeUp, WireTypeOK, UNCHANGED <<been, shown>>,
         \A f \in net' : f \in net \/ f.kind \notin {"update", "joined"}
  PROVE  Announced' /\ NoModeMadeUp'
BY DEF Announced, NoModeMadeUp

LEMMA AnnouncedNext ==
  ASSUME WireTypeOK, Announced, NoModeMadeUp, [WireNext]_wireVars
  PROVE  Announced' /\ NoModeMadeUp'
<1>1. ASSUME NEW t \in Target("new"), NEW d \in Deeds("new"), Issue(t, d)
      PROVE  Announced' /\ NoModeMadeUp'
  <2>1. \A f \in net' : f \in net \/ f.kind \notin {"update", "joined"}
    BY <1>1 DEF Issue
  <2> QED BY <1>1, <2>1, AnnouncedKept DEF Issue
<1>2. ASSUME NEW a \in Agent, NEW m \in {Known, Newer}, Enter(a, m)
      PROVE  Announced' /\ NoModeMadeUp'
  <2>1. been' = [been EXCEPT ![a] = @ \cup {m}] /\ been \in [Agent -> SUBSET (0..Newer)]
    BY <1>2 DEF Enter, WireTypeOK
  <2>2. \A b \in Agent : been[b] \subseteq been'[b]
    BY <2>1
  <2>3. \A f \in net' : f \in net \/ (f.about = a /\ f.mode = m)
    BY <1>2 DEF Enter
  <2>4. ASSUME NEW f \in net', f.kind \in {"update", "joined"}
        PROVE  f.mode \in been'[f.about] \cup {Plan}
    <3>1. CASE f \in net
      <4>1. f.about \in Agent
        BY <3>1, <2>4 DEF WireTypeOK, Frame
      <4> QED BY <3>1, <4>1, <2>2, <2>4 DEF Announced
    <3>2. CASE f.about = a /\ f.mode = m
      BY <3>2, <2>1
    <3> QED BY <3>1, <3>2, <2>3
  <2>5. shown' = shown
    BY <1>2 DEF Enter
  <2> QED BY <2>2, <2>4, <2>5 DEF Announced, NoModeMadeUp
<1>3. ASSUME NEW f \in net, Forward(f) PROVE Announced' /\ NoModeMadeUp'
  <2> DEFINE named == UNION {t.names : t \in TargetFrom(version["relay"], f.command.target)}
  <2>1. net' = (net \ {f}) \cup
                 {[kind |-> "forwarded", at |-> a, command |-> f.command] : a \in named}
    BY <1>3 DEF Forward, Carry
  <2> HIDE DEF named
  <2>2. ASSUME NEW g \in net', g \notin net PROVE g.kind \notin {"update", "joined"}
    <3>1. PICK a \in named : g = [kind |-> "forwarded", at |-> a, command |-> f.command]
      BY <2>1, <2>2
    <3> QED BY <3>1
  <2> QED BY <1>3, <2>2, AnnouncedKept DEF Forward
<1>4. ASSUME NEW f \in net, Execute(f) PROVE Announced' /\ NoModeMadeUp'
  <2> DEFINE d == f.command.deed
             says(s) == [kind |-> "result", at |-> "relay", about |-> f.at, says |-> s]
             news == [kind |-> "update", at |-> "relay", about |-> f.at, mode |-> d.mode]
  <2>1. f.at \in Agent /\ shown' = shown
    BY <1>4 DEF Execute
  <2>2. CASE /\ UNCHANGED <<mode, been>>
             /\ Carry(f, {says("ok")}) \/ Carry(f, {says("key mismatch?")})
    <3>1. says("ok").kind = "result" /\ says("key mismatch?").kind = "result"
      OBVIOUS
    <3> HIDE DEF says
    <3>2. \A g \in net' : g \in net \/ g.kind \notin {"update", "joined"}
      BY <2>2, <3>1 DEF Carry
    <3> QED BY <2>1, <2>2, <3>2, AnnouncedKept
  <2>3. CASE /\ been' = [been EXCEPT ![f.at] = @ \cup {d.mode}]
             /\ Carry(f, {says("ok"), news})
    <3>1. says("ok").kind = "result" /\ news.about = f.at /\ news.mode = d.mode
      OBVIOUS
    <3>2. \A b \in Agent : been[b] \subseteq been'[b]
      BY <2>3 DEF WireTypeOK
    <3>3. d.mode \in been'[f.at]
      BY <2>1, <2>3 DEF WireTypeOK
    <3> HIDE DEF says, news, d
    <3>4. \A g \in net' : g \in net \/ g = says("ok") \/ g = news
      BY <2>3 DEF Carry
    <3>5. ASSUME NEW g \in net', g.kind \in {"update", "joined"}
          PROVE  g.mode \in been'[g.about] \cup {Plan}
      <4>1. CASE g \in net
        <5>1. g.about \in Agent
          BY <4>1, <3>5 DEF WireTypeOK, Frame
        <5> QED BY <4>1, <5>1, <3>2, <3>5 DEF Announced
      <4>2. CASE g = news
        BY <4>2, <3>1, <3>3
      <4> QED BY <4>1, <4>2, <3>1, <3>4, <3>5
    <3> QED BY <2>1, <3>2, <3>5 DEF Announced, NoModeMadeUp
  <2> QED BY <1>4, <2>2, <2>3 DEF Execute
<1>5. ASSUME NEW f \in net, Announce(f) PROVE Announced' /\ NoModeMadeUp'
  <2>1. f \in [kind: {"update", "joined"}, at: {"issuer", "relay"}, about: Agent, mode: 0..Newer]
    BY <1>5 DEF WireTypeOK, Frame, Announce
  <2>2. PICK m \in {f.mode, Plan} :
          net' = (net \ {f}) \cup {[f EXCEPT !.kind = "joined", !.at = "issuer", !.mode = m]}
    BY <1>5 DEF Announce, Carry, ModeFrom
  <2>3. m \in been[f.about] \cup {Plan}
    BY <1>5, <2>2 DEF Announced, Announce
  <2>4. \A g \in net' : g \in net \/ (g.about = f.about /\ g.mode = m)
    BY <2>1, <2>2
  <2>5. UNCHANGED <<been, shown>>
    BY <1>5 DEF Announce
  <2> QED BY <2>3, <2>4, <2>5 DEF Announced, NoModeMadeUp
<1>6. ASSUME NEW f \in net, Joined(f) PROVE Announced' /\ NoModeMadeUp'
  <2>1. f.mode \in been[f.about] \cup {Plan}
    BY <1>6 DEF Announced, Joined
  <2>2. shown' = [shown EXCEPT ![f.about] = f.mode] \/ shown' = [shown EXCEPT ![f.about] = Plan]
    BY <1>6 DEF Joined, ModeFrom
  <2>3. net' \subseteq net /\ been' = been
    BY <1>6 DEF Joined, Carry
  <2> QED BY <2>1, <2>2, <2>3 DEF Announced, NoModeMadeUp, WireTypeOK
<1>7. ASSUME NEW f \in net, Pass(f) \/ Reply(f) PROVE Announced' /\ NoModeMadeUp'
  <2>1. f \in [kind: {"result", "reply"}, at: {"issuer", "relay"}, about: Agent,
               says: {"ok", "key mismatch?"}]
    BY <1>7 DEF WireTypeOK, Frame, Pass, Reply
  <2>2. \A g \in net' : g \in net \/ g.kind = "reply"
    BY <1>7, <2>1 DEF Pass, Reply, Carry
  <2>3. UNCHANGED <<been, shown>>
    BY <1>7 DEF Pass, Reply
  <2> QED BY <2>2, <2>3, AnnouncedKept
<1>8. CASE UNCHANGED wireVars
  BY <1>8 DEF wireVars, Announced, NoModeMadeUp
<1> QED BY <1>1, <1>2, <1>3, <1>4, <1>5, <1>6, <1>7, <1>8 DEF WireNext

(* A roster never shows an agent a mode it has not announced, save the least powerful one,
   through either relay and between any builds. *)
THEOREM NoModeMadeUpHolds == WireSpec => []NoModeMadeUp
<1>1. WireInit => Announced /\ NoModeMadeUp
  BY DEF WireInit, Announced, NoModeMadeUp
<1> QED BY <1>1, AnnouncedNext, WireTypeCorrect, PTL DEF WireSpec

(***************************************************************************)
(* RoutingLoops, for any connections, machines and capabilities              *)
(***************************************************************************)

(* The connections of a machine that the scan has yielded, and those of them a target *)
(* matches.                                                                           *)
Seen(h) == {c \in Session \ todo : host[c] = h}
Hit(h) == {c \in Seen(h) : Matches(target, host[c], cap[c])}

(* b is a connection of E that none outranks, or None if there is none. *)
Highest(b, E) ==
  /\ E = {} => b = None
  /\ E # {} => b \in E /\ \A d \in E : ~ Outranks(cap[d], cap[b])

(* What the roster merge holds of the connections E of a machine. *)
Merged(rep, E) ==
  /\ E = {} <=> rep = None
  /\ rep # None =>
       /\ rep.from \in E
       /\ rep.accepts = (\E c \in E : cap[c].accepts)
       /\ rep.autonomous = (\E c \in E : cap[c].autonomous)

Scanned ==
  \A h \in Machine :
    /\ counts[h] = Cardinality(Seen(h)) /\ Merged(byId[h], Seen(h))
    /\ Highest(best[h], Hit(h)) /\ Highest(top[h], Seen(h)) /\ Highest(reduced[h], Seen(h))

(* A broadcast is never to one agent, and the worker's loops have chosen the same. *)
Alongside == target.kind # "agent" /\ merged = byId /\ selected = best

LoopsInv == LoopsTypeOK /\ Scanned /\ Alongside

-----------------------------------------------------------------------------
(* Ranks are a total preorder of the capabilities. *)

LEMMA RankTyped ==
  ASSUME LoopsTypeOK, NEW c \in Session
  PROVE  /\ cap[c].accepts \in BOOLEAN /\ cap[c].autonomous \in BOOLEAN
         /\ cap[c].at \in Int /\ Score(cap[c]) \in Int
<1>1. cap[c] \in Capability(At, Label)
  BY DEF LoopsTypeOK
<1>2. /\ cap[c].accepts \in BOOLEAN /\ cap[c].autonomous \in BOOLEAN
      /\ cap[c].at \in Int
  BY <1>1, LoopsAssumption DEF Capability
<1>3. Score(cap[c]) \in Int
  BY <1>2 DEF Score
<1> QED BY <1>2, <1>3

LEMMA RankTotal ==
  ASSUME LoopsTypeOK, NEW b \in Session, NEW c \in Session, NEW d \in Session
  PROVE  /\ ~ Outranks(cap[c], cap[c])
         /\ Outranks(cap[c], cap[d]) => ~ Outranks(cap[d], cap[c])
         /\ ~ Outranks(cap[d], cap[c]) /\ ~ Outranks(cap[c], cap[b])
              => ~ Outranks(cap[d], cap[b])
<1>1. /\ cap[b].at \in Int /\ cap[c].at \in Int /\ cap[d].at \in Int
      /\ Score(cap[b]) \in Int /\ Score(cap[c]) \in Int /\ Score(cap[d]) \in Int
  BY RankTyped
<1> QED BY <1>1 DEF Outranks

(* The worker ranks as the relay does (rankAgent, scoreAgent). *)
LEMMA RanksAlike ==
  ASSUME LoopsTypeOK, NEW c \in Session, NEW d \in Session
  PROVE  RankAgent(cap[c], cap[d]) > 0 <=> Outranks(cap[c], cap[d])
<1>1. /\ cap[c].at \in Int /\ cap[d].at \in Int
      /\ Score(cap[c]) \in Int /\ Score(cap[d]) \in Int
  BY RankTyped
<1>2. ScoreAgent(cap[c]) = Score(cap[c]) /\ ScoreAgent(cap[d]) = Score(cap[d])
  BY DEF ScoreAgent, Score
<1> QED BY <1>1, <1>2 DEF RankAgent, Outranks

(* Whatever a reduction keeps of two is the highest of all it has seen. *)
LEMMA HighestStays ==
  ASSUME LoopsTypeOK, NEW E \in SUBSET Session, NEW b, Highest(b, E), b # None,
         NEW c \in Session, ~ Outranks(cap[c], cap[b])
  PROVE  Highest(b, E \cup {c})
BY DEF Highest

LEMMA HighestMoves ==
  ASSUME LoopsTypeOK, NEW E \in SUBSET Session, NEW b, Highest(b, E), NEW c \in Session,
         b # None => ~ Outranks(cap[b], cap[c])
  PROVE  Highest(c, E \cup {c})
<1>1. ~ Outranks(cap[c], cap[c])
  BY RankTotal
<1>2. ASSUME NEW d \in E PROVE ~ Outranks(cap[d], cap[c])
  <2>1. b \in E /\ ~ Outranks(cap[d], cap[b])
    BY DEF Highest
  <2>2. b # None
    BY <2>1, LoopsAssumption
  <2> QED BY <2>1, <2>2, RankTotal
<1> QED BY <1>1, <1>2 DEF Highest

LEMMA HighestIs ==
  ASSUME LoopsTypeOK, NEW E \in SUBSET Session, NEW b, Highest(b, E)
  PROVE  b # None <=> b \in E
BY LoopsAssumption DEF Highest

-----------------------------------------------------------------------------
(* The loops, one by one *)

LEMMA ChooseHighest ==
  ASSUME LoopsTypeOK, NEW E \in SUBSET Session, NEW b, Highest(b, E), NEW c \in Session
  PROVE  Highest(Choose(b, c), IF Matches(target, host[c], cap[c]) THEN E \cup {c} ELSE E)
<1>1. CASE ~ Matches(target, host[c], cap[c])
  BY <1>1 DEF Choose
<1>2. CASE Matches(target, host[c], cap[c]) /\ b # None /\ ~ Outranks(cap[c], cap[b])
  BY <1>2, HighestStays DEF Choose
<1>3. CASE Matches(target, host[c], cap[c]) /\ (b = None \/ Outranks(cap[c], cap[b]))
  <2>1. b # None => ~ Outranks(cap[b], cap[c])
    BY <1>3, HighestIs, RankTotal
  <2> QED BY <1>3, <2>1, HighestMoves DEF Choose
<1> QED BY <1>1, <1>2, <1>3

LEMMA MaximumHighest ==
  ASSUME LoopsTypeOK, NEW E \in SUBSET Session, NEW b, Highest(b, E), NEW c \in Session
  PROVE  Highest(Maximum(b, c), E \cup {c})
<1>1. CASE b # None /\ Outranks(cap[b], cap[c])
  <2>1. ~ Outranks(cap[c], cap[b])
    BY <1>1, HighestIs, RankTotal
  <2> QED BY <1>1, <2>1, HighestStays DEF Maximum
<1>2. CASE b = None \/ ~ Outranks(cap[b], cap[c])
  BY <1>2, HighestMoves DEF Maximum
<1> QED BY <1>1, <1>2

LEMMA ReduceHighest ==
  ASSUME LoopsTypeOK, NEW E \in SUBSET Session, NEW b, Highest(b, E), NEW c \in Session
  PROVE  Highest(Reduce(b, c), E \cup {c})
<1>1. b # None => (RankAgent(cap[c], cap[b]) > 0 <=> Outranks(cap[c], cap[b]))
  BY HighestIs, RanksAlike
<1>2. CASE b # None /\ ~ Outranks(cap[c], cap[b])
  BY <1>1, <1>2, HighestStays DEF Reduce
<1>3. CASE b = None \/ Outranks(cap[c], cap[b])
  <2>1. b # None => ~ Outranks(cap[b], cap[c])
    BY <1>3, HighestIs, RankTotal
  <2> QED BY <1>1, <1>3, <2>1, HighestMoves DEF Reduce
<1> QED BY <1>2, <1>3

LEMMA MergeMerges ==
  ASSUME LoopsTypeOK, NEW E \in SUBSET Session, NEW rep, Merged(rep, E), NEW c \in Session
  PROVE  Merged(Merge(rep, c), E \cup {c})
<1>1. Merge(rep, c) # None /\ Merge(rep, c).from \in E \cup {c}
  <2>1. CASE rep = None
    <3>1. Rep(c) \in [from: Session, accepts: BOOLEAN, autonomous: BOOLEAN] /\ Rep(c).from = c
      BY RankTyped DEF Rep
    <3> QED BY <2>1, <3>1, LoopsAssumption DEF Merge
  <2>2. CASE rep # None
    <3>1. /\ rep.from \in E /\ rep.accepts \in BOOLEAN /\ rep.autonomous \in BOOLEAN
          /\ cap[c].accepts \in BOOLEAN /\ cap[c].autonomous \in BOOLEAN
      BY <2>2, RankTyped DEF Merged
    <3>2. /\ Merge(rep, c) \in [from: Session, accepts: BOOLEAN, autonomous: BOOLEAN]
          /\ Merge(rep, c).from \in E \cup {c}
      BY <2>2, <3>1 DEF Merge
    <3> QED BY <3>2, LoopsAssumption
  <2> QED BY <2>1, <2>2
<1>2. Merge(rep, c).accepts = (\E d \in E \cup {c} : cap[d].accepts)
  BY RankTyped DEF Merge, Rep, Merged
<1>3. Merge(rep, c).autonomous = (\E d \in E \cup {c} : cap[d].autonomous)
  BY RankTyped DEF Merge, Rep, Merged
<1> QED BY <1>1, <1>2, <1>3 DEF Merged

(* The worker's loops choose and merge alike. *)
LEMMA SelectsAlike ==
  ASSUME LoopsTypeOK, target.kind # "agent", NEW c \in Session, NEW b \in Session \cup {None}
  PROVE  SelectTargets(b, c) = Choose(b, c)
<1>1. MatchesTarget(c) <=> Matches(target, host[c], cap[c])
  BY DEF LoopsTypeOK, Targets, MatchesTarget, Matches
<1>2. b # None => (RankAgent(cap[c], cap[b]) > 0 <=> Outranks(cap[c], cap[b]))
  BY RanksAlike
<1> QED BY <1>1, <1>2 DEF SelectTargets, Choose

LEMMA DedupsAlike ==
  ASSUME LoopsTypeOK, NEW c \in Session,
         NEW rep \in {None} \cup [from: Session, accepts: BOOLEAN, autonomous: BOOLEAN]
  PROVE  DedupAgents(rep, c) = Merge(rep, c)
<1>1. Score(cap[c]) \in Int /\ ScoreAgent(cap[c]) = Score(cap[c])
  BY RankTyped DEF ScoreAgent, Score
<1>2. CASE rep = None
  BY <1>2, RankTyped DEF DedupAgents, Merge, Rep
<1>3. CASE rep # None
  <2>1. Score(rep) \in Int /\ ScoreAgent(rep) = Score(rep)
    BY <1>3 DEF ScoreAgent, Score
  <2> QED BY <1>1, <1>3, <2>1 DEF DedupAgents, Merge
<1> QED BY <1>2, <1>3

-----------------------------------------------------------------------------
(* The invariant *)

LEMMA LoopsStart == LoopsInit => LoopsInv
<1> SUFFICES ASSUME LoopsInit PROVE LoopsInv
  OBVIOUS
<1>1. Cardinality({}) = 0 /\ Cardinality(Session) \in Nat
  BY LoopsAssumption, FS_EmptySet, FS_CardinalityType
<1>2. \A h : Seen(h) = {} /\ Hit(h) = {}
  BY DEF LoopsInit, Seen, Hit
<1>3. LoopsTypeOK
  BY <1>1 DEF LoopsInit, LoopsTypeOK, Targets
<1>4. Scanned
  BY <1>1, <1>2 DEF LoopsInit, Scanned, Highest, Merged
<1>5. Alongside
  BY DEF LoopsInit, Alongside
<1> QED BY <1>3, <1>4, <1>5 DEF LoopsInv

(* What a step adds to what the scan has seen. *)
LEMMA VisitSees ==
  ASSUME LoopsTypeOK, NEW c \in Session, Visit(c), NEW h
  PROVE  /\ h # host[c] => Seen(h)' = Seen(h) /\ Hit(h)' = Hit(h)
         /\ h = host[c] =>
              /\ c \notin Seen(h) /\ Seen(h)' = Seen(h) \cup {c}
              /\ Hit(h)' = IF Matches(target, host[c], cap[c]) THEN Hit(h) \cup {c} ELSE Hit(h)
<1>1. c \in todo /\ todo' = todo \ {c} /\ host' = host /\ cap' = cap /\ target' = target
  BY DEF Visit
<1>2. \A d \in Session : Matches(target', host'[d], cap'[d]) <=> Matches(target, host[d], cap[d])
  BY <1>1
<1>3. h # host[c] => Seen(h)' = Seen(h)
  BY <1>1 DEF Seen
<1>4. h = host[c] => c \notin Seen(h) /\ Seen(h)' = Seen(h) \cup {c}
  BY <1>1 DEF Seen
<1>5. Hit(h)' = {d \in Seen(h)' : Matches(target, host[d], cap[d])}
  BY <1>1 DEF Hit
<1> QED BY <1>3, <1>4, <1>5 DEF Hit

LEMMA VisitKeeps == ASSUME LoopsInv, NEW c \in Session, Visit(c) PROVE LoopsInv'
<1> DEFINE h == host[c]
<1>1. LoopsTypeOK /\ h \in Machine /\ Seen(h) \subseteq Session /\ Hit(h) \subseteq Session
  BY DEF LoopsInv, LoopsTypeOK, Seen, Hit
<1>2. /\ host' = host /\ cap' = cap /\ target' = target /\ todo' = todo \ {c}
      /\ byId' = [byId EXCEPT ![h] = Merge(byId[h], c)]
      /\ counts' = [counts EXCEPT ![h] = counts[h] + 1]
      /\ best' = [best EXCEPT ![h] = Choose(best[h], c)]
      /\ top' = [top EXCEPT ![h] = Maximum(top[h], c)]
  BY DEF Visit
<1>3. /\ merged' = [merged EXCEPT ![h] = DedupAgents(merged[h], c)]
      /\ selected' = [selected EXCEPT ![h] = SelectTargets(selected[h], c)]
      /\ reduced' = [reduced EXCEPT ![h] = Reduce(reduced[h], c)]
  BY DEF Visit
<1>4. /\ byId \in [Machine -> {None} \cup [from: Session, accepts: BOOLEAN, autonomous: BOOLEAN]]
      /\ counts \in [Machine -> 0..Cardinality(Session)]
      /\ best \in [Machine -> Session \cup {None}] /\ top \in [Machine -> Session \cup {None}]
      /\ reduced \in [Machine -> Session \cup {None}]
      /\ merged = byId /\ selected = best /\ target.kind # "agent"
  BY <1>1 DEF LoopsInv, LoopsTypeOK, Alongside
<1>5. /\ IsFiniteSet(Session) /\ IsFiniteSet(Seen(h)) /\ c \notin Seen(h)
      /\ Seen(h) \cup {c} \subseteq Session
  BY <1>1, LoopsAssumption, FS_Subset, VisitSees
<1>6. /\ Cardinality(Seen(h) \cup {c}) = Cardinality(Seen(h)) + 1
      /\ Cardinality(Seen(h) \cup {c}) \in 0..Cardinality(Session)
  <2>1. Cardinality(Seen(h) \cup {c}) = Cardinality(Seen(h)) + 1
    BY <1>5, FS_AddElement
  <2>2. Cardinality(Seen(h) \cup {c}) <= Cardinality(Session)
    BY <1>5, FS_Subset
  <2>3. Cardinality(Seen(h)) \in Nat /\ Cardinality(Session) \in Nat
    BY <1>5, FS_CardinalityType
  <2> QED BY <2>1, <2>2, <2>3
<1>7. /\ counts[h] = Cardinality(Seen(h)) /\ Merged(byId[h], Seen(h))
      /\ Highest(best[h], Hit(h)) /\ Highest(top[h], Seen(h)) /\ Highest(reduced[h], Seen(h))
  BY <1>1 DEF LoopsInv, Scanned
<1>8. Merge(byId[h], c) \in [from: Session, accepts: BOOLEAN, autonomous: BOOLEAN]
  BY <1>1, <1>4, RankTyped DEF Merge, Rep
<1>9. /\ Choose(best[h], c) \in Session \cup {None} /\ Maximum(top[h], c) \in Session \cup {None}
      /\ Reduce(reduced[h], c) \in Session \cup {None}
  BY <1>1, <1>4 DEF Choose, Maximum, Reduce
<1>10. DedupAgents(merged[h], c) = Merge(byId[h], c) /\ SelectTargets(selected[h], c) = Choose(best[h], c)
  BY <1>1, <1>4, DedupsAlike, SelectsAlike
<1>11. Alongside'
  BY <1>2, <1>3, <1>4, <1>10 DEF Alongside
<1>12. LoopsTypeOK'
  <2>1. counts' \in [Machine -> 0..Cardinality(Session)]
    BY <1>2, <1>4, <1>6, <1>7
  <2>2. /\ byId' \in [Machine -> {None} \cup [from: Session, accepts: BOOLEAN, autonomous: BOOLEAN]]
        /\ best' \in [Machine -> Session \cup {None}] /\ top' \in [Machine -> Session \cup {None}]
        /\ reduced' \in [Machine -> Session \cup {None}]
    BY <1>2, <1>3, <1>4, <1>8, <1>9
  <2>3. merged' = byId' /\ selected' = best'
    BY <1>11 DEF Alongside
  <2>4. /\ host' \in [Session -> Machine] /\ cap' \in [Session -> Capability(At, Label)]
        /\ target' \in Targets(Machine, Label, None) /\ todo' \subseteq Session
    BY <1>1, <1>2 DEF LoopsTypeOK
  <2> QED BY <2>1, <2>2, <2>3, <2>4 DEF LoopsTypeOK
<1>13. ASSUME NEW g \in Machine
       PROVE  /\ counts'[g] = Cardinality(Seen(g)') /\ Merged(byId'[g], Seen(g)')
              /\ Highest(best'[g], Hit(g)') /\ Highest(top'[g], Seen(g)')
              /\ Highest(reduced'[g], Seen(g)')
  <2>1. CASE g # h
    <3>1. Seen(g)' = Seen(g) /\ Hit(g)' = Hit(g)
      BY <1>1, <2>1, VisitSees
    <3>2. /\ counts'[g] = counts[g] /\ byId'[g] = byId[g] /\ best'[g] = best[g]
          /\ top'[g] = top[g] /\ reduced'[g] = reduced[g]
      BY <1>2, <1>3, <1>4, <2>1
    <3> QED BY <3>1, <3>2 DEF LoopsInv, Scanned
  <2>2. CASE g = h
    <3>1. /\ Seen(g)' = Seen(g) \cup {c}
          /\ Hit(g)' = IF Matches(target, host[c], cap[c]) THEN Hit(g) \cup {c} ELSE Hit(g)
      BY <1>1, <2>2, VisitSees
    <3>2. /\ counts'[g] = counts[g] + 1 /\ byId'[g] = Merge(byId[g], c)
          /\ best'[g] = Choose(best[g], c) /\ top'[g] = Maximum(top[g], c)
          /\ reduced'[g] = Reduce(reduced[g], c)
      BY <1>2, <1>3, <1>4, <2>2
    <3>3. counts'[g] = Cardinality(Seen(g)')
      BY <1>6, <1>7, <2>2, <3>1, <3>2
    <3>4. Seen(g) \in SUBSET Session /\ Hit(g) \in SUBSET Session
      BY <1>1, <2>2
    <3>5. Merged(byId'[g], Seen(g)')
      BY <1>1, <1>7, <2>2, <3>1, <3>2, <3>4, MergeMerges
    <3>6. Highest(best'[g], Hit(g)')
      <4>1. Highest(best[g], Hit(g))
        BY <1>7, <2>2
      <4>2. Highest(Choose(best[g], c),
                    IF Matches(target, host[c], cap[c]) THEN Hit(g) \cup {c} ELSE Hit(g))
        BY <1>1, <3>4, <4>1, ChooseHighest
      <4> QED BY <3>1, <3>2, <4>2
    <3>7. Highest(top'[g], Seen(g)')
      BY <1>1, <1>7, <2>2, <3>1, <3>2, <3>4, MaximumHighest
    <3>8. Highest(reduced'[g], Seen(g)')
      BY <1>1, <1>7, <2>2, <3>1, <3>2, <3>4, ReduceHighest
    <3> QED BY <3>3, <3>5, <3>6, <3>7, <3>8
  <2> QED BY <2>1, <2>2
<1>14. Scanned'
  BY <1>2, <1>13 DEF Scanned, Merged, Highest
<1> QED BY <1>11, <1>12, <1>14 DEF LoopsInv

LEMMA LoopsKeep == ASSUME LoopsInv, [LoopsNext]_loopsVars PROVE LoopsInv'
<1>1. CASE UNCHANGED loopsVars
  <2>1. /\ UNCHANGED <<host, cap, target, todo, byId, counts, best, top, merged, selected, reduced>>
        /\ \A h : Seen(h)' = Seen(h) /\ Hit(h)' = Hit(h)
    BY <1>1 DEF loopsVars, worker, Seen, Hit
  <2>2. LoopsTypeOK' /\ Alongside'
    BY <2>1 DEF LoopsInv, LoopsTypeOK, Alongside
  <2>3. Scanned'
    BY <2>1 DEF LoopsInv, Scanned, Merged, Highest
  <2> QED BY <2>2, <2>3 DEF LoopsInv
<1> QED BY <1>1, VisitKeeps DEF LoopsNext

LEMMA LoopsInvariance == LoopsSpec => []LoopsInv
BY LoopsStart, LoopsKeep, PTL DEF LoopsSpec

-----------------------------------------------------------------------------
(* When the scan is over *)

LEMMA SeenAll ==
  ASSUME LoopsInv, Finished, NEW h
  PROVE  Seen(h) = Of(h) /\ Of(h) \subseteq Session
BY DEF LoopsInv, LoopsTypeOK, Finished, Seen, Of

(* One connection of the machine that none of its others outranks is what *)
(* resolve_targets may return for the machine.                            *)
LEMMA AgentTargeted ==
  ASSUME LoopsInv, NEW h, NEW b, Highest(b, Of(h))
  PROVE  {b} \ {None} \in ResolveTargets(Session, host, cap, [kind |-> "agent", arg |-> h])
<1> DEFINE tgt == [kind |-> "agent", arg |-> h]
           Eligible == {c \in Session : Matches(tgt, host[c], cap[c])}
           Best == {c \in Eligible :
                      \A d \in Eligible : host[d] = host[c] => ~ Outranks(cap[d], cap[c])}
           T == {b} \ {None}
<1>1. Eligible = Of(h)
  BY DEF Matches, Of
<1>2. T \subseteq Best
  BY <1>1 DEF Highest, Of
<1>3. ASSUME NEW g \in {host[c] : c \in Eligible}
      PROVE  Cardinality({c \in T : host[c] = g}) = 1
  <2>1. g = h /\ Of(h) # {} /\ b \in Of(h)
    BY <1>1, <1>3 DEF Of, Highest
  <2>2. b # None /\ host[b] = h
    BY <2>1, LoopsAssumption DEF Of
  <2>3. {c \in T : host[c] = g} = {b}
    BY <2>1, <2>2
  <2> QED BY <2>3, FS_Singleton
<1> QED BY <1>2, <1>3 DEF ResolveTargets

LEMMA Broadcast ==
  ASSUME LoopsInv, Finished
  PROVE  Chosen(best) \in ResolveTargets(Session, host, cap, target)
<1> DEFINE Eligible == {c \in Session : Matches(target, host[c], cap[c])}
           Best == {c \in Eligible :
                      \A d \in Eligible : host[d] = host[c] => ~ Outranks(cap[d], cap[c])}
           T == Chosen(best)
<1>1. ASSUME NEW h PROVE Hit(h) = {c \in Eligible : host[c] = h}
  BY SeenAll DEF Hit, Of
<1>2. \A c \in Session : host[c] \in Machine
  BY DEF LoopsInv, LoopsTypeOK
<1>3. ASSUME NEW h \in Machine
      PROVE  /\ Hit(h) = {} => best[h] = None
             /\ Hit(h) # {} => best[h] \in Hit(h) /\ best[h] # None
                                /\ \A d \in Hit(h) : ~ Outranks(cap[d], cap[best[h]])
  <2>1. Highest(best[h], Hit(h))
    BY DEF LoopsInv, Scanned
  <2>2. Hit(h) \subseteq Session
    BY <1>1
  <2> QED BY <2>1, <2>2, LoopsAssumption DEF Highest
<1>4. ASSUME NEW c \in T PROVE c \in Best /\ best[host[c]] = c
  <2>1. PICK h \in Machine : c = best[h] /\ c # None
    BY <1>4 DEF Chosen
  <2>2. c \in Hit(h) /\ \A d \in Hit(h) : ~ Outranks(cap[d], cap[c])
    BY <1>3, <2>1
  <2>3. c \in Eligible /\ host[c] = h
    BY <1>1, <2>2
  <2> QED BY <1>1, <2>1, <2>2, <2>3
<1>5. ASSUME NEW h \in {host[c] : c \in Eligible}
      PROVE  Cardinality({c \in T : host[c] = h}) = 1
  <2>1. h \in Machine /\ Hit(h) # {}
    BY <1>1, <1>2, <1>5
  <2>2. best[h] \in T /\ host[best[h]] = h
    BY <1>1, <1>3, <2>1 DEF Chosen
  <2>3. {c \in T : host[c] = h} = {best[h]}
    BY <1>4, <2>2
  <2> QED BY <2>3, FS_Singleton
<1> QED BY <1>4, <1>5 DEF ResolveTargets

(* Without ties a machine has one connection of highest rank. *)
LEMMA HighestOnce ==
  ASSUME LoopsInv, NEW h, Distinct(h), NEW b \in Of(h), NEW c \in Of(h),
         ~ Outranks(cap[b], cap[c]), ~ Outranks(cap[c], cap[b])
  PROVE  b = c
BY DEF Distinct

-----------------------------------------------------------------------------
(* The types of the loops. *)
THEOREM LoopsTypeCorrect == LoopsSpec => []LoopsTypeOK
BY LoopsInvariance, PTL DEF LoopsInv

(* In whatever order a relay's map is read, for any connections, capabilities and broadcast *)
(* target: dedup_agents lists each machine once with what any of its connections can do,    *)
(* dedup_targets and max_by_key (routing.rs) choose what resolve_targets promises, the two  *)
(* agree where ranks do not tie, and the worker's loops (room.ts) choose the same.          *)
THEOREM ResolvedHolds == LoopsSpec => []Resolved
<1>1. ASSUME LoopsInv, Finished, NEW h \in Machine
      PROVE  /\ counts[h] = Cardinality(Of(h)) /\ Merged(byId[h], Of(h))
             /\ Highest(best[h], Hit(h)) /\ Hit(h) \subseteq Of(h)
             /\ Highest(top[h], Of(h)) /\ Highest(reduced[h], Of(h))
  BY <1>1, SeenAll DEF LoopsInv, Scanned, Hit
<1>2. LoopsInv => RosterMerged
  BY <1>1 DEF RosterMerged, Merged
<1>3. LoopsInv => BroadcastResolved
  BY Broadcast DEF BroadcastResolved
<1>4. LoopsInv => AgentResolved
  BY <1>1, AgentTargeted DEF AgentResolved
<1>5. LoopsInv => SameSocketWhenRanked
  <2> SUFFICES ASSUME LoopsInv, Finished, NEW h \in Machine, best[h] # None, Distinct(h),
                      cap[top[h]].accepts, target.kind = "all"
               PROVE  best[h] = top[h]
    BY DEF SameSocketWhenRanked
  <2>1. best[h] \in Hit(h) /\ best[h] \in Of(h)
    BY <1>1 DEF Highest
  <2>2. top[h] \in Of(h) /\ ~ Outranks(cap[best[h]], cap[top[h]])
    BY <1>1, <2>1 DEF Highest
  <2>3. top[h] \in Hit(h)
    BY <2>2, SeenAll DEF Hit, Matches
  <2>4. ~ Outranks(cap[top[h]], cap[best[h]])
    BY <1>1, <2>3 DEF Highest
  <2> QED BY <2>1, <2>2, <2>4, HighestOnce
<1>6. LoopsInv => LockStep
  <2> SUFFICES ASSUME LoopsInv, Finished, NEW h \in Machine
               PROVE  /\ merged = byId /\ selected = best
                      /\ {reduced[h]} \ {None} \in
                           ResolveTargets(Session, host, cap, [kind |-> "agent", arg |-> h])
                      /\ Distinct(h) => reduced[h] = top[h]
    BY DEF LockStep, LoopsInv, Alongside
  <2>1. merged = byId /\ selected = best
    BY DEF LoopsInv, Alongside
  <2>2. {reduced[h]} \ {None} \in
          ResolveTargets(Session, host, cap, [kind |-> "agent", arg |-> h])
    BY <1>1, AgentTargeted
  <2>3. Distinct(h) => reduced[h] = top[h]
    <3>1. CASE Of(h) = {}
      BY <1>1, <3>1 DEF Highest
    <3>2. CASE Of(h) # {}
      BY <1>1, <3>2, HighestOnce DEF Highest
    <3> QED BY <3>1, <3>2
  <2> QED BY <2>1, <2>2, <2>3
<1>7. LoopsInv => Resolved
  BY <1>2, <1>3, <1>4, <1>5, <1>6 DEF Resolved
<1> QED BY <1>7, LoopsInvariance, PTL

(***************************************************************************)
(* Shell, for any pipes and any input and output                             *)
(***************************************************************************)

(* What the child has read and has still to read is no more than there was to write. *)
Flow == taken + stdin + unsent <= Lines

(* A child that runs has nothing behind it yet, has written no more than its share, and *)
(* is read to the end of the call.                                                      *)
Alone ==
  child = "runs" =>
    /\ orphan = "none" /\ written <= Lines
    /\ program = "filter" => written <= taken
    /\ reader # "ended"

(* Lines in the buffer, left out of it and in the pipe are those that were written, *)
(* unless the reader dropped one.                                                   *)
Captures ==
  /\ captured + clipped + Len(stdout) <= written
  /\ reader # "stopped" => captured + clipped + Len(stdout) = written
  /\ reader = "ended" => stdout = <<>>

(* Who is killed or aborted is so at the deadline, and who waits for the end waits for *)
(* tasks that end.                                                                     *)
Deadline ==
  /\ child = "killed" \/ orphan = "killed" \/ reader = "aborted" \/ writer = "aborted"
       => pc = "timed_out"
  /\ pc = "timed_out" => child # "runs" /\ orphan # "runs" /\ reader # "reads"
  /\ pc = "drain" \/ pc = "done" => child # "runs"
  /\ pc = "done" => reader # "reads"

(* Only a child that hangs or what it left with its output outlasts an ample deadline. *)
HangOrHolder == program = "hang" \/ (behind = "holder" /\ orphan = "killed")
Blamed == pc = "timed_out" /\ ample => HangOrHolder

ShellInv == ShellTypeOK /\ Flow /\ Alone /\ Captures /\ Deadline /\ Blamed

-----------------------------------------------------------------------------
(* A call that waits for nothing but its deadline waits for a child that hangs, or for *)
(* what a child left behind: whatever the pipes hold, someone else can move.           *)

LEMMA SomeoneMoves ==
  ASSUME ShellTypeOK, Flow, Alone, Deadline, pc \in {"wait", "drain"}, child = "runs", Stuck
  PROVE  program = "hang"
<1> SUFFICES ASSUME program # "hang" PROVE FALSE
  OBVIOUS
<1>1. /\ PipeCap \in Nat \ {0} /\ Lines \in Nat
      /\ taken \in Nat /\ stdin \in Nat /\ unsent \in Nat /\ written \in Nat
      /\ taken + stdin + unsent <= Lines /\ written <= Lines
      /\ program \in {"filter", "source", "sink", "rude"}
      /\ program = "filter" => written <= taken
  BY ShellAssumption DEF ShellTypeOK, Program, Flow, Alone
<1>2. ~ Reads /\ ~ Ends
  BY DEF Stuck
<1>3. ~ Writes
  <2>1. CASE reader = "reads"
    <3>1. stdout = <<>>
      BY <2>1 DEF Stuck, Reading
    <3> QED BY <3>1, <1>1 DEF Stuck
  <2> QED BY <2>1 DEF Stuck
<1>4. stdin > 0 \/ writer # "writes"
  BY <1>1 DEF Stuck
<1>5. CASE program = "rude"
  BY <1>2, <1>5 DEF Ends
<1>6. CASE program = "filter"
  <2>1. written = taken
    BY <1>1, <1>3, <1>6 DEF Writes
  <2> QED BY <1>1, <1>2, <1>4, <1>6, <2>1 DEF Reads, Ends, EndOfInput
<1>7. CASE program = "source"
  <2>1. written = Lines
    BY <1>1, <1>3, <1>7 DEF Writes
  <2> QED BY <1>1, <1>2, <1>4, <1>7, <2>1 DEF Reads, Ends, EndOfInput
<1>8. CASE program = "sink"
  <2>1. stdin = 0
    BY <1>1, <1>2, <1>8 DEF Reads
  <2>2. EndOfInput
    BY <1>1, <1>4, <2>1 DEF EndOfInput
  <2>3. written = Lines
    BY <1>1, <1>3, <1>8, <2>2 DEF Writes
  <2> QED BY <1>1, <1>2, <1>8, <2>2, <2>3 DEF Ends
<1> QED BY <1>1, <1>5, <1>6, <1>7, <1>8

LEMMA StuckBlames ==
  ASSUME ShellTypeOK, Flow, Alone, Deadline, pc \in {"wait", "drain"}, Stuck
  PROVE  program = "hang" \/ Holder
<1>1. CASE child = "runs"
  BY <1>1, SomeoneMoves
<1>2. CASE child # "runs"
  <2>1. child = "exited" /\ pc = "drain" /\ writer # "writes"
    BY <1>2 DEF ShellTypeOK, Deadline, Stuck
  <2> QED BY <1>2, <2>1 DEF Stuck, Reading, Drained
<1> QED BY <1>1, <1>2

-----------------------------------------------------------------------------
(* The invariant, action by action *)

LEMMA ShellStarts == ShellInit => ShellInv
<1> SUFFICES ASSUME ShellInit PROVE ShellInv
  OBVIOUS
<1>1. PipeCap \in Nat \ {0} /\ Lines \in Nat /\ MaxPartialOutput \in Nat
  BY ShellAssumption
<1>2. ShellTypeOK
  BY <1>1 DEF ShellInit, ShellTypeOK
<1>3. Flow /\ Alone
  BY <1>1 DEF ShellInit, Flow, Alone, Program
<1>4. Captures /\ Deadline /\ Blamed
  BY DEF ShellInit, Captures, Deadline, Blamed
<1> QED BY <1>2, <1>3, <1>4 DEF ShellInv

LEMMA TakeKeeps == ASSUME ShellInv, Take PROVE ShellInv'
<1>1. /\ child = "runs" /\ stdin > 0 /\ taken' = taken + 1 /\ stdin' = stdin - 1
      /\ UNCHANGED <<program, behind, ample, child, orphan, unsent, writer, stdout, written,
                     reader, captured, clipped, pc>>
  BY DEF Take, Reads, scene, output
<1>2. /\ taken \in Nat /\ stdin \in 0..PipeCap /\ unsent \in Nat /\ written \in Nat
      /\ PipeCap \in Nat /\ Lines \in Nat /\ taken + stdin + unsent <= Lines
  BY ShellAssumption DEF ShellInv, ShellTypeOK, Flow
<1>3. taken' \in 0..Lines /\ stdin' \in 0..PipeCap /\ Flow'
  BY <1>1, <1>2 DEF Flow
<1>4. ShellTypeOK'
  BY <1>1, <1>3 DEF ShellInv, ShellTypeOK
<1>5. Alone'
  BY <1>1, <1>2 DEF ShellInv, Alone
<1>6. Captures' /\ Deadline' /\ Blamed'
  BY <1>1 DEF ShellInv, Captures, Deadline, Blamed, HangOrHolder
<1> QED BY <1>3, <1>4, <1>5, <1>6 DEF ShellInv

LEMMA EmitKeeps == ASSUME ShellInv, Emit PROVE ShellInv'
<1>1. /\ child = "runs" /\ written < Lines
      /\ program = "filter" => written < taken
      /\ UNCHANGED <<program, behind, ample, orphan, unsent, writer, stdin, taken, reader,
                     captured, clipped, pc>>
  BY DEF Emit, Writes, scene, input, output
<1>2. /\ taken \in Nat /\ written \in Nat /\ PipeCap \in Nat /\ Lines \in Nat
      /\ captured \in Nat /\ clipped \in Nat /\ stdout \in Seq(BOOLEAN) /\ Len(stdout) \in Nat
  BY ShellAssumption DEF ShellInv, ShellTypeOK
<1>3. CASE reader = "reads"
  <2>1. PICK bad \in BOOLEAN : stdout' = Append(stdout, bad)
    BY <1>3 DEF Emit
  <2>2. /\ Len(stdout) < PipeCap /\ written' = written + 1 /\ child' = child
    BY <1>3 DEF Emit
  <2>3. /\ stdout' \in Seq(BOOLEAN) /\ Len(stdout') = Len(stdout) + 1
    BY <1>2, <2>1
  <2>4. ShellTypeOK'
    <3>1. Len(stdout') <= PipeCap /\ written' \in 0..Lines + 1
      BY <1>1, <1>2, <2>2, <2>3
    <3> QED BY <1>1, <2>2, <2>3, <3>1 DEF ShellInv, ShellTypeOK
  <2>5. Flow'
    BY <1>1 DEF ShellInv, Flow
  <2>6. Alone'
    BY <1>1, <1>2, <2>2 DEF ShellInv, Alone
  <2>7. Captures'
    <3>1. /\ captured + clipped + Len(stdout) <= written
          /\ captured + clipped + Len(stdout) = written
      BY <1>3 DEF ShellInv, Captures
    <3>2. captured + clipped + Len(stdout') = written'
      BY <1>2, <2>2, <2>3, <3>1
    <3>3. captured' = captured /\ clipped' = clipped /\ reader' = "reads"
      BY <1>1, <1>3
    <3>4. written' \in Nat
      BY <1>2, <2>2
    <3> QED BY <3>2, <3>3, <3>4 DEF Captures
  <2>8. Deadline' /\ Blamed'
    BY <1>1, <2>2 DEF ShellInv, Deadline, Blamed, HangOrHolder
  <2> QED BY <2>4, <2>5, <2>6, <2>7, <2>8 DEF ShellInv
<1>4. CASE reader # "reads"
  <2>1. child' = "exited" /\ stdout' = stdout /\ written' = written
    BY <1>4 DEF Emit
  <2>2. ShellTypeOK' /\ Flow'
    BY <1>1, <2>1 DEF ShellInv, ShellTypeOK, Flow
  <2>3. Alone' /\ Captures'
    BY <1>1, <2>1 DEF ShellInv, Alone, Captures
  <2>4. Deadline' /\ Blamed'
    BY <1>1, <2>1 DEF ShellInv, Deadline, Blamed, HangOrHolder
  <2> QED BY <2>2, <2>3, <2>4 DEF ShellInv
<1> QED BY <1>3, <1>4

LEMMA ExitKeeps == ASSUME ShellInv, Exit PROVE ShellInv'
<1>1. /\ child = "runs" /\ child' = "exited" /\ orphan' \in {"none", "runs"}
      /\ UNCHANGED <<program, behind, ample, unsent, writer, stdin, taken, stdout, written,
                     reader, captured, clipped, pc>>
  BY DEF Exit, Ends, scene, input, output
<1>2. ShellTypeOK' /\ Flow'
  BY <1>1 DEF ShellInv, ShellTypeOK, Flow
<1>3. Alone' /\ Captures'
  BY <1>1 DEF ShellInv, Alone, Captures
<1>4. Deadline' /\ Blamed'
  BY <1>1 DEF ShellInv, Deadline, Blamed, HangOrHolder
<1> QED BY <1>2, <1>3, <1>4 DEF ShellInv

LEMMA OrphanPrintKeeps == ASSUME ShellInv, OrphanPrint PROVE ShellInv'
<1>1. /\ orphan = "runs" /\ reader = "reads" /\ written <= Lines /\ Len(stdout) < PipeCap
      /\ stdout' = Append(stdout, FALSE) /\ written' = written + 1
      /\ UNCHANGED <<program, behind, ample, child, orphan, unsent, writer, stdin, taken, reader,
                     captured, clipped, pc>>
  BY DEF OrphanPrint, Holder, scene, input, output
<1>2. /\ written \in Nat /\ PipeCap \in Nat /\ Lines \in Nat /\ captured \in Nat
      /\ clipped \in Nat /\ stdout \in Seq(BOOLEAN) /\ Len(stdout) \in Nat
  BY ShellAssumption DEF ShellInv, ShellTypeOK
<1>3. stdout' \in Seq(BOOLEAN) /\ Len(stdout') = Len(stdout) + 1
  BY <1>1, <1>2
<1>4. ShellTypeOK'
  <2>1. Len(stdout') <= PipeCap /\ written' \in 0..Lines + 1
    BY <1>1, <1>2, <1>3
  <2> QED BY <1>1, <1>3, <2>1 DEF ShellInv, ShellTypeOK
<1>5. Flow' /\ Alone'
  BY <1>1 DEF ShellInv, Flow, Alone
<1>6. Captures'
  <2>1. captured + clipped + Len(stdout) = written
    BY <1>1 DEF ShellInv, Captures
  <2>2. captured + clipped + Len(stdout') = written' /\ written' \in Nat
    BY <1>1, <1>2, <1>3, <2>1
  <2>3. captured' = captured /\ clipped' = clipped /\ reader' = "reads"
    BY <1>1
  <2> QED BY <2>2, <2>3 DEF Captures
<1>7. Deadline' /\ Blamed'
  BY <1>1 DEF ShellInv, Deadline, Blamed, HangOrHolder
<1> QED BY <1>4, <1>5, <1>6, <1>7 DEF ShellInv

LEMMA OrphanExitKeeps == ASSUME ShellInv, OrphanExit PROVE ShellInv'
<1>1. /\ orphan = "runs" /\ orphan' = "exited"
      /\ UNCHANGED <<program, behind, ample, child, unsent, writer, stdin, taken, stdout, written,
                     reader, captured, clipped, pc>>
  BY DEF OrphanExit, scene, input, output
<1>2. ShellTypeOK' /\ Flow'
  BY <1>1 DEF ShellInv, ShellTypeOK, Flow
<1>3. Alone' /\ Captures'
  BY <1>1 DEF ShellInv, Alone, Captures
<1>4. Deadline' /\ Blamed'
  BY <1>1 DEF ShellInv, Deadline, Blamed, HangOrHolder
<1> QED BY <1>2, <1>3, <1>4 DEF ShellInv

LEMMA FeedKeeps == ASSUME ShellInv, Feed PROVE ShellInv'
<1>1. /\ writer = "writes" /\ writer' \in {"writes", "closed"}
      /\ UNCHANGED <<program, behind, ample, child, orphan, taken, stdout, written,
                     reader, captured, clipped, pc>>
  BY DEF Feed, scene, output
<1>2. \/ unsent > 0 /\ stdin < PipeCap /\ unsent' = unsent - 1 /\ stdin' = stdin + 1
      \/ unsent' = unsent /\ stdin' = stdin
  BY DEF Feed
<1>3. /\ taken \in Nat /\ stdin \in 0..PipeCap /\ unsent \in 0..Lines
      /\ PipeCap \in Nat /\ Lines \in Nat /\ taken + stdin + unsent <= Lines
  BY ShellAssumption DEF ShellInv, ShellTypeOK, Flow
<1>4. unsent' \in 0..Lines /\ stdin' \in 0..PipeCap
  BY <1>2, <1>3
<1>5. Flow'
  BY <1>1, <1>2, <1>3 DEF Flow
<1>6. ShellTypeOK'
  BY <1>1, <1>4 DEF ShellInv, ShellTypeOK
<1>7. Alone' /\ Captures'
  BY <1>1 DEF ShellInv, Alone, Captures
<1>8. Deadline' /\ Blamed'
  BY <1>1 DEF ShellInv, Deadline, Blamed, HangOrHolder
<1> QED BY <1>5, <1>6, <1>7, <1>8 DEF ShellInv

LEMMA ReadLineKeeps == ASSUME ShellInv, ReadLine PROVE ShellInv'
<1>1. /\ reader = "reads"
      /\ UNCHANGED <<program, behind, ample, child, orphan, unsent, writer, stdin, taken,
                     written, pc>>
  BY DEF ReadLine, Reading, scene, input
<1>2. /\ written \in 0..Lines + 1 /\ PipeCap \in Nat /\ Lines \in Nat
      /\ captured \in 0..MaxPartialOutput /\ MaxPartialOutput \in Nat
      /\ clipped \in Nat /\ stdout \in Seq(BOOLEAN) /\ Len(stdout) \in Nat
      /\ Len(stdout) <= PipeCap /\ captured + clipped + Len(stdout) = written
  BY <1>1, ShellAssumption DEF ShellInv, ShellTypeOK, Captures
<1>3. Flow'
  BY <1>1 DEF ShellInv, Flow
<1>4. ASSUME stdout # <<>>, stdout' = Tail(stdout), UNCHANGED <<captured, clipped>>,
             reader' = "stopped"
      PROVE  ShellInv'
  <2>1. stdout' \in Seq(BOOLEAN) /\ Len(stdout') = Len(stdout) - 1 /\ Len(stdout') \in Nat
    BY <1>2, <1>4
  <2>2. Len(stdout') <= PipeCap /\ captured + clipped + Len(stdout') <= written
    BY <1>2, <2>1
  <2>3. ShellTypeOK' /\ Captures'
    BY <1>1, <1>4, <2>1, <2>2 DEF ShellInv, ShellTypeOK, Captures
  <2>4. Alone' /\ Deadline' /\ Blamed'
    BY <1>1, <1>4 DEF ShellInv, Alone, Deadline, Blamed, HangOrHolder
  <2> QED BY <1>3, <2>3, <2>4 DEF ShellInv
<1>5. ASSUME stdout # <<>>, stdout' = Tail(stdout), reader' = reader,
             \/ captured < MaxPartialOutput /\ captured' = captured + 1 /\ clipped' = clipped
             \/ clipped' = clipped + 1 /\ captured' = captured
      PROVE  ShellInv'
  <2>1. stdout' \in Seq(BOOLEAN) /\ Len(stdout') = Len(stdout) - 1 /\ Len(stdout') \in Nat
    BY <1>2, <1>5
  <2>2. /\ captured \in 0..MaxPartialOutput /\ MaxPartialOutput \in Nat /\ clipped \in Nat
        /\ Len(stdout) \in Nat /\ PipeCap \in Nat
        /\ Len(stdout) <= PipeCap /\ captured + clipped + Len(stdout) = written
    BY <1>2
  <2>3. Len(stdout') <= PipeCap
    BY <2>1, <2>2
  <2>4. /\ captured' \in 0..MaxPartialOutput /\ clipped' \in 0..Lines + 1
        /\ captured' + clipped' + Len(stdout') = written
    <3>1. CASE captured < MaxPartialOutput /\ captured' = captured + 1 /\ clipped' = clipped
      <4>1. captured + 1 + clipped + Len(stdout') = written
        BY <2>1, <2>2
      <4>2. captured' \in 0..MaxPartialOutput
        BY <2>2, <3>1
      <4>3. clipped' \in 0..Lines + 1
        BY <3>1 DEF ShellInv, ShellTypeOK
      <4> QED BY <3>1, <4>1, <4>2, <4>3
    <3>2. CASE clipped' = clipped + 1 /\ captured' = captured
      <4>1. captured + (clipped + 1) + Len(stdout') = written /\ clipped + 1 <= written
        BY <2>1, <2>2
      <4>2. clipped + 1 \in 0..Lines + 1
        BY <1>2, <2>2, <4>1
      <4> QED BY <2>2, <3>2, <4>1, <4>2
    <3> QED BY <1>5, <3>1, <3>2
  <2>5. ShellTypeOK'
    BY <1>1, <1>5, <2>1, <2>3, <2>4 DEF ShellInv, ShellTypeOK
  <2>6. Captures'
    BY <1>1, <1>2, <1>5, <2>4 DEF Captures
  <2>7. Alone' /\ Deadline' /\ Blamed'
    BY <1>1, <1>5 DEF ShellInv, Alone, Deadline, Blamed, HangOrHolder
  <2> QED BY <1>3, <2>5, <2>6, <2>7 DEF ShellInv
<1>6. ASSUME stdout = <<>>, child # "runs", reader' = "ended",
             UNCHANGED <<stdout, captured, clipped>>
      PROVE  ShellInv'
  <2>1. ShellTypeOK' /\ Captures'
    BY <1>1, <1>6 DEF ShellInv, ShellTypeOK, Captures
  <2>2. Alone' /\ Deadline' /\ Blamed'
    BY <1>1, <1>6 DEF ShellInv, Alone, Deadline, Blamed, HangOrHolder
  <2> QED BY <1>3, <2>1, <2>2 DEF ShellInv
<1> QED BY <1>4, <1>5, <1>6 DEF ReadLine

LEMMA CallKeeps == ASSUME ShellInv, Waited \/ Return PROVE ShellInv'
<1>1. UNCHANGED <<program, behind, ample, child, orphan, unsent, writer, stdin, taken, stdout,
                 written, reader, captured, clipped>>
  BY DEF Waited, Return, scene, input, output
<1>2. \/ pc = "wait" /\ child = "exited" /\ pc' = "drain"
      \/ pc = "drain" /\ reader # "reads" /\ pc' = "done"
  BY DEF Waited, Return, Drained
<1>3. ShellTypeOK' /\ Flow'
  BY <1>1, <1>2 DEF ShellInv, ShellTypeOK, Flow
<1>4. Alone' /\ Captures'
  BY <1>1 DEF ShellInv, Alone, Captures
<1>5. Deadline' /\ Blamed'
  BY <1>1, <1>2 DEF ShellInv, Deadline, Blamed
<1> QED BY <1>3, <1>4, <1>5 DEF ShellInv

LEMMA TimeoutKeeps == ASSUME ShellInv, Timeout PROVE ShellInv'
<1>1. /\ pc \in {"wait", "drain"}
      /\ ample => Stuck
      /\ pc' = "timed_out"
      /\ UNCHANGED <<program, behind, ample, unsent, stdin, taken, stdout, written, captured,
                     clipped>>
      /\ child' = IF child = "runs" THEN "killed" ELSE child
      /\ orphan' = IF orphan = "runs" THEN "killed" ELSE orphan
      /\ reader' = IF reader = "reads" THEN "aborted" ELSE reader
      /\ writer' = IF writer = "writes" THEN "aborted" ELSE writer
  BY DEF Timeout, KillGroup, scene
<1>2. ShellTypeOK' /\ Flow'
  BY <1>1 DEF ShellInv, ShellTypeOK, Flow
<1>3. Alone' /\ Captures'
  BY <1>1 DEF ShellInv, Alone, Captures
<1>4. Deadline'
  BY <1>1 DEF Deadline
<1>5. Blamed'
  <2>1. ample => program = "hang" \/ Holder
    BY <1>1, StuckBlames DEF ShellInv
  <2> QED BY <1>1, <2>1 DEF Blamed, HangOrHolder, Holder
<1> QED BY <1>2, <1>3, <1>4, <1>5 DEF ShellInv

LEMMA ShellKeeps == ASSUME ShellInv, [ShellNext]_shellVars PROVE ShellInv'
<1>1. CASE UNCHANGED shellVars
  <2>1. UNCHANGED <<program, behind, ample, child, orphan, unsent, writer, stdin, taken, stdout,
                   written, reader, captured, clipped, pc>>
    BY <1>1 DEF shellVars
  <2>2. ShellTypeOK' /\ Flow' /\ Alone'
    BY <2>1 DEF ShellInv, ShellTypeOK, Flow, Alone
  <2>3. Captures' /\ Deadline' /\ Blamed'
    BY <2>1 DEF ShellInv, Captures, Deadline, Blamed, HangOrHolder
  <2> QED BY <2>2, <2>3 DEF ShellInv
<1> QED BY <1>1, TakeKeeps, EmitKeeps, ExitKeeps, OrphanPrintKeeps, OrphanExitKeeps, FeedKeeps,
           ReadLineKeeps, CallKeeps, TimeoutKeeps DEF ShellNext

LEMMA ShellInvariance == ShellSpec => []ShellInv
BY ShellStarts, ShellKeeps, PTL DEF ShellSpec

-----------------------------------------------------------------------------
(* The types of Shell: pipes hold no more than they can, and nobody reads or writes more *)
(* lines than there are.                                                                *)
THEOREM ShellTypeCorrect == ShellSpec => []ShellTypeOK
BY ShellInvariance, PTL DEF ShellInv

(* With time enough a command times out only if its child hangs or left a process behind *)
(* that holds its output, for any pipes and any amount of input and output: the writer,  *)
(* the reader and the wait (shell.rs) never wait for each other.                         *)
THEOREM NoPipeDeadlockHolds == ShellSpec => []NoPipeDeadlock
<1>1. ShellInv => NoPipeDeadlock
  BY DEF ShellInv, Blamed, HangOrHolder, NoPipeDeadlock
<1> QED BY <1>1, ShellInvariance, PTL

(* A call that returns without a timeout has every line that was written, but those after *)
(* one that is not UTF-8 and those beyond the buffer: it waits for the readers.           *)
THEOREM WholeOutputHolds == ShellSpec => []WholeOutput
<1>1. ShellInv => WholeOutput
  <2> SUFFICES ASSUME ShellInv, pc = "done", reader # "stopped"
               PROVE  captured + clipped = written /\ stdout = <<>>
    BY DEF WholeOutput
  <2>1. reader = "ended"
    BY DEF ShellInv, ShellTypeOK, Deadline
  <2>2. /\ stdout = <<>> /\ captured + clipped + Len(stdout) = written
        /\ captured \in Nat /\ clipped \in Nat
    BY <2>1, ShellAssumption DEF ShellInv, Captures, ShellTypeOK
  <2> QED BY <2>2
<1> QED BY <1>1, ShellInvariance, PTL

(* A timeout leaves no process of the command behind: the whole group is killed. *)
THEOREM NoneLeftHolds == ShellSpec => []NoneLeft
<1>1. ShellInv => NoneLeft
  BY DEF ShellInv, Deadline, NoneLeft
<1> QED BY <1>1, ShellInvariance, PTL

(***************************************************************************)
(* SessionIndex, for any sessions, providers and threads                     *)
(***************************************************************************)

Searcher ==
  [pc: {"idle", "drop", "scan", "keep", "collect", "apply", "clear"},
   list: List \cup {None}, fetched: List \cup {None}, failed: SUBSET Chat, all: BOOLEAN]

IndexTyped == IndexTypeOK /\ search \in [Search -> Searcher]

(* A list shows no more of a session than there is, and of those it shows what was *)
(* announced.                                                                     *)
Shows(l) ==
  \A s \in Chat : l[s] <= hist[s] /\ (s \notin Dated /\ l[s] # 0 => l[s] >= told[s])

(* Every list was read since the last announcement that nothing overlapped. *)
Lists ==
  /\ \A s \in Chat : told[s] <= hist[s]
  /\ cache # None => Shows(cache)
  /\ panel # None => Shows(panel)

(* The fingerprint is that of a transcript as old as the announcement, or younger. *)
UpTo(s) == manifest[s] # 0 /\ (s \notin Dated => manifest[s] >= told[s])
CaughtUp == \A s \in Chat \ (broken \cup unlisted) : told[s] # 0 => UpTo(s)

(* A thread with the record r has a list of that kind; what it takes to the writer was *)
(* fetched after it was listed, and if it tried all, nothing announced was left out;    *)
(* and so when it is about to clear the flag.                                           *)
HasList(r) == r.pc \in {"keep", "collect", "apply"} => r.list \in List /\ Shows(r.list)
Complete(r) ==
  \A s \in Chat :
    r.list[s] # 0 /\ told[s] # 0 /\ r.fetched[s] = 0 /\ s \notin r.failed => UpTo(s)
HasFetched(r) ==
  r.pc = "apply" =>
    /\ r.fetched \in List
    /\ \A s \in Chat : r.fetched[s] # 0 => r.list[s] # 0 /\ r.list[s] <= r.fetched[s]
    /\ \A s \in r.failed : r.list[s] # 0
    /\ r.all => Complete(r)
MayClear(r) == r.pc = "clear" /\ r.all => CaughtUp
Proper(r) == HasList(r) /\ HasFetched(r) /\ MayClear(r)

IndexInv ==
  /\ IndexTyped /\ Lists /\ RecordedIsIndexed
  /\ ~ stale => CaughtUp
  /\ \A t \in Search : Proper(search[t])

-----------------------------------------------------------------------------
(* Lists *)

LEMMA IndexNumbers ==
  /\ MaxVersion \in Nat \ {0} /\ Extent \subseteq Nat /\ 0 \in Extent
  /\ None \notin List /\ \A l \in List, s \in Chat : l[s] \in Nat
BY IndexAssumption DEF Extent, List

LEMMA ScansShow ==
  ASSUME IndexInv, NEW l, NEW within \in SUBSET Chat, l \in Scans(within)
  PROVE  l \in List /\ Shows(l)
<1>1. ASSUME NEW s \in Chat
      PROVE  /\ Updated(s) \in Extent /\ Updated(s) <= hist[s]
             /\ s \notin Dated => Updated(s) >= told[s]
  <2>1. hist[s] \in Extent /\ hist[s] \in Nat /\ told[s] \in Nat /\ told[s] <= hist[s]
    BY IndexNumbers DEF IndexInv, IndexTyped, IndexTypeOK, List, Lists
  <2>2. 1 \in Extent
    BY IndexNumbers DEF Extent
  <2> QED BY <2>1, <2>2 DEF Updated
<1>2. PICK g \in GrownListed(within), e \in ExportsListed(within),
           r \in RowsListed(within), d \in DatedListed(within) :
        l = [s \in Chat |-> IF s \in g \cup e \cup r \cup d THEN Updated(s) ELSE 0]
  BY DEF Scans
<1>3. l \in List
  BY <1>1, <1>2, IndexNumbers DEF List
<1>4. \A s \in Chat : hist[s] \in Nat
  BY IndexNumbers DEF IndexInv, IndexTyped, IndexTypeOK
<1>5. ASSUME NEW s \in Chat
      PROVE  l[s] <= hist[s] /\ (s \notin Dated /\ l[s] # 0 => l[s] >= told[s])
  BY <1>1, <1>2, <1>4
<1> QED BY <1>3, <1>5 DEF Shows

(* What is so of a list stays so while nothing is announced. *)
LEMMA ShowsStays ==
  ASSUME IndexTyped, hist' \in List, told' = told, \A s \in Chat : hist[s] <= hist'[s],
         NEW l \in List, Shows(l)
  PROVE  Shows(l)'
<1> SUFFICES ASSUME NEW s \in Chat
             PROVE  l[s] <= hist'[s] /\ (s \notin Dated /\ l[s] # 0 => l[s] >= told'[s])
  BY DEF Shows
<1>1. l[s] \in Nat /\ hist[s] \in Nat /\ hist'[s] \in Nat
  BY IndexNumbers DEF IndexTyped, IndexTypeOK
<1>2. l[s] <= hist[s] /\ (s \notin Dated /\ l[s] # 0 => l[s] >= told[s])
  BY DEF Shows
<1> QED BY <1>1, <1>2

(* So is what is so of a thread, if whatever was indexed up to the announcement still is. *)
LEMMA ProperStays ==
  ASSUME IndexTyped, hist' \in List, told' = told, \A s \in Chat : hist[s] <= hist'[s],
         \A s \in Chat : UpTo(s) => UpTo(s)', CaughtUp => CaughtUp',
         NEW r \in Searcher, Proper(r)
  PROVE  Proper(r)'
<1>1. HasList(r)'
  BY ShowsStays DEF Proper, HasList
<1>2. HasFetched(r)'
  BY DEF Proper, HasFetched, Complete
<1>3. MayClear(r)'
  BY DEF Proper, MayClear
<1> QED BY <1>1, <1>2, <1>3 DEF Proper

(* A step of one thread that leaves the index and the announcement as they are. *)
LEMMA ThreadMoves ==
  ASSUME IndexInv, UNCHANGED <<hist, told, manifest, docs, unlisted, broken>>,
         NEW t \in Search, NEW r \in Searcher, search' = [search EXCEPT ![t] = r], Proper(r)
  PROVE  /\ RecordedIsIndexed' /\ (CaughtUp => CaughtUp')
         /\ search' \in [Search -> Searcher] /\ \A u \in Search : Proper(search[u])'
<1>1. /\ IndexTyped /\ hist' \in List /\ \A s \in Chat : hist[s] <= hist'[s]
      /\ \A s \in Chat : UpTo(s)' <=> UpTo(s)
  <2>1. \A s \in Chat : hist[s] \in Nat
    BY IndexNumbers DEF IndexInv, IndexTyped, IndexTypeOK
  <2> QED BY <2>1 DEF IndexInv, IndexTyped, IndexTypeOK, UpTo
<1>2. CaughtUp => CaughtUp'
  BY <1>1 DEF CaughtUp
<1>3. RecordedIsIndexed'
  BY DEF IndexInv, RecordedIsIndexed
<1>4. search' \in [Search -> Searcher]
  BY <1>1 DEF IndexTyped
<1>5. ASSUME NEW u \in Search PROVE Proper(search[u])'
  <2>1. PICK q \in Searcher : q = search'[u] /\ Proper(q)
    BY <1>1 DEF IndexInv, IndexTyped
  <2>2. Proper(q)'
    BY <1>1, <1>2, <2>1, ProperStays
  <2> QED BY <2>1, <2>2 DEF Proper, HasList, HasFetched, MayClear, Complete, Shows
<1> QED BY <1>2, <1>3, <1>4, <1>5

-----------------------------------------------------------------------------
(* The invariant, action by action *)

(* What a type-correct next state is, for actions that touch one part of it. *)
LEMMA TypedNext ==
  ASSUME hist' \in List, manifest' \in List, docs' \in List, told' \in List,
         cache' \in List \cup {None}, panel' \in List \cup {None}, stale' \in BOOLEAN,
         unlisted' \subseteq Chat, broken' \subseteq Chat, search' \in [Search -> Searcher]
  PROVE  IndexTyped'
<1>1. \A t \in Search : search'[t] \in Searcher
  OBVIOUS
<1> QED BY <1>1 DEF IndexTyped, IndexTypeOK, Searcher

LEMMA TypedNow ==
  ASSUME IndexInv
  PROVE  /\ hist \in List /\ manifest \in List /\ docs \in List /\ told \in List
         /\ cache \in List \cup {None} /\ panel \in List \cup {None} /\ stale \in BOOLEAN
         /\ unlisted \subseteq Chat /\ broken \subseteq Chat /\ search \in [Search -> Searcher]
         /\ IndexTyped
BY DEF IndexInv, IndexTyped, IndexTypeOK

LEMMA AtRestProper == AtRest \in Searcher /\ Proper(AtRest) /\ Proper(AtRest)'
BY DEF AtRest, Searcher, Proper, HasList, HasFetched, MayClear

LEMMA IndexStarts == IndexInit => IndexInv
<1> SUFFICES ASSUME IndexInit PROVE IndexInv
  OBVIOUS
<1>1. [s \in Chat |-> 0] \in List
  BY IndexNumbers DEF List
<1>2. search \in [Search -> Searcher] /\ \A t \in Search : search[t] = AtRest
  BY AtRestProper DEF IndexInit
<1>3. IndexTyped
  BY <1>1, <1>2 DEF IndexInit, IndexTyped, IndexTypeOK, Searcher
<1>4. Lists /\ RecordedIsIndexed /\ stale
  BY DEF IndexInit, Lists, RecordedIsIndexed
<1> QED BY <1>2, <1>3, <1>4, AtRestProper DEF IndexInv

LEMMA ExtendKeeps == ASSUME IndexInv, NEW s \in Chat, Extend(s) PROVE IndexInv'
<1>1. /\ hist[s] < MaxVersion /\ hist' = [hist EXCEPT ![s] = hist[s] + 1]
      /\ UNCHANGED <<cache, panel, stale, manifest, docs, search, told, unlisted, broken>>
  BY DEF Extend, store
<1>2. hist' \in List /\ \A c \in Chat : hist[c] <= hist'[c] /\ hist[c] \in Nat /\ hist'[c] \in Nat
  <2>1. hist \in List /\ \A c \in Chat : hist[c] \in Nat
    BY TypedNow, IndexNumbers
  <2>2. hist[s] + 1 \in Extent
    BY <1>1, <2>1, IndexNumbers DEF Extent
  <2>3. hist' \in List
    BY <1>1, <2>1, <2>2 DEF List
  <2> QED BY <1>1, <2>1, <2>3, IndexNumbers DEF List
<1>3. IndexTyped'
  BY <1>1, <1>2, TypedNow, TypedNext
<1>4. (CaughtUp <=> CaughtUp') /\ \A c \in Chat : UpTo(c) <=> UpTo(c)'
  BY <1>1 DEF CaughtUp, UpTo
<1>5. Lists'
  <2>1. \A c \in Chat : told[c] <= hist'[c]
    BY <1>1, <1>2, TypedNow, IndexNumbers DEF IndexInv, Lists
  <2>2. (cache # None => Shows(cache)') /\ (panel # None => Shows(panel)')
    <3>1. ASSUME NEW l \in List, Shows(l) PROVE Shows(l)'
      BY <1>1, <1>2, <3>1, TypedNow, ShowsStays
    <3>2. ASSUME cache # None PROVE Shows(cache)'
      <4>1. PICK l \in List : l = cache /\ Shows(l)
        BY <3>2, TypedNow DEF IndexInv, Lists
      <4> QED BY <1>1, <3>1, <4>1 DEF Shows
    <3>3. ASSUME panel # None PROVE Shows(panel)'
      <4>1. PICK l \in List : l = panel /\ Shows(l)
        BY <3>3, TypedNow DEF IndexInv, Lists
      <4> QED BY <1>1, <3>1, <4>1 DEF Shows
    <3> QED BY <3>2, <3>3
  <2> QED BY <1>1, <2>1, <2>2 DEF Lists
<1>6. ASSUME NEW t \in Search PROVE Proper(search[t])'
  <2>1. PICK r \in Searcher : r = search[t] /\ Proper(r)
    BY TypedNow DEF IndexInv
  <2>2. Proper(r)'
    BY <1>1, <1>2, <1>4, <2>1, TypedNow, ProperStays
  <2> QED BY <1>1, <2>1, <2>2 DEF Proper, HasList, HasFetched, MayClear, Complete, Shows
<1>7. RecordedIsIndexed' /\ (~ stale' => CaughtUp')
  BY <1>1, <1>4 DEF IndexInv, RecordedIsIndexed
<1> QED BY <1>3, <1>5, <1>6, <1>7 DEF IndexInv

(* An announcement while nothing is under way leaves no list and no thread to speak of. *)
LEMMA TaskEndedKeeps == ASSUME IndexInv, TaskEnded PROVE IndexInv'
<1>1. /\ cache' = None /\ stale' = TRUE
      /\ UNCHANGED <<hist, panel, manifest, docs, search, unlisted, broken>>
  BY DEF TaskEnded, MarkStale, store
<1>2. RecordedIsIndexed'
  BY <1>1 DEF IndexInv, RecordedIsIndexed
<1>3. CASE panel = None /\ (\A t \in Search : search[t].pc = "idle") /\ told' = hist
  <2>1. IndexTyped'
    BY <1>1, <1>3, TypedNow, TypedNext
  <2>2. Lists'
    <3>1. \A s \in Chat : hist[s] <= hist[s]
      BY TypedNow, IndexNumbers
    <3> QED BY <1>1, <1>3, <3>1 DEF Lists
  <2>3. \A t \in Search : Proper(search[t])'
    BY <1>1, <1>3 DEF Proper, HasList, HasFetched, MayClear
  <2> QED BY <1>1, <1>2, <2>1, <2>2, <2>3 DEF IndexInv
<1>4. CASE told' = told
  <2>1. IndexTyped'
    BY <1>1, <1>4, TypedNow, TypedNext
  <2>2. Lists'
    BY <1>1, <1>4 DEF IndexInv, Lists, Shows
  <2>3. \A t \in Search : Proper(search[t])'
    BY <1>1, <1>4 DEF IndexInv, Proper, HasList, HasFetched, MayClear, Complete, Shows, CaughtUp, UpTo
  <2> QED BY <1>1, <1>2, <2>1, <2>2, <2>3 DEF IndexInv
<1> QED BY <1>3, <1>4 DEF TaskEnded

(* What is done to the cached list and the panel's. *)
LEMMA ListsKeep == ASSUME IndexInv, Expire \/ PanelScan \/ PanelStore PROVE IndexInv'
<1>1. UNCHANGED <<hist, stale, manifest, docs, search, told, unlisted, broken>>
  BY DEF Expire, PanelScan, PanelStore, store
<1>2. /\ cache' \in List \cup {None} /\ panel' \in List \cup {None}
      /\ cache' # None => Shows(cache')
      /\ panel' # None => Shows(panel')
  <2>1. CASE Expire
    BY <2>1, TypedNow DEF Expire, IndexInv, Lists
  <2>2. CASE PanelScan
    BY <2>2, TypedNow, ScansShow DEF PanelScan, IndexInv, Lists
  <2>3. CASE PanelStore
    BY <2>3, TypedNow DEF PanelStore, IndexInv, Lists
  <2> QED BY <2>1, <2>2, <2>3
<1>3. IndexTyped'
  BY <1>1, <1>2, TypedNow, TypedNext
<1>4. Lists'
  BY <1>1, <1>2 DEF IndexInv, Lists, Shows
<1>5. RecordedIsIndexed' /\ (~ stale' => CaughtUp')
  BY <1>1 DEF IndexInv, RecordedIsIndexed, CaughtUp, UpTo
<1>6. \A t \in Search : Proper(search[t])'
  BY <1>1 DEF IndexInv, Proper, HasList, HasFetched, MayClear, Complete, Shows, CaughtUp, UpTo
<1> QED BY <1>3, <1>4, <1>5, <1>6 DEF IndexInv

(* A step of one thread before it writes, or after. *)
LEMMA StepKeeps ==
  ASSUME IndexInv, UNCHANGED <<hist, panel, manifest, docs, told, unlisted, broken>>,
         NEW t \in Search, NEW r \in Searcher, search' = [search EXCEPT ![t] = r], Proper(r),
         cache' \in List \cup {None}, cache' # None => Shows(cache'),
         stale' \in BOOLEAN, ~ stale' => CaughtUp
  PROVE  IndexInv'
<1>1. /\ RecordedIsIndexed' /\ (CaughtUp => CaughtUp')
      /\ search' \in [Search -> Searcher] /\ \A u \in Search : Proper(search[u])'
  BY ThreadMoves
<1>2. IndexTyped'
  BY <1>1, TypedNow, TypedNext
<1>3. Lists'
  BY DEF IndexInv, Lists, Shows
<1> QED BY <1>1, <1>2, <1>3 DEF IndexInv

LEMMA ThreadTyped ==
  ASSUME IndexInv, NEW t \in Search
  PROVE  /\ search[t] \in Searcher /\ Proper(search[t])
         /\ cache \in List \cup {None} /\ (cache # None => Shows(cache))
         /\ stale \in BOOLEAN /\ (~ stale => CaughtUp)
BY TypedNow DEF IndexInv, Lists

LEMMA RefreshKeeps ==
  ASSUME IndexInv, NEW t \in Search, BeginRefresh(t) \/ Drop(t) \/ Keep(t) \/ Clear(t)
  PROVE  IndexInv'
<1>1. CASE BeginRefresh(t)
  <2> DEFINE r == [AtRest EXCEPT !.pc = "drop"]
  <2>1. /\ search' = [search EXCEPT ![t] = r] /\ cache' = cache /\ stale' = stale
        /\ UNCHANGED <<hist, panel, manifest, docs, told, unlisted, broken>>
    BY <1>1 DEF BeginRefresh, Advance, store
  <2>2. r \in Searcher /\ Proper(r)
    BY AtRestProper DEF AtRest, Searcher, Proper, HasList, HasFetched, MayClear
  <2> HIDE DEF r
  <2> QED BY <2>1, <2>2, ThreadTyped, StepKeeps DEF Shows
<1>2. CASE Drop(t)
  <2> DEFINE r == [search[t] EXCEPT !.pc = "scan"]
  <2>1. /\ search' = [search EXCEPT ![t] = r] /\ cache' = None /\ stale' = TRUE
        /\ UNCHANGED <<hist, panel, manifest, docs, told, unlisted, broken>>
    BY <1>2 DEF Drop, Advance, store
  <2>2. r \in Searcher /\ r.pc = "scan"
    BY ThreadTyped DEF Searcher
  <2>3. Proper(r)
    BY <2>2 DEF Proper, HasList, HasFetched, MayClear
  <2> HIDE DEF r
  <2> QED BY <2>1, <2>2, <2>3, StepKeeps
<1>3. CASE Keep(t)
  <2> DEFINE r == [search[t] EXCEPT !.pc = "collect"]
  <2>1. /\ search[t].pc = "keep" /\ cache' = search[t].list /\ stale' = stale
        /\ search' = [search EXCEPT ![t] = r]
        /\ UNCHANGED <<hist, panel, manifest, docs, told, unlisted, broken>>
    BY <1>3 DEF Keep, Advance, store
  <2>2. r \in Searcher /\ r.pc = "collect" /\ r.list = search[t].list
    BY ThreadTyped DEF Searcher
  <2>3. search[t].list \in List /\ Shows(search[t].list)
    BY <2>1, ThreadTyped DEF Proper, HasList
  <2>4. Proper(r)
    BY <2>2, <2>3 DEF Proper, HasList, HasFetched, MayClear
  <2>5. cache' \in List /\ Shows(cache')
    BY <2>1, <2>3
  <2> HIDE DEF r
  <2> QED BY <2>1, <2>2, <2>4, <2>5, ThreadTyped, StepKeeps
<1>4. CASE Clear(t)
  <2>1. /\ search[t].pc = "clear" /\ stale' = (stale /\ ~ search[t].all)
        /\ search' = [search EXCEPT ![t] = AtRest] /\ cache' = cache
        /\ UNCHANGED <<hist, panel, manifest, docs, told, unlisted, broken>>
    BY <1>4 DEF Clear, StillStale, Advance, store
  <2>2. search[t].all \in BOOLEAN
    BY ThreadTyped DEF Searcher
  <2>3. stale' \in BOOLEAN /\ (~ stale' => ~ stale \/ search[t].all)
    BY <2>1, <2>2, ThreadTyped
  <2>4. ~ stale' => CaughtUp
    BY <2>1, <2>3, ThreadTyped DEF Proper, MayClear
  <2> QED BY <2>1, <2>3, <2>4, ThreadTyped, AtRestProper, StepKeeps DEF Shows
<1> QED BY <1>1, <1>2, <1>3, <1>4

LEMMA ScanKeeps == ASSUME IndexInv, NEW t \in Search, Scan(t) PROVE IndexInv'
<1>1. /\ cache' = cache /\ stale' = stale
      /\ UNCHANGED <<hist, panel, manifest, docs, told, unlisted, broken>>
  BY DEF Scan, store
<1>2. PICK l \in List, p \in {"keep", "collect"} :
        Shows(l) /\ search' = [search EXCEPT ![t] = [search[t] EXCEPT !.pc = p, !.list = l]]
  <2>1. CASE cache # None
    <3>1. search' = [search EXCEPT ![t] = [search[t] EXCEPT !.pc = "collect", !.list = cache]]
      BY <2>1 DEF Scan, Advance
    <3> QED BY <2>1, <3>1, ThreadTyped
  <2>2. CASE cache = None
    <3>1. PICK l \in Scans(Chat) :
            search' = [search EXCEPT ![t] = [search[t] EXCEPT !.pc = "keep", !.list = l]]
      BY <2>2 DEF Scan, Advance
    <3>2. l \in List /\ Shows(l)
      BY ScansShow
    <3> QED BY <3>1, <3>2
  <2> QED BY <2>1, <2>2
<1> DEFINE r == [search[t] EXCEPT !.pc = p, !.list = l]
<1>3. r \in Searcher /\ r.pc \in {"keep", "collect"} /\ r.list = l
  BY ThreadTyped DEF Searcher
<1>4. Proper(r)
  BY <1>2, <1>3 DEF Proper, HasList, HasFetched, MayClear
<1>5. search' = [search EXCEPT ![t] = r]
  BY <1>2
<1> HIDE DEF r
<1> QED BY <1>1, <1>3, <1>4, <1>5, ThreadTyped, StepKeeps DEF Shows

LEMMA CollectKeeps == ASSUME IndexInv, NEW t \in Search, Collect(t) PROVE IndexInv'
<1>1. /\ search[t].pc = "collect" /\ cache' = cache /\ stale' = stale
      /\ UNCHANGED <<hist, panel, manifest, docs, told, unlisted, broken>>
  BY DEF Collect, store
<1>2. PICK tried \in SUBSET Changed(t) : \E failed \in SUBSET tried :
        search' = [search EXCEPT ![t] = [search[t] EXCEPT
          !.pc = "apply", !.failed = failed, !.all = (tried = Changed(t)),
          !.fetched = [s \in Chat |-> IF s \in tried \ failed THEN hist[s] ELSE 0]]]
  BY DEF Collect, Advance
<1>3. PICK failed \in SUBSET tried :
        search' = [search EXCEPT ![t] = [search[t] EXCEPT
          !.pc = "apply", !.failed = failed, !.all = (tried = Changed(t)),
          !.fetched = [s \in Chat |-> IF s \in tried \ failed THEN hist[s] ELSE 0]]]
  BY <1>2
<1> DEFINE f == [s \in Chat |-> IF s \in tried \ failed THEN hist[s] ELSE 0]
           every == (tried = Changed(t))
           r == [search[t] EXCEPT !.pc = "apply", !.failed = failed, !.all = every, !.fetched = f]
<1>4. search[t].list \in List /\ Shows(search[t].list)
  BY <1>1, ThreadTyped DEF Proper, HasList
<1>5. hist \in List /\ f \in List /\ failed \subseteq Chat /\ every \in BOOLEAN
  <2>1. hist \in List /\ \A s \in Chat : hist[s] \in Extent
    BY TypedNow DEF List
  <2> QED BY <2>1, IndexNumbers DEF List, Changed, InList
<1>6. /\ r \in Searcher /\ r.pc = "apply" /\ r.list = search[t].list /\ r.fetched = f
      /\ r.failed = failed /\ r.all = every
  <2> HIDE DEF f, every
  <2> QED BY <1>5, ThreadTyped DEF Searcher
<1>7. HasList(r) /\ MayClear(r)
  BY <1>4, <1>6 DEF HasList, MayClear
<1>8. HasFetched(r)
  <2> DEFINE L == search[t].list
  <2>1. \A s \in tried : s \in Chat /\ L[s] # 0
    BY DEF Changed, InList
  <2>2. \A s \in Chat : L[s] \in Nat /\ hist[s] \in Nat /\ L[s] <= hist[s]
    BY <1>4, <1>5, IndexNumbers DEF Shows
  <2>3. \A s \in Chat : f[s] # 0 => L[s] # 0 /\ L[s] <= f[s]
    BY <2>1, <2>2
  <2>4. every => \A s \in Chat : L[s] # 0 /\ told[s] # 0 /\ f[s] = 0 /\ s \notin failed => UpTo(s)
    <3> SUFFICES ASSUME every, NEW s \in Chat, L[s] # 0, told[s] # 0, f[s] = 0, s \notin failed
                 PROVE  UpTo(s)
      OBVIOUS
    <3>1. s \notin tried
      BY <2>2
    <3>2. L[s] = manifest[s]
      BY <3>1 DEF Changed, InList
    <3> QED BY <1>4, <3>2 DEF UpTo, Shows
  <2>5. \A s \in failed : L[s] # 0
    BY <2>1
  <2> HIDE DEF r, f, every, L
  <2>6. r.list = L
    BY <1>6 DEF L
  <2> QED BY <1>5, <1>6, <2>3, <2>4, <2>5, <2>6 DEF HasFetched, Complete
<1>9. search' = [search EXCEPT ![t] = r]
  BY <1>3
<1> HIDE DEF r
<1> QED BY <1>1, <1>6, <1>7, <1>8, <1>9, ThreadTyped, StepKeeps DEF Shows, Proper

LEMMA ApplyKeeps == ASSUME IndexInv, NEW t \in Search, Apply(t) PROVE IndexInv'
<1> DEFINE L == search[t].list
           f == search[t].fetched
           failed == search[t].failed
           every == search[t].all
           r == [AtRest EXCEPT !.pc = "clear", !.all = every]
<1>1. /\ search[t].pc = "apply" /\ docs' = Reindex(t) /\ manifest' = Record(t)
      /\ unlisted' = (unlisted \ Fetched(t))
                   \cup {s \in Chat \ InList(t) : manifest[s] # 0 \/ told[s] # 0}
      /\ broken' = (broken \ Fetched(t)) \cup failed
      /\ search' = [search EXCEPT ![t] = r]
      /\ UNCHANGED <<hist, cache, panel, stale, told>>
  BY DEF Apply, Advance
<1>2. search[t] \in Searcher /\ every \in BOOLEAN /\ failed \subseteq Chat
  BY ThreadTyped DEF Searcher
<1>3. /\ L \in List /\ Shows(L) /\ f \in List
      /\ \A s \in Chat : f[s] # 0 => L[s] # 0 /\ L[s] <= f[s]
      /\ \A s \in failed : L[s] # 0
      /\ every => Complete(search[t])
  BY <1>1, ThreadTyped DEF Proper, HasList, HasFetched
<1>4. \A s \in Chat : /\ L[s] \in Nat /\ f[s] \in Nat /\ manifest[s] \in Nat
                      /\ docs[s] \in Nat /\ told[s] \in Nat
  BY <1>3, TypedNow, IndexNumbers
<1>5. ASSUME NEW s \in Chat
      PROVE  /\ s \in Fetched(t) <=> f[s] # 0
             /\ s \in InList(t) <=> L[s] # 0
             /\ manifest'[s] = IF f[s] # 0 \/ s \in failed THEN L[s] ELSE manifest[s]
             /\ docs'[s] = IF f[s] # 0 THEN f[s]
                          ELSE IF L[s] = 0 /\ manifest[s] # 0 THEN 0 ELSE docs[s]
  <2>1. (s \in Fetched(t) <=> f[s] # 0) /\ (s \in InList(t) <=> L[s] # 0)
    BY DEF Fetched, InList
  <2>2. manifest'[s] = IF f[s] # 0 \/ s \in failed THEN L[s] ELSE manifest[s]
    BY <1>1, <2>1 DEF Record
  <2>3. docs'[s] = IF f[s] # 0 THEN f[s] ELSE IF L[s] = 0 /\ manifest[s] # 0 THEN 0 ELSE docs[s]
    BY <1>1, <2>1 DEF Reindex
  <2> QED BY <2>1, <2>2, <2>3
<1>6. ASSUME NEW s \in Chat
      PROVE  /\ s \in unlisted' <=> \/ s \in unlisted /\ f[s] = 0
                                    \/ L[s] = 0 /\ (manifest[s] # 0 \/ told[s] # 0)
             /\ s \in broken' <=> \/ s \in broken /\ f[s] = 0
                                  \/ s \in failed
  BY <1>1, <1>5
<1>7. IndexTyped'
  <2>1. \A s \in Chat : L[s] \in Extent /\ f[s] \in Extent /\ manifest[s] \in Extent
                       /\ docs[s] \in Extent /\ 0 \in Extent
    BY <1>3, TypedNow, IndexNumbers DEF List
  <2>2. manifest' \in List
    BY <1>1, <2>1 DEF Record, List
  <2>3. docs' \in List
    BY <1>1, <2>1 DEF Reindex, List
  <2>4. r \in Searcher
    BY <1>2, AtRestProper DEF AtRest, Searcher
  <2>5. search' \in [Search -> Searcher]
    <3> HIDE DEF r
    <3> QED BY <1>1, <2>4, TypedNow
  <2>6. unlisted' \subseteq Chat /\ broken' \subseteq Chat
    BY <1>1, <1>2, TypedNow
  <2> HIDE DEF r, f, L, every, failed
  <2> QED BY <1>1, <2>2, <2>3, <2>5, <2>6, TypedNow, TypedNext
<1>8. Lists'
  BY <1>1 DEF IndexInv, Lists, Shows
<1>9. RecordedIsIndexed'
  <2> SUFFICES ASSUME NEW s \in Chat, s \notin broken', s \notin unlisted'
               PROVE  docs'[s] >= manifest'[s]
    BY DEF RecordedIsIndexed
  <2>1. CASE f[s] # 0
    BY <1>3, <1>4, <1>5, <2>1
  <2>2. CASE f[s] = 0
    <3>1. s \notin broken /\ s \notin unlisted /\ s \notin failed
      BY <1>6, <2>2
    <3>2. docs[s] >= manifest[s]
      BY <3>1 DEF IndexInv, RecordedIsIndexed
    <3>3. ~ (L[s] = 0 /\ manifest[s] # 0)
      BY <1>6
    <3> QED BY <1>5, <2>2, <3>1, <3>2, <3>3
  <2> QED BY <2>1, <2>2
<1>10. ASSUME NEW s \in Chat, UpTo(s) \/ f[s] # 0 \/ s \in failed PROVE UpTo(s)'
  <2>1. CASE f[s] # 0 \/ s \in failed
    <3>1. L[s] # 0 /\ (s \notin Dated => L[s] >= told[s])
      BY <1>3, <2>1 DEF Shows
    <3> QED BY <1>1, <1>5, <2>1, <3>1 DEF UpTo
  <2>2. CASE ~ (f[s] # 0 \/ s \in failed)
    BY <1>1, <1>5, <1>10, <2>2 DEF UpTo
  <2> QED BY <2>1, <2>2
<1>11. CaughtUp => CaughtUp'
  <2> SUFFICES ASSUME CaughtUp, NEW s \in Chat, s \notin broken', s \notin unlisted', told[s] # 0
               PROVE  UpTo(s)'
    BY <1>1 DEF CaughtUp
  <2>1. CASE f[s] # 0
    BY <1>10, <2>1
  <2>2. CASE f[s] = 0
    <3>1. s \notin broken /\ s \notin unlisted
      BY <1>6, <2>2
    <3> QED BY <1>10, <3>1 DEF CaughtUp
  <2> QED BY <2>1, <2>2
<1>12. every => CaughtUp'
  <2> SUFFICES ASSUME every, NEW s \in Chat, s \notin broken', s \notin unlisted', told[s] # 0
               PROVE  UpTo(s)'
    BY <1>1 DEF CaughtUp
  <2>1. L[s] # 0
    BY <1>6
  <2>2. UpTo(s) \/ f[s] # 0 \/ s \in failed
    BY <1>3, <2>1 DEF Complete
  <2> QED BY <1>10, <2>2
<1>13. ASSUME NEW u \in Search PROVE Proper(search[u])'
  <2>1. CASE u = t
    <3>1. search'[u] = r /\ r.pc = "clear" /\ r.all = every
      BY <1>1, <2>1, TypedNow DEF AtRest
    <3> HIDE DEF r, every
    <3> QED BY <1>12, <3>1 DEF Proper, HasList, HasFetched, MayClear
  <2>2. CASE u # t
    <3>1. PICK q \in Searcher : q = search[u] /\ Proper(q) /\ search'[u] = q
      <4> HIDE DEF r
      <4> QED BY <1>1, <2>2, TypedNow DEF IndexInv
    <3>2. hist' \in List /\ told' = told /\ \A s \in Chat : hist[s] <= hist'[s]
      BY <1>1, TypedNow, IndexNumbers
    <3>3. Proper(q)'
      BY <1>10, <1>11, <3>1, <3>2, TypedNow, ProperStays
    <3> QED BY <3>1, <3>3 DEF Proper, HasList, HasFetched, MayClear, Complete, Shows
  <2> QED BY <2>1, <2>2
<1>14. ~ stale' => CaughtUp'
  BY <1>1, <1>11 DEF IndexInv
<1> QED BY <1>7, <1>8, <1>9, <1>13, <1>14 DEF IndexInv

LEMMA IndexKeeps == ASSUME IndexInv, [IndexNext]_indexVars PROVE IndexInv'
<1>1. CASE UNCHANGED indexVars
  <2>1. UNCHANGED <<hist, cache, panel, stale, manifest, docs, search, told, unlisted, broken>>
    BY <1>1 DEF indexVars, store
  <2>2. IndexTyped' /\ Lists' /\ RecordedIsIndexed' /\ (~ stale' => CaughtUp')
    BY <2>1 DEF IndexInv, IndexTyped, IndexTypeOK, Lists, Shows, RecordedIsIndexed, CaughtUp, UpTo
  <2>3. \A t \in Search : Proper(search[t])'
    BY <2>1 DEF IndexInv, Proper, HasList, HasFetched, MayClear, Complete, Shows, CaughtUp, UpTo
  <2> QED BY <2>2, <2>3 DEF IndexInv
<1> QED BY <1>1, ExtendKeeps, TaskEndedKeeps, ListsKeep, RefreshKeeps, ScanKeeps, CollectKeeps,
           ApplyKeeps DEF IndexNext

LEMMA IndexInvariance == IndexSpec => []IndexInv
BY IndexStarts, IndexKeeps, PTL DEF IndexSpec

-----------------------------------------------------------------------------
(* What an answer holds *)

(* The best n of no more than n are all. *)
LEMMA BestOfFew ==
  ASSUME NEW S, IsFiniteSet(S), NEW n \in Nat, Cardinality(S) <= n, NEW b \in BestOf(S, n)
  PROVE  b = S
<1>1. b \subseteq S /\ Cardinality(b) = (IF Cardinality(S) < n THEN Cardinality(S) ELSE n)
  BY DEF BestOf
<1>2. Cardinality(S) \in Nat
  BY FS_CardinalityType
<1>3. Cardinality(b) = Cardinality(S)
  BY <1>1, <1>2
<1> QED BY <1>1, <1>3, FS_Subset

LEMMA AllAnswered ==
  ASSUME IndexTyped, NEW s \in Chat, docs[s] # 0,
         Cardinality(Messages) <= Fetch, Cardinality(Chat) <= Limit, NEW answer \in Answers
  PROVE  s \in answer
<1>1. IsFiniteSet(Messages) /\ Messages \subseteq Chat \X (1..MaxVersion)
  <2>1. IsFiniteSet(Chat) /\ IsFiniteSet(1..MaxVersion)
    BY IndexAssumption, FS_Interval
  <2>2. IsFiniteSet(Chat \X (1..MaxVersion))
    BY <2>1, FS_Product
  <2> QED BY <2>2, FS_Subset DEF Messages
<1>2. PICK hits \in BestOf(Messages, Fetch) : answer \in BestOf({m[1] : m \in hits}, Limit)
  BY DEF Answers
<1>3. hits = Messages
  BY <1>1, IndexAssumption, BestOfFew
<1> DEFINE found == {m[1] : m \in Messages}
<1>4. found \subseteq Chat
  BY <1>1
<1>5. IsFiniteSet(found) /\ Cardinality(found) <= Limit
  <2>1. IsFiniteSet(found) /\ Cardinality(found) <= Cardinality(Chat)
    BY <1>4, IndexAssumption, FS_Subset
  <2>2. Cardinality(found) \in Nat /\ Cardinality(Chat) \in Nat
    BY <2>1, IndexAssumption, FS_CardinalityType
  <2> QED BY <2>1, <2>2, IndexAssumption
<1>6. answer = found
  BY <1>2, <1>3, <1>5, IndexAssumption, BestOfFew
<1>7. <<s, 1>> \in Messages
  <2>1. docs[s] \in Nat /\ 1 <= docs[s] /\ 1 \in 1..MaxVersion
    BY IndexNumbers DEF IndexTyped, IndexTypeOK
  <2> QED BY <2>1 DEF Messages
<1> QED BY <1>6, <1>7

-----------------------------------------------------------------------------
(* The types of SessionIndex. *)
THEOREM IndexTypeCorrect == IndexSpec => []IndexTypeOK
BY IndexInvariance, PTL DEF IndexInv, IndexTyped

(* However many threads refresh the index at once, its manifest never says more than it *)
(* holds (apply_sessions), but for what did not parse or some list had missed.          *)
THEOREM RecordedIsIndexedHolds == IndexSpec => []RecordedIsIndexed
BY IndexInvariance, PTL DEF IndexInv

(* A search that finds the flag cleared answers with every session an ended task         *)
(* announced, for any sessions, providers and threads that search, list and refresh: the *)
(* flag is cleared by passes that began after the announcement only (refresh).           *)
THEOREM AnnouncedIsFoundHolds == IndexSpec => []AnnouncedIsFound
<1>1. IndexInv => AnnouncedIsFound
  <2> SUFFICES ASSUME IndexInv, ~ stale, NEW s \in Chat, s \notin broken, s \notin unlisted
               PROVE  /\ s \notin Dated => docs[s] >= told[s]
                      /\ told[s] # 0 => docs[s] # 0
                      /\ told[s] # 0 /\ Cardinality(Messages) <= Fetch /\ Cardinality(Chat) <= Limit
                           => \A answer \in Answers : s \in answer
    BY DEF AnnouncedIsFound
  <2>1. docs[s] \in Nat /\ manifest[s] \in Nat /\ told[s] \in Nat
    BY TypedNow, IndexNumbers
  <2>2. docs[s] >= manifest[s] /\ (told[s] # 0 => UpTo(s))
    BY DEF IndexInv, RecordedIsIndexed, CaughtUp
  <2>3. (s \notin Dated => docs[s] >= told[s]) /\ (told[s] # 0 => docs[s] # 0)
    BY <2>1, <2>2 DEF UpTo
  <2> QED BY <2>3, TypedNow, AllAnswered
<1> QED BY <1>1, IndexInvariance, PTL
=============================================================================
