----------------------------- MODULE Supervisor -----------------------------
(***************************************************************************)
(* The controller's link to the relay                                       *)
(* (crates/mcp-server/src/relay_controller.rs, ConnectionPool::connect):    *)
(* one task writes the outgoing queue, reads and handles inbound frames and *)
(* dials again when the link drops; everybody else, a ping task included,   *)
(* puts frames into the bounded queue that only this task drains.           *)
(***************************************************************************)
EXTENDS Naturals, Sequences, FiniteSets

CONSTANTS
  Cap,        \* the outgoing queue holds this many frames (32)
  MaxInbound, \* the relay's queue for this connection
  MaxBackoff  \* RECONNECT_MAX in units of RECONNECT_MIN

VARIABLES
  relay,    \* whether the relay is reachable
  link,     \* the supervisor's connection: "up", "cut" or "none"
  pc,       \* what the supervisor does
  backoff,  \* its next delay
  queue,    \* the outgoing queue
  inbound,  \* frames from the relay
  asker,    \* a list_agents call ("early": armed and notified)
  fresh,    \* the cached list was computed after the call began
  owned     \* the pool still has the room

vars == <<relay, link, pc, backoff, queue, inbound, asker, fresh, owned>>
quiet == <<relay, link, pc, backoff, inbound, asker, fresh, owned>>

(* A plain frame is a ping, a command or a reply: nothing comes back here. *)
Frame == {"plain", "list", "close"}
Inbound == {"command", "joined", "newlist", "oldlist"}

TypeOK ==
  /\ relay \in BOOLEAN /\ fresh \in BOOLEAN /\ owned \in BOOLEAN
  /\ link \in {"up", "cut", "none"}
  /\ pc \in {"select", "handle", "sleep", "redial", "refresh"}
  /\ backoff \in 1..MaxBackoff
  /\ queue \in Seq(Frame) /\ Len(queue) <= Cap
  /\ inbound \in Seq(Inbound)
  /\ asker \in {"idle", "armed", "early", "waiting", "woken", "cached"}

(* connect: the first connection is up and the first list is requested. *)
Init ==
  /\ relay = TRUE /\ link = "up" /\ pc = "select" /\ backoff = 1
  /\ queue = <<"list">> /\ inbound = <<>>
  /\ asker = "idle" /\ fresh = FALSE /\ owned = TRUE

(* tx.send(..).await: waits while the queue is full. *)
Enqueue(f) == Len(queue) < Cap /\ queue' = Append(queue, f)

-----------------------------------------------------------------------------
(* The other tasks *)

(* The ping task goes on as long as the process; calls need the pool's room. *)
Ping == Enqueue("plain") /\ UNCHANGED quiet

Command == owned /\ Enqueue("plain") /\ UNCHANGED quiet

(* list_agents arms its waiter and sends the request. *)
Arm ==
  /\ owned /\ asker = "idle"
  /\ asker' = "armed" /\ fresh' = FALSE
  /\ inbound' = [i \in DOMAIN inbound |-> IF inbound[i] = "newlist" THEN "oldlist" ELSE inbound[i]]
  /\ UNCHANGED <<relay, link, pc, backoff, queue, owned>>

Request ==
  /\ asker \in {"armed", "early"}
  /\ asker' = IF asker = "early" THEN "woken" ELSE "waiting"
  /\ Enqueue("list")
  /\ UNCHANGED <<relay, link, pc, backoff, inbound, fresh, owned>>

(* LIST_AGENTS_WAIT elapses: the cached list is returned. *)
ListTimeout ==
  /\ asker = "waiting"
  /\ asker' = "cached"
  /\ UNCHANGED <<relay, link, pc, backoff, queue, inbound, fresh, owned>>

Returned ==
  /\ asker \in {"woken", "cached"}
  /\ asker' = "idle" /\ fresh' = FALSE
  /\ UNCHANGED <<relay, link, pc, backoff, queue, inbound, owned>>

(* disconnect: the room is forgotten and a Close frame is queued. *)
Disconnect ==
  /\ owned /\ asker = "idle"
  /\ owned' = FALSE
  /\ Enqueue("close")
  /\ UNCHANGED <<relay, link, pc, backoff, inbound, asker, fresh>>

-----------------------------------------------------------------------------
(* The supervisor *)

Sleep ==
  /\ pc = "sleep"
  /\ pc' = "redial"
  /\ backoff' = IF 2 * backoff > MaxBackoff THEN MaxBackoff ELSE 2 * backoff
  /\ UNCHANGED <<relay, link, queue, inbound, asker, fresh, owned>>

(* Mutant: after a failed dial the loop goes on without a link. *)
RedialOnce ==
  /\ pc = "redial"
  /\ \/ relay /\ link' = "up" /\ inbound' = <<>> /\ pc' = "refresh"
     \/ ~ relay /\ pc' = "select" /\ UNCHANGED <<link, inbound>>
  /\ UNCHANGED <<relay, backoff, queue, asker, fresh, owned>>

(* redial: dial and authenticate; without success the loop sleeps again. *)
Redial ==
  /\ pc = "redial"
  /\ \/ relay /\ link' = "up" /\ inbound' = <<>> /\ pc' = "refresh"
     \/ ~ relay /\ pc' = "sleep" /\ UNCHANGED <<link, inbound>>
  /\ UNCHANGED <<relay, backoff, queue, asker, fresh, owned>>

(* The list is requested through the queue that this very task drains. *)
Refresh ==
  /\ pc = "refresh"
  /\ Enqueue("list")
  /\ pc' = "select" /\ backoff' = 1
  /\ UNCHANGED <<relay, link, inbound, asker, fresh, owned>>

Waiting == asker \in {"armed", "early", "waiting"}
Woken == CASE asker = "armed" -> "early" [] asker = "waiting" -> "woken" [] OTHER -> asker

(* What the relay answers to a frame it receives, unless its queue for this
   connection is full; a Close ends the connection. *)
Answer(f) ==
  /\ inbound' = IF f = "list" /\ Len(inbound) < MaxInbound
                  THEN Append(inbound, IF Waiting THEN "newlist" ELSE "oldlist")
                  ELSE inbound
  /\ link' = IF f = "close" THEN "cut" ELSE link

Lost == link' = "none" /\ inbound' = <<>> /\ pc' = "sleep"

(* A frame is written; on a cut link it vanishes or the write fails. *)
Write ==
  /\ pc = "select" /\ queue # <<>>
  /\ queue' = Tail(queue)
  /\ \/ link = "up" /\ Answer(Head(queue)) /\ UNCHANGED pc
     \/ link = "cut" /\ UNCHANGED <<link, inbound, pc>>
     \/ link = "cut" /\ Lost
  /\ UNCHANGED <<relay, backoff, asker, fresh, owned>>

(* handle_message: an AgentList replaces the cached list and wakes list_agents, a
   command is executed inline. *)
Read ==
  LET f == Head(inbound) IN
  /\ pc = "select" /\ inbound # <<>>
  /\ inbound' = Tail(inbound)
  /\ pc' = IF f = "command" THEN "handle" ELSE pc
  /\ asker' = IF f \in {"newlist", "oldlist"} THEN Woken ELSE asker
  /\ fresh' = CASE f = "newlist" -> TRUE [] f = "oldlist" -> FALSE [] OTHER -> fresh
  /\ UNCHANGED <<relay, link, backoff, queue, owned>>

(* Its reply goes through the queue that this very task drains. *)
Reply ==
  /\ pc = "handle"
  /\ Enqueue("plain")
  /\ pc' = "select"
  /\ UNCHANGED <<relay, link, backoff, inbound, asker, fresh, owned>>

(* The read half reports the end of the link. *)
NoticeCut ==
  /\ pc = "select" /\ link = "cut" /\ inbound = <<>>
  /\ Lost
  /\ UNCHANGED <<relay, backoff, queue, asker, fresh, owned>>

Loop == Sleep \/ Redial \/ Refresh \/ Write \/ Read \/ Reply \/ NoticeCut

-----------------------------------------------------------------------------
(* The relay *)

Outage ==
  /\ relay
  /\ relay' = FALSE
  /\ link' = IF link = "up" THEN "cut" ELSE link
  /\ UNCHANGED <<pc, backoff, queue, inbound, asker, fresh, owned>>

Restored == ~ relay /\ relay' = TRUE
            /\ UNCHANGED <<link, pc, backoff, queue, inbound, asker, fresh, owned>>

(* Another peer sends a command, or a machine joins. *)
FromRelay ==
  /\ link = "up" /\ Len(inbound) < MaxInbound
  /\ inbound' \in {Append(inbound, "command"), Append(inbound, "joined")}
  /\ UNCHANGED <<relay, link, pc, backoff, queue, asker, fresh, owned>>

Next == \/ Ping \/ Command \/ Arm \/ Request \/ ListTimeout \/ Returned \/ Disconnect
        \/ Loop \/ Outage \/ Restored \/ FromRelay

(* The supervisor's task keeps running, and select! does not starve the branch
   that reads. *)
Fairness == WF_vars(Loop) /\ WF_vars(Read \/ NoticeCut)
Spec == Init /\ [][Next]_vars /\ Fairness

-----------------------------------------------------------------------------
(* Properties *)

Serving == pc = "select" /\ link = "up"

(* Waiting for room in the queue that nobody else drains. *)
SelfBlocked == pc \in {"handle", "refresh"} /\ Len(queue) = Cap

(* When the relay stays reachable the controller serves its link again and
   again, unless it waits for good on its own full queue. *)
Recovers == <>[] relay => ([]<> Serving \/ <>[] SelfBlocked)

(* The same without the exception. *)
SurvivesRestarts == <>[] relay => []<> Serving

(* Nothing but a list wakes list_agents, and the list it returns then was computed
   after the call began, unless an older answer was still on its way. *)
Wakes == asker \in {"armed", "waiting"} /\ asker' \in {"early", "woken"}
WakesByList == Wakes /\ ~ fresh' => Head(inbound) = "oldlist"
WokenByList == [][WakesByList]_vars
=============================================================================
