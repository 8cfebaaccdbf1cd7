----------------------------- MODULE AgentLoop ------------------------------
(***************************************************************************)
(* The connection loop of an agent process (run, reconnect_loop and         *)
(* connect_and_run in crates/mcp-server/src/connection.rs) and the event    *)
(* queue it drains (AgentState in state.rs).  One task selects over the     *)
(* inbound frames, the outgoing queue, the events and the health tick; a    *)
(* writer task of its own drains the queue of frames to write.              *)
(***************************************************************************)
EXTENDS Naturals, Sequences, FiniteSets, SequencesExt

CONSTANTS
  Events,     \* events the process will produce (1..Events)
  TxCap,      \* replies and pings waiting for the loop (32)
  WsCap,      \* frames waiting for the writer (128)
  MaxBackoff, \* RECONNECT_MAX in units of RECONNECT_MIN
  MaxCuts     \* how often the network fails

VARIABLES
  net,      \* whether the relay can be reached
  link,     \* the connection: "none", "up", or "cut" without a sign of it
  cuts,     \* failures so far
  pc,       \* "dial", "run", "send", "reply", "sleep" or "ended"
  backoff,  \* the next delay
  alive,    \* traffic since the last health tick
  tx,       \* replies and pings waiting (a count)
  held,     \* the frame the loop waits to queue: an event, or 0 for another one
  ws,       \* frames waiting for the writer
  writer,   \* "ok", "stuck" in a write, or "dead"
  made,     \* events produced
  events,   \* the event queue: it outlives the connections
  old,      \* events left to the writers of earlier connections
  arrived,  \* events in the order the relay got them
  dropped   \* events taken from the queue and lost with a connection (ghost)

conn  == <<link, alive, tx, held, ws, writer>>
world == <<net, cuts>>
vars  == <<world, conn, pc, backoff, made, events, old, arrived, dropped>>

Event == 1..Events
Frame == 0..Events

TypeOK ==
  /\ net \in BOOLEAN /\ cuts \in 0..MaxCuts
  /\ link \in {"none", "up", "cut"}
  /\ pc \in {"dial", "run", "send", "reply", "sleep", "ended"}
  /\ backoff \in 1..MaxBackoff /\ alive \in BOOLEAN
  /\ tx \in 0..TxCap /\ held \in Frame
  /\ ws \in Seq(Frame) /\ Len(ws) <= WsCap
  /\ writer \in {"ok", "stuck", "dead"}
  /\ made \in 0..Events /\ events \in Seq(Event)
  /\ old \in Seq(Event) /\ arrived \in Seq(Event) /\ dropped \subseteq Event

Init ==
  /\ net \in BOOLEAN /\ cuts = 0
  /\ link = "none" /\ pc = "dial" /\ backoff = 1 /\ alive = TRUE
  /\ tx = 0 /\ held = 0 /\ ws = <<>> /\ writer = "ok"
  /\ made = 0 /\ events = <<>> /\ old = <<>> /\ arrived = <<>> /\ dropped = {}

In(frames) == ToSet(frames) \ {0}

-----------------------------------------------------------------------------
(* The network and the other tasks of the process *)

(* The relay goes away: the connection hears an error, or nothing at all. *)
Fail ==
  /\ net /\ cuts < MaxCuts
  /\ net' = FALSE /\ cuts' = cuts + 1
  /\ link' = IF link = "up" THEN "cut" ELSE link
  /\ UNCHANGED <<pc, backoff, alive, tx, held, ws, writer, made, events, old, arrived, dropped>>

Restore ==
  /\ ~ net /\ net' = TRUE
  /\ UNCHANGED <<cuts, conn, pc, backoff, made, events, old, arrived, dropped>>

(* An autonomous task ends and pushes its event. *)
Produce ==
  /\ made < Events /\ pc # "ended"
  /\ made' = made + 1
  /\ events' = Append(events, made + 1)
  /\ UNCHANGED <<world, conn, pc, backoff, old, arrived, dropped>>

(* The ping task, or a command's task with its reply: both wait while tx is full. *)
Offer ==
  /\ pc \in {"run", "send", "reply"} /\ tx < TxCap
  /\ tx' = tx + 1
  /\ UNCHANGED <<world, link, alive, held, ws, writer, pc, backoff, made, events, old,
                 arrived, dropped>>

-----------------------------------------------------------------------------
(* The writer task *)

Reach(f) == arrived' = IF f # 0 THEN Append(arrived, f) ELSE arrived
Drop(frames) == dropped' = dropped \cup In(frames)

(* A frame is written; on a cut link it disappears in the socket. *)
Write ==
  /\ writer = "ok" /\ ws # <<>> /\ link # "none"
  /\ ws' = Tail(ws)
  /\ IF link = "up" THEN Reach(Head(ws)) /\ UNCHANGED dropped
                    ELSE Drop(<<Head(ws)>>) /\ UNCHANGED arrived
  /\ UNCHANGED <<world, link, alive, tx, held, writer, pc, backoff, made, events, old>>

(* The socket's buffer is full: the write waits. *)
Stall ==
  /\ writer = "ok" /\ ws # <<>> /\ link = "cut"
  /\ writer' = "stuck"
  /\ UNCHANGED <<world, link, alive, tx, held, ws, pc, backoff, made, events, old,
                 arrived, dropped>>

(* TCP gives up: the write fails, the writer ends and its queue is gone. *)
WriterDies ==
  /\ writer \in {"ok", "stuck"} /\ link = "cut"
  /\ writer' = "dead"
  /\ ws' = <<>> /\ Drop(ws)
  /\ UNCHANGED <<world, link, alive, tx, held, pc, backoff, made, events, old, arrived>>

(* A writer left behind by a health timeout goes on with what it had. *)
DrainOld ==
  /\ old # <<>>
  /\ old' = Tail(old)
  /\ \/ Reach(Head(old)) /\ UNCHANGED dropped
     \/ Drop(<<Head(old)>>) /\ UNCHANGED arrived
  /\ UNCHANGED <<world, conn, pc, backoff, made, events>>

-----------------------------------------------------------------------------
(* reconnect_loop and connect_and_run *)

(* Dialing, authenticating and the loop's fresh state. *)
Dial ==
  /\ pc = "dial" /\ net
  /\ pc' = "run" /\ link' = "up"
  /\ alive' = TRUE /\ tx' = 0 /\ held' = 0 /\ ws' = <<>> /\ writer' = "ok"
  /\ UNCHANGED <<world, backoff, made, events, old, arrived, dropped>>

DialFails ==
  /\ pc = "dial"
  /\ pc' = "sleep"
  /\ UNCHANGED <<world, conn, backoff, made, events, old, arrived, dropped>>

(* The delay doubles, unless the connection had been stable for a while. *)
Sleep ==
  /\ pc = "sleep"
  /\ pc' = "dial"
  /\ backoff' \in {2, IF 2 * backoff > MaxBackoff THEN MaxBackoff ELSE 2 * backoff}
  /\ UNCHANGED <<world, conn, made, events, old, arrived, dropped>>

(* What every way out does to the connection's state: replies to commands of this
   connection have nowhere to go any more. *)
Leave == link' = "none" /\ tx' = 0 /\ held' = 0 /\ ws' = <<>> /\ UNCHANGED writer

(* The writer is left behind with its queue; only its events matter from now on. *)
LeaveWriter ==
  old' = old \o (IF writer = "dead" THEN <<>> ELSE SelectSeq(ws, LAMBDA f : f # 0))

(* Mutant: the event queue belongs to the connection. *)
LinkErrorForgets ==
  /\ pc = "run" /\ link = "cut"
  /\ pc' = "sleep" /\ Leave
  /\ events' = <<>>
  /\ LeaveWriter
  /\ UNCHANGED <<world, alive, backoff, made, arrived, dropped>>

(* The read half reports an error. *)
LinkError ==
  /\ pc = "run" /\ link = "cut"
  /\ pc' = "sleep" /\ Leave
  /\ LeaveWriter
  /\ UNCHANGED <<world, alive, backoff, made, events, arrived, dropped>>

(* A Close frame ends the loop without an error: the writer is aborted and the
   process ends. *)
Closed ==
  /\ pc = "run" /\ link = "up"
  /\ pc' = "ended" /\ Leave
  /\ Drop(ws)
  /\ UNCHANGED <<world, alive, backoff, made, events, old, arrived>>

(* Mutant: the health tick does not clear the flag. *)
HealthTickKeeps ==
  /\ pc = "run" /\ alive
  /\ UNCHANGED vars

HealthTick ==
  /\ pc = "run" /\ alive
  /\ alive' = FALSE
  /\ UNCHANGED <<world, link, tx, held, ws, writer, pc, backoff, made, events, old,
                 arrived, dropped>>

HealthFails ==
  /\ pc = "run" /\ ~ alive
  /\ pc' = "sleep" /\ Leave
  /\ LeaveWriter
  /\ UNCHANGED <<world, alive, backoff, made, events, arrived, dropped>>

(* An inbound frame: a pong, a peer's news, a command to execute in a task. *)
Traffic ==
  /\ pc = "run" /\ link = "up"
  /\ alive' = TRUE
  /\ UNCHANGED <<world, link, tx, held, ws, writer, pc, backoff, made, events, old,
                 arrived, dropped>>

(* A command that does not decrypt is answered from within the loop: the error
   waits for room in the queue that only the loop empties. *)
BadCommand ==
  /\ pc = "run" /\ link = "up"
  /\ alive' = TRUE /\ pc' = "reply"
  /\ UNCHANGED <<world, link, tx, held, ws, writer, backoff, made, events, old,
                 arrived, dropped>>

Refuse ==
  /\ pc = "reply" /\ tx < TxCap
  /\ tx' = tx + 1 /\ pc' = "run"
  /\ UNCHANGED <<world, link, alive, held, ws, writer, backoff, made, events, old,
                 arrived, dropped>>

(* A reply or ping, or an event, is taken to be queued for the writer. *)
TakeTx ==
  /\ pc = "run" /\ tx > 0
  /\ tx' = tx - 1 /\ held' = 0 /\ pc' = "send"
  /\ UNCHANGED <<world, link, alive, ws, writer, backoff, made, events, old, arrived, dropped>>

TakeEvent ==
  /\ pc = "run" /\ events # <<>>
  /\ held' = Head(events) /\ events' = Tail(events) /\ pc' = "send"
  /\ UNCHANGED <<world, link, alive, tx, ws, writer, backoff, made, old, arrived, dropped>>

(* ws_tx.send: waits while the writer's queue is full, gives up when it has ended. *)
Send ==
  /\ pc = "send"
  /\ \/ writer # "dead" /\ Len(ws) < WsCap /\ ws' = Append(ws, held) /\ UNCHANGED dropped
     \/ writer = "dead" /\ Drop(<<held>>) /\ UNCHANGED ws
  /\ pc' = "run" /\ held' = 0
  /\ UNCHANGED <<world, link, alive, tx, writer, backoff, made, events, old, arrived>>

Select == LinkError \/ HealthTick \/ HealthFails \/ TakeTx \/ TakeEvent
Loop == Dial \/ DialFails \/ Sleep \/ Send \/ Refuse

Next ==
  \/ Fail \/ Restore \/ Produce \/ Offer
  \/ Write \/ Stall \/ WriterDies \/ DrainOld
  \/ Loop \/ Select \/ Closed \/ Traffic \/ BadCommand

(* The tasks run; select! polls its branches in random order, so one that is ready
   again and again is taken; TCP gives up on a peer that is gone; a dial succeeds
   when the relay can be reached for good. *)
Fairness ==
  /\ WF_vars(Loop) /\ SF_vars(Dial)
  /\ SF_vars(HealthTick \/ HealthFails) /\ SF_vars(TakeEvent)
  /\ WF_vars(Write \/ WriterDies) /\ WF_vars(WriterDies) /\ WF_vars(DrainOld)
Spec == Init /\ [][Next]_vars /\ Fairness

-----------------------------------------------------------------------------
(* Properties *)

(* Waiting for room in the queue that only the loop itself empties. *)
SelfBlocked == pc = "reply" /\ tx = TxCap

(* A process whose relay stays reachable is back on a live connection again and
   again, however the last one died, unless a Close frame ended it or it waits for
   good on its own queue. *)
Returns ==
  <>[] net => \/ []<>(link = "up" /\ pc = "run")
              \/ <>[](pc = "ended") \/ <>[] SelfBlocked

(* The same without the last exception. *)
HealthNotices == <>[] net => []<>(link = "up" /\ pc = "run") \/ <>[](pc = "ended")

(* Whatever connections come and go, an event reaches the relay, unless it was lost
   with a connection that had taken it, or the process does not serve any more. *)
EventsArrive ==
  <>[](net /\ link # "cut") =>
    \A e \in Event :
      [](made >= e => <>(e \in ToSet(arrived) \/ e \in dropped \/ pc = "ended" \/ SelfBlocked))

=============================================================================
