# A verification project for tunshell_mcp_agents (remote-agents)

TLA+ models of the remote-agents system, the TLC runs that check them on small
instances, and TLAPS proofs of what matters most for every instance. Source
paths below are relative to the repository's `crates/` unless they begin with
another directory (`worker/`, `npm/`).

Contents: 1 inventory, 2 modules and their correspondence to the code, 3 runs
and bounds, 4 fairness, 5 where the code and its comments disagree, 6 proofs,
7 abstractions, 8 what is not modelled, 9 what is left.

## 1. Inventory

The system lets one machine's AI session drive many machines. Every machine
runs `remote-agents` (an *agent* that executes commands, a *controller* that
issues them, or both), and all of them meet in a *room* on a relay. Commands and
results are encrypted end to end; the relay only routes. Two machines may also
open a direct UDP channel and then bypass the relay.

| part | code | state | operations | correctness |
|---|---|---|---|---|
| relay: rooms, connections | `relay/handler.rs`, `state.rs` | `rooms: key -> Arc<Room>`; per Room `agents`, `mcp`, `pending`, `udp_offers`; per connection a bounded outbound queue and a writer task | accept, authenticate, register, announce, one handler per client frame, clean-up, `gc_room`, `run_writer` | a token gates its room; nothing crosses rooms; replies reach who asked; nothing leaks; half-open connections end |
| relay: routing | `relay/routing.rs` | none (scans of `agents`) | `resolve_targets`, `dedup_targets`, `dedup_agents`, `find_session_tx` | each machine once, on its best connection, whatever the map's order |
| Durable Object relay | `worker/src/room.ts` | socket attachments (survive hibernation), `pending` (does not), one alarm | auth, list, command, result, close, alarm | a machine is listed while it has a socket and no longer; a result returns to who asked |
| agent roster | `mcp-server/state.rs`, `connection.rs` | `AgentState.peers` | `set_peers`, `upsert_peer`, `remove_peer` on roster frames | the roster is the room's machines |
| agent connection | `mcp-server/connection.rs` | socket, backoff, health flag, outgoing queue, event queue, writer task | dial, authenticate, select over frames, queue, events and health tick, reconnect | one live connection again after any failure; events are not lost |
| controller link | `mcp-server/relay_controller.rs` | supervisor task, outgoing queue of 32, cached list | dial, write, read, list, disconnect | it survives relay restarts |
| controller calls | `mcp-server/relay_controller.rs`, `connection.rs` | pending collectors, direct channels | `dispatch`, fall back to the relay, `collect_replies` | a command runs once; every call ends and leaves nothing |
| reliable UDP | `shared/udp_channel.rs`, `shared/udp.rs` | `pending` map, `cwnd`, `send_seq`, reassembly map | `send_reliable`, `recv_loop`, `retransmit_loop`, `close`, reassembly | delivered or reported; bounded window and retries; senders do not hang |
| UDP transport | `mcp-server/relay_udp.rs`, `udp_transport.rs`, `shared/udp_channel.rs` | channel per peer, punch state, QUIC connection | offer, answer, punch, commit, fall back | both ends use the same transport; glare resolves |
| file transfer | `mcp-server/transfer.rs`, `files.rs`, `connection.rs` | offset of the sender, the destination file, transfer status | pipelined slices, receive by offset, truncate and verify | a transfer that succeeded copied the file |
| sourcing a transfer | `mcp-server/relay_controller.rs`, `connection.rs` | read loop, mode of the peers, transfer store | pre-flight, answer with an id, send slices | every order is answered; a destination is blamed for a reason |
| directory sync | `mcp-server/sync.rs`, `files.rs` | two manifests, a plan | walk, diff, copy one by one, delete | after a sync that ended well the trees agree |
| cron scheduler | `mcp-server/scheduler.rs` | `tasks`, `baseline` (memory, two locks), `scheduled_tasks` (SQLite) | `add`, `remove`, `load`, `tick` | each occurrence once; restarts lose and repeat nothing |
| autonomous tasks | `mcp-server/autonomous.rs`, `relay_api.rs` | task rows (SQLite), runner, events, watches, reminders | dispatch, run, finish, `task_wait`, cancel the reminder | a wait returns what the event said; reminders end |
| map-reduce | `mcp-server/mapreduce.rs` | job table, per-partition status | `partition`, rounds, retries, reduce | the reduce gets every item once, in order |
| processes of a machine | `mcp-server/tunnel.rs`, `transfer.rs`, `mcp_server.rs` | per-process stores, `cloudflared` children | start, list, stop, shutdown | a process knows what its tools started; children end with it |
| command executor | `mcp-server/executor/` | mode file, a view of it per session; one child per command | one handler per command, `set_mode`, `exec` | the gate follows the shared mode; a command's pipes do not deadlock |
| session index | `mcp-server/session_index.rs`, `sessions.rs` | tantivy index, manifest, stale flag, list cache | scan, collect, apply, search | the index agrees with the transcripts |
| wire formats | `shared/proto_convert.rs`, `protocol.rs`, `crypto.rs`, `worker/src/wire.ts` | none | encode, decode, seal | builds of different age do not misdirect a command |
| safety policy | `mcp-server/safety.rs`, `exclude.rs` | none | string classification | - |
| MCP and HTTP servers | `mcp-server/mcp_server.rs`, `relay_api.rs` | none of their own | tool calls, request parsing | - |
| configuration, install, relay's HTTP pages | `config.rs`, `daemon.rs`, `install_mcp.rs`, `npm/`, `relay/main.rs` | files | read, write, install | - |

Interactions: agents and controllers exchange frames with the relay over a
WebSocket each; the relay's connection tasks share only concurrent maps; the
roster of an agent is fed by the relay's membership frames; UDP offers and
answers travel through the relay and then a channel between two agents carries
commands and replies; a transfer is a stream of commands from one node to
another; processes of one machine share the schedule and task databases, the
mode file and one agent id, and nothing else.

What is hard here: tasks that interleave at every await; Rooms that live on
through an `Arc` after they left the map; bounded queues, which either drop
silently or make their only reader wait for itself; locks taken one after
another; work done in the loop that also reads the answers; a clock, a crash and
a database statement that fails; packets that are lost, repeated and reordered;
caches that are refreshed by several threads. `PROJECT.json` lists each of these
hazards at its line with the properties that cover it.

## 2. Modules

| module | models |
|---|---|
| `Routing` | the target definition of `routing.rs`: `Score`, `Outranks`, `Matches`, and `ResolveTargets`, the set of target sets the code may return |
| `RoutingLoops` | the loops of `routing.rs` and of `worker/src/room.ts` side by side over an arbitrary iteration order |
| `Relay` | rooms, connection life cycle, every client frame, clean-up, collection, writer tasks (`EXTENDS Routing`) |
| `RelayPeers` | `Relay` composed with every agent's roster (`EXTENDS Relay`) |
| `WorkerRoom` | the Durable Object's room: attachments, requests, alarm, hibernation |
| `AgentLoop`, `Supervisor` | the connection loops of an agent process and of a controller |
| `Dispatch` | a controller's calls over two transports, the agents' execution and replies, the collectors |
| `Punch` | the offer, the hole punched from both ends, the commit to QUIC or to plain loops |
| `UdpChannel` | one direction of the reliable UDP path and its network |
| `Transfer`, `FileCopy` | file copies slice by slice, and the abstract copy they implement |
| `Sourcing` | a node told to send a file or a directory: pre-flight, answer, its own commands to the destination |
| `SyncDir` | folder sync over two trees that others edit |
| `Scheduler` | the cron scheduler of the processes of one machine |
| `Tasks` | an autonomous task, its completion event, the reminder and the waits |
| `MapReduce` | a job in rounds over agents that fail |
| `Processes` | what the processes of a machine start, know and leave behind |
| `Executor` | the mode gate of the commands of a machine's sessions |
| `Shell` | one shell command with its pipes and deadline |
| `TempScript` | the script files of long commands on Windows |
| `SessionIndex` | the refresh and search threads, the caches and the index |
| `Wire` | one command between builds of different age |
| `Absent` | `None`, what is not there, for the modules that are checked together |
| `RelayProofs`, `RequestsProofs`, `UdpChannelProofs`, `TransferProofs`, `SchedulerProofs`, `HostsProofs`, `WorkProofs`, `ConnectionsProofs` | theorems and proofs: section 6 says of which components |
| `MCRelay`, `MCRooms`, `MCRequests`, `MCConnections`, `MCWork`, `MCHosts`, `MCScheduler`, `MCTransfer` | the instances TLC checks |

Components that share no state are proved about in one module and checked in one
run. Where two of them would give one name to different things the names carry
the component's (`WireNext`, `LoopsNext`, `SyncTypeOK`, `RoomSpec`, ...).

**Relay.** A state variable per field: `rooms` is `RelayState.rooms`, `agents`,
`mcp`, `pending`, `udpOffers` are the maps of a Room, `outq` and `writer` a
connection's channel and writer task, `pc` the point `handle_socket` has
reached. A Room *value* is named by the session whose `state.room()` created it,
which is what an `Arc` is: `rooms` says which Room a key finds now, `room[s]`
which one a task holds, and the two may differ. One action is one operation on
one concurrent map, or one handler that does not await between its accesses; the
newcomer's list is computed (`ListPeers`), queued (`SendList`) and its join
announced (`Announce`) in three steps because the code scans, sends and
broadcasts one after the other while other connections run; a departure is
likewise `LeaveRemove`, `LeaveCheck`, `LeaveAnnounce`, `LeaveRetain`,
`LeaveGc`. `AuthOkUndelivered` passes the room's *name* to `gc_room`, as the
code does. `HandleClientMsg` has a disjunct per frame kind. A reply or an answer
may be sent by any session of the machine the frame was written to, any number
of times: that is all the relay may rely on. A frame to a full queue, or to a
task that has ended, is dropped (`Accepts`).

**RelayPeers.** `Deliver` is `WriterSend` plus the receiving agent's
`handle_server_message` on `AgentList`, `AgentJoined` and `AgentLeft`; `Server`
is any other step of the relay. Two history variables say what a roster cannot
be blamed for: `overlap`, the Rooms in which two membership changes were ever
under way at once, and `missed`, the sessions whose queue was full for a frame
that told of a change (`Told`), which the relay drops and never repeats.

**RoutingLoops.** `LoopsInit` is every room of the given connections, machines and
capabilities and every broadcast target; `Visit(c)` is the body of all the loops
for the next entry the map yields, in any order. The Rust loops fold over a map,
the worker's sort and reduce: both are there, and `Resolved` compares each with
what `Routing` defines.

**WorkerRoom.** A Durable Object handles one event at a time, so an action is an
event: `Auth`, `UpdateAgent`, `ListAgents`, `Command`, `Result`, `CloseSocket` and
`Closed` are messages and close events, `Alarm` is the reaper, `Hibernate` clears
what is in memory only. A connection may `Die` without an event. `Round` is 30 s of time.

**AgentLoop, Supervisor.** The `pc` of each is the branch its `select!` is in;
what is a send into a bounded queue that waits is a `pc` of its own ("send",
"reply"), because a loop that waits there serves nothing else. `Fail` and
`Outage` cut a link without a sign; the loop notices through its health tick, a
failed write or a read. In `AgentLoop` the writer task is `Write`, `Stall`, `WriterDies` and
`DrainOld`, and events outlive the connections. In `Supervisor` the environment
is `Ping`, `Command` and the callers of `list_agents`, which all put frames into
the queue only the supervisor drains.

**Dispatch.** The caller's steps are those of `dispatch` and `collect_replies`
between their awaits (`Caller`), `Relay` the relay's forwarding, `Run` an agent's
execution, `Receive` and `ReceiveDirect` the controller's handlers. The roster
the caller counts with is a cache (`RosterFrame` refreshes it); the room and the
channels move under it (`Move`). A frame may be lost on either path and a
direct one repeated (`Duplicate`), as `UdpChannel` allows. `Daemon` are the
agents that run as a daemon; the others are MCP nodes.

**Punch.** An `UdpChannel` object per end and channel id; `entry` is the map of
each end, which a glare overwrites. `Dial`/`Offer` are `offer_channel` on both
sides of its await, `HandleOffer` and `HandleAnswer` what the signals that come
by the relay do, `TaskStep` the steps of the punch task: hear a probe or its
acknowledgment, connect or accept, commit, start the loops, or give up.

**UdpChannel.** `pending`, `retries`, `fastRtx`, `cwnd` are the sender's
tracking state; `data` and `acks` hold every packet and acknowledgment that was
ever sent, and a receive may pick any of them at any time: loss is never picking
one, duplication picking it twice. `send_reliable_packet` is window check,
sequence number, registration, transmission, in four steps since each takes a
lock of its own. `Tick(X)` is a retransmit tick that finds the RTO of the
packets `X` elapsed. `lru` and `parts` are the reassembler's map in the order of
`last_touch`.

**Transfer and FileCopy.** A file is a sequence of blocks, a slice one block of
it. `Begin` is `begin_send_file` (the size is read), `Hash`, `Read` and
`ReadLast` are the three phases of `stream_file`, each of which reads the source
as it is *then*: `Edit` is another process that writes it in between. A slice of
`inflight` is a future of `send_file_slice`, which runs only while the pipeline
awaits one (`Awaiting`): that is when it is sent (`Transmit`) and when its timer
runs (`SliceTimeout`). `wire` keeps every slice that was ever sent, so the
receiver may handle it late, twice or never, also after its transfer ended.
`Receive`, `Truncate` and `Verify` are the file operations of
`receive_chunk_raw`, between which other slices' tasks run. `disturbed` and
`touched` are history: the cause of a failure, and whether another transfer
wrote to the destination. `FileCopy` is the promise: a transfer chooses one
content at one moment and ends once, either failed or with exactly that content
at the destination. The refinement (`Copy` in `Transfer`) maps status to status,
the recorded hash to the chosen content and the destination to the copy as long
as no other transfer wrote to it; `ImplementsFileCopy` is `FileCopy`'s whole
specification, its fairness included.

**Sourcing.** An MCP node reads its connection in one loop and runs commands in
it (`Occupy` holds `loop` until `JobEnds`), a plain agent runs each in a task.
`Tell` is the order, `OrderTask` its own task step by step: probe the destination's
mode, answer with the transfer id, send and await. Frames may be lost, a node
may leave, a mode may change.

**SyncDir.** `BeginSyncDir`, `Diff`, `CopyStart`/`CopyDone`/`CopyFails`, `Delete` are
the phases of `run_sync_agent`; a copy is one `FileCopy`, which on failure leaves
the old file, a mixture or the new one. `Edit` is anyone at either end, and
`LateSlice` a slice of a failed copy that arrives later. The ghosts `changed`,
`risky` and `late` name what the code cannot see.

**Scheduler.** `tasks` and `baseline` are the two locked maps of each process,
`db` the rows of the shared file. `add` is upsert, insert, baseline (three
steps, an early return when the upsert fails); `remove` is map, baseline, row;
`tick` reads the clock, collects the due tasks under both locks, then for each
moves the baseline and starts the command, and after it ended updates memory
and row. Anything may happen between those steps, also the process's death.
A definition is named by the call that made it, so a task that is replaced is
told from its successor.

**Tasks.** `row` is the status column (it survives a `Crash`), `child` the
runner. `Dispatch`, `AddReminder`, `ReminderAdded` and `RegisterWatch` are the
round trips of a watched dispatch; `Receive` and `HandleEvent` the controller's
handling of a completion, in the order it takes its locks, `RemoveReminder` and
`LoseCancel` what becomes of the cancellation it sends; `Arm`, `Check`, `Woken`,
`Deadline`, `Fetch` a `task_wait`.

**MapReduce.** `RunJob` is one step of `run_job`: start a round, take an answer,
end the round, reduce. `Break` makes an agent fail from then on.

**Processes.** `Tool` is a call that acts in its own process or, by `agent_id`,
in the one the relay picks; a tunnel start is asked, spawned and waited for in a
blocking thread (`Spawn`, `Opened`, `StartFails`); `Ends`, `Shutdown`, `Exit` are
the end of a process that handles signals, `Kill` that of one that does not.

**Executor.** A command is told by what its arm of `execute` asks of the mode.
`Gate` reads the file and decides; `RunJob` is the command; `SetFile` and
`SetMemory` are the two writes of `set_mode`; `Notice` is the info update to the relay.

**Shell.** The child is one of a few programs that differ in when they read and
write; `Feed` and `ReadLine` are the two tasks of `exec_with_stdin`, `Waited`,
`Return` and `Timeout` the select over the child and the deadline. A process the
child leaves `behind` may hold its output open.

**SessionIndex.** Each search thread is `BeginRefresh` (stale or not), `Scan`, `Keep`,
`Collect`, `Apply`, `Clear`: the locks it takes one at a time. `Extend` is a
transcript (`Chat`) that grows, `TaskEnded` the end of a task that marks the index
stale. A scan shows what the providers' readers show: every file of a directory
(`GrownListed`), what a CLI printed before its deadline (`ExportsListed`), the rows
of a database up to an error (`RowsListed`), and files that are rewritten as a whole
and dated by their creation (`DatedListed`).

**TempScript.** Commands of one process that are too long for `cmd /C`, or that
get input, go through a script file: `Create`, `Write`, `Read` by the child that was
started, `Remove` when it ended. Which file a command uses is what the code
names it after.

**Wire.** `Forward`, `Execute`, `Announce`, `Joined`, `Pass`, `Reply` are one hop
each: decode with the version of the build there, then what it does with an
absent value.

## 3. Runs and bounds

Eight runs pass; four must find the violation section 5 describes. Sizes are
distinct states.

| run | instance | what it shows |
|---|---|---|
| `rooms` (927 000) | a peer and an observer with token t1, the same machine with token t2, one UDP channel, pings and events, a peer that may stop reading; machine a1 with two connections and a2 that come, read and go; queues of one frame | `RoomGate`, `NoCrossTalk`, `RoomsCollected`, `AnswerRouting`; `QuietRoster` |
| `commands` (826 000) | two connections of one machine, an observer and a connection without the server token, one request, pings, events and updates, write errors and peers that stop reading, queues of one frame; every agent has the one capability record, so that a command may go to any agent it names (`requests` varies the capabilities) | `NoDanglingPending`, `ReplyRouting` |
| `requests` (1.1 million) | two messages of two fragments with a window of one and room to reassemble one; a shell command of three lines; two search threads over a session a CLI exports, and over one that is rewritten as a whole, a thread over one of each of the other kinds; the Durable Object's room with an agent and an observer that ask each other, and with three sockets of two ids that may die; target choice in every room of three connections over two machines, every capability, every order; a command through a relay to two agents, each build old or new | `WindowBound`, `NotLost`, `RedeliveryNeedsAll`; `NoPipeDeadlock`; `AnnouncedIsFound`; `ResultReturns`; `NoFlicker`, `DeadForgotten`; `Resolved`; `OnlyNamed` |
| `connections` (54 500) | two processes, a tunnel and a transfer; two ends that dial each other, two channels; a controller with a queue of two; an agent with two events and two cuts; the relay's end: a peer that may stop reading and an observer | `KnownHere`, `NoneLinger`; `ReadersApart`, `ModesAgree`; `Recovers`; `Returns`, `EventsArrive`; `ZombieReaped` |
| `work` (171 000) | one watched task, two waits, a crash; jobs of up to four items on two agents; one order to an MCP node; two senders over a window of 1 to 2, once with either end closing and once with sends that fail | `EventMeansResult`, `ReminderCancelled`, `NoLostWakeup`; `ReducesAll`; `OrdersAnswered`; `PacedEnds` |
| `hosts` (1.9 million) | three calls to an agent and an MCP node, with an oversized command and an oversized result; two sessions with two commands; two orders to two nodes; a sync of two paths with every option | `ExecutedOnce`, `CollectorsReleased`; `ModeShared`; `BlamedForAReason`; `Mirrors` |
| `scheduler` (255 000) | one process, a task added, replaced and removed, three instants, one crash, failing statements | `OncePerOccurrence`, `EveryOccurrenceFires` |
| `transfer` (282 000) | two transfers of a file of three blocks that another process may shorten once, a window of two, a longer file at the destination | `FailsForAReason`, `ImplementsFileCopy` |
| `split`, `offline`, `index`, `scripts` | smallest instances | the counterexamples of section 5 |

`requests`, `connections`, `work` and `hosts` are *sums*: components
that share no state, of which the constant variable `part` picks one in the
initial state, while the variables of the others stay as they start. A behaviour
of the sum is a behaviour of one component, every property is stated for its own
part, and nothing is hidden: the state space is the disjoint union of the
components' own. The components are extended, so that the theorems of section 6
are about what the runs check; what would be defined twice (`MapReduce`,
`Sourcing` and `UdpChannel` beside `Tasks`, the links and the relay in
`connections`) is an instance over variables of its own. `rooms` has two parts of
the one module `RelayPeers`: connections that talk, whose rosters are left alone,
and machines that only come and go.

Symmetry is used where no liveness is checked, between values that the
component's constants do not tell apart: the two connections of a machine
(`commands`, `rooms`), two messages, two threads, two sockets of one id and two
agents a command names (`requests`), two commands (`hosts`). A permutation of
one part's values is the identity on the states of the others. The rooms of the
target choice are those in which `c1` and `c2` belong to `h1`: two of three
connections share a machine, and names do not matter.

Why the bounds are enough. *Sessions*: a Room needs a holder, a leaver and a
newcomer for every collection race, so three; a second token group needs one
more role, which the third session plays. *Queues of one frame* make every drop
happen, of roster frames too: `missed` says whom one never reached, since the
relay does not repeat it. *One request or
channel*: entries of different ids do not interact (`pending` and `udp_offers`
are keyed by it). *Routing*: ties, merges and replaced representatives need
three connections of one machine at most; a second machine shows that machines
do not interfere. *WorkerRoom*: two sockets of one id and one of another are the
least for an id that is announced as gone too early or never. *Scheduler*: two
due instants and one between them give a baseline before, at and after an
occurrence; a second crash repeats the first from a state already reached.
*UDP*: two senders and a window of one are the least that overshoot (`work` has
a window that moves between one and two); two fragments and one reassembly slot
the least that evict. `MaxRetx`, `DupAck` and `MaxPartial` are small so that
they are reached; the code's constants are 16, 3 and 256, and no action depends
on the difference. `MaxPackets` and `MaxTime` bound the sequence numbers and the
clock: the senders of the instance need no more than `MaxPackets`, and at
`MaxTime` the clock stops and no file is written any more. *Dispatch*: calls
share nothing but the room, so the run constrains it to one call at a time
(`OneCall`), any of the three. *Transfer*: three blocks give two slices in
flight and a last one, so that slices pass each other and the last one has
others to wait for; a second transfer meets the first one's late slices; a
longer old file needs truncation. `MaxEdits` is one, since a second edit only
makes another mixture. *Sourcing*: two orders in opposite directions give two
nodes that wait for each other, with one long command, one mode change and one
lost frame. *SyncDir*: one path that is synced and one that is excluded, with
two contents of one size, so that time alone must tell them apart. *Queues of
one or two* in the connection loops: what matters is full or not. *Punch*: two
channels are the least for a glare and an attempt that an offer overwrites.
*MapReduce*: four items on up to four workers give every remainder of
`partition`, two agents one that fails and one that does not. *Processes*: one
process that handles signals and one that does not. *SessionIndex*: two threads
race; one session that may grow twice has a version before, during and after a
refresh; two sessions in one list show that one that is missed or left over does
not take the other with it. *TempScript*: two commands with input or without
race for one file; a third shows that the kinds do not meet.

`CHECK_DEADLOCK` is off only in `requests`, `connections`, `work`, `hosts`,
`index` and `scripts`, where components that come to their end (a command that
returned, a job that is done) really stop. In the other runs a deadlock before
the end would be reported: `Relay` and `Transfer` stutter explicitly once every
connection or transfer has ended.

Each property of a passing run has a mutant: a definition of the module preceded
by a variant (marked `Mutant`) with a plausible bug, under which the same run
refutes the property.

Modules also state properties that no listed run checks. Most are theorems for
any instance (section 6): `Counted`, `RetryBound`, `StrayRunsOnce`, `Mirrored`,
`LiveKept`, `WritesAllowed`, `ExcludedKept`, `NotResent`, `RequestsReleased`,
`RefusedLeavesNothing`, `NoModeMadeUp`, `WholeOutput`, `NoneLeft`,
`RecordedIsIndexed` and most type invariants. These hold on the same instances:
`WokenByList`, `RetriesBounded`, `Ends`, `SetterShown` (with one `SetMode`),
`SendsOnlyNews` and the other type invariants. These state what a comment says and
the code does not keep, see section 5: `HealthNotices`, `FleetAnswered`,
`PunchedAlone`, `NotHalfOpen`, `NeighboursKnown`, `UpcomingOnly`,
`SilentIsSilent`, `QuickCheckMirrors`, `MismatchIsAMismatch`,
`ResultAlwaysReturns`.

## 4. Fairness

* `Relay`: weak fairness of the joining steps after registration, of clean-up, of
  the writer's time-out and of the reader's reaction to a finished writer. Tokio
  polls every ready task, `timeout` around each write fires, and `select!` in the
  reader loop polls the writer's handle. Peers owe nothing: they may stop
  reading, keep pinging and never close.
* `Scheduler`: weak fairness of the run loop of a live process: its ticker fires
  every second and a command is killed after 300 s. Calls may stop half way,
  the clock may stop, a dead process may stay dead.
* `UdpChannel`: weak fairness of the sending calls, of the window update that
  follows an acknowledgment and of the RTO of a packet that stays pending. Nothing
  is assumed of the network or of the other end: every packet may be lost.
* `Transfer`: weak fairness of the sending task. Tokio runs it, its file reads
  return and the 60 s timer of each slice fires. The network and the receiver owe
  nothing, and the next transfer need not start. The refinement shows that this
  is enough for the fairness `FileCopy` states.
* `Punch`: weak fairness of the tasks, of the signals that are in transit (they
  may be lost instead), of the deadlines of attempts and handshakes, and of the
  idle time-out of a connection without its other end.
* `Supervisor`: weak fairness of its task and of the branch that reads. The relay
  may go and come back for ever; the property asks for a relay that stays.
* `AgentLoop`: weak fairness of the tasks, strong fairness of `Dial`, of the
  health tick and of taking an event: `select!` polls its branches in random
  order, so a branch that is ready again and again is taken, and a dial to a
  relay that stays reachable succeeds. A writer whose peer is gone dies.
* `Tasks`: weak fairness of the receive task and of the waits. Deadlines, lost
  events and crashes may happen or not.
* `MapReduce`: weak fairness of the job: every dispatch returns, by its time-out
  at the latest. `Sourcing`: weak fairness of tasks, of loops that are not wedged
  and of the end of long commands.

The sums state the fairness of a part as that of its actions while `part` names
it: `part = "x" /\ A`, over the part's own variables or over all of them with the
others unchanged. Each formula is then the part's own, and true of the others.

## 5. Where the code and its comments disagree

Each of these is a run that must find a violation; `findings` quotes the lines.

* `split` - a connection looks its Room up, awaits the write of AuthOk and
  registers only then. If the last other member leaves in between, `gc_room`
  drops the still-empty Room from the map, the connection registers in the
  orphan, and the next connection of the same key gets a new Room: two live
  rooms under one key that never see each other.
* `offline` - the supervisor is the only reader of its bounded outgoing queue,
  pings and commands fill it while the relay is away, and after the reconnect the
  supervisor waits to put one more frame into it, for good.
* `index` - a session that one scan misses loses its documents but keeps its
  fingerprint; it is not indexed again while its transcript does not grow.
* `scripts` - on Windows a long command is written to a batch file named after the
  *process* (`executor/shell.rs:175`), so two such commands at once share it: one
  rewrites or removes the script between the other's write and its child's read,
  and the child runs the other's command or nothing. Commands with input have
  files of their own, and one command of each kind at a time is safe.

Stated in the modules and refuted when checked on the instances of section 3:
rosters after overlapping membership changes (`NeighboursKnown`,
`relay/handler.rs:201`); a replaced schedule that fires for the past
(`UpcomingOnly`, `scheduler.rs:80`); an agent loop that waits for itself
(`HealthNotices`, `connection.rs:446`); receive loops that take the packets of a
crossing punch (`PunchedAlone`, `relay_udp.rs:246`) and channels with nobody at
the other end (`NotHalfOpen`); fleets that count a machine twice
(`FleetAnswered`, `connection.rs:727`); a destination called silent that has
answered (`SilentIsSilent`, `relay_controller.rs:906-918` against its comment at
881); a copy or an edit that the quick check takes for equal
(`QuickCheckMirrors`, `sync.rs:27-38`); a newer command reported as a key
mismatch (`MismatchIsAMismatch`, `connection.rs:453`); results of a peer that are
lost when the Durable Object slept (`ResultAlwaysReturns`, `room.ts:145-147`).

Seen while reading, without a property:

* Relay. `routing.rs:101-102` says that single-agent and broadcast "never route
  one id to different sockets", but they do on equal rank and when a send-only
  autonomous connection outranks the executing one (`SameSocketWhenRanked` excepts
  these two cases and no other). `TaskCompleted` goes to observers only
  (`handler.rs:322`), though a controller with an identity is a peer. Replies are
  collected by name, not by key (`handler.rs:95`). The repository's
  `README.md:133-136` says that two processes with one id "evict each other"; the
  relay keys connections by session and keeps both.
* Worker. An unknown target is treated as All (`wire.ts:202-216` against 4-5); the
  pending map is never pruned (`room.ts:145`).
* Agents and controllers. An agent ends for good on a relay's graceful Close
  (`connection.rs:332-343`). `disconnect` leaves a supervisor that dials again
  (`relay_controller.rs:373`). A dropped `dispatch` future leaves its collector.
  `list_agents` may be woken by an older list. A mode set over UDP on an MCP node
  is not announced (1374-1393 against 1590-1599). `GetInfo` always answers with no
  session, so a transfer that was pre-flighted never goes direct.
* Direct path. A send that fails after it was tracked is still retransmitted while
  dispatch falls back, and a one-packet command whose acknowledgment is lost is
  delivered again: both execute twice (`ExecutedOnce` excepts what was repeated on
  the way). The receive loop stops acknowledging when its channel of 64 is full
  (`udp_channel.rs:714`); sequence numbers are compared without wrapping (775).
* Transfers. The comment at `transfer.rs:100-104` says that a slice at offset 0
  truncates the file; only the last one does. Sources are not gated by mode.
* Tasks. A watch registered after its event leaves a reminder that is never
  cancelled (`relay_api.rs:569-572`), and so does a cancellation that is lost, which
  nobody sends again (`relay_controller.rs:1689-1706`; `ReminderCancelled` excepts
  both, as `stranded`).
  The final UPDATE's error is ignored (`autonomous.rs:287`), and rows that were
  queued or running at a crash stay so (52).
* Scheduler. Two processes that loaded one task both run an occurrence
  (`scheduler.rs:204`).
* Processes. A `tunnel_stop` or `transfer_get` by `agent_id` may reach another
  process of the machine. An MCP server handles no SIGTERM, so its tunnels linger
  (`tunnel.rs:109-110`).
* Executor. A process left in the background that holds the output open makes a
  finished command report a time-out (`shell.rs:118`); a line that is not UTF-8
  ends the reader.
* Index. `STALE` is cleared though it may have been set during the refresh
  (`session_index.rs:214`). A session of continue is dated by its creation
  (`sessions.rs:1566`), while `session_index.rs:246` relies on a change that moves
  the date: what it grows by is never indexed (`AnnouncedIsFound` asks of `Dated`
  sessions only that they are found).

## 6. Proofs

A theorem holds for every value of the constants the named assumptions of its
module admit, for any interleaving, and with no bound that the code does not have:
where a module caps a counter (`MaxPackets`, `MaxTime`, `MaxEdits`, `MaxMoves`,
`MaxCrashes`, `MaxSets`, `MaxChannels`, `MaxVersion`) the theorem is for every cap.
The assumptions are `ASSUME`s of the components, which TLC evaluates on the runs;
where a theorem has a hypothesis of its own, it is named below. A component's
theorems follow from an inductive invariant, built in layers, with a lemma that it is
kept with a step per action; TLC checked the harder of these invariants on an
instance before they were proved.

**`RelayProofs`** (`Relay`, `RelayPeers`), for any sessions, tokens, requests and
queue capacity:

* `TypeCorrect`, `RoomGateHolds`, `NoCrossTalkHolds` - from one inductive
  invariant. `TypeOK` alone is not inductive: that a task past `Authenticate`
  holds a Room is `Placed`, that a Room's members are exactly sessions that hold
  it is `MembersPlaced`; their conjunction with `TypeOK` is `Shape`. `Keyed` adds
  that a Room found under a key, held by a task or occupied by a member was
  created for that key. A frame's recipients are always members of the sender's
  Room, whence `NoCrossTalk`.
* `NoDanglingPendingHolds` - `PendingOwned`: an in-flight entry of a Room is
  owned by a session that holds that Room and has not passed `LeaveRetain`. It is
  about the Room value and not the map, so it survives collection.
* `RoomsCollectedHolds` - `RoomsHeld`: every Room in the map is held by a
  session that has not finished its clean-up, or whose AuthOk could not be
  written. The last member's clean-up finds an empty Room under its own key
  (`Keyed`) and drops it; a Room it does not drop has a member, who holds it.
* `AnswerRoutingHolds` - `OffersIssued`: the session a Room's table names for a
  channel is the one that made the offer. An answer is queued for that session
  or, without an entry, for observers.
* `ReplyRoutingHolds` - `PendingIssued`: the session a Room's table names for a
  request is the one that issued it. That does not yet say that a missing entry
  means a departed issuer; for this `Traced` follows a request from its command
  frame (`QueuedTraced`) to the machine it was written to (`TakenTraced`): once it
  may be answered, its issuer's Room has the entry until the issuer's own
  clean-up. So a reply without an entry goes to observers only when its issuer
  is gone. Both routing theorems are action properties, and rest on a lemma that
  says which handler put a new frame into which queue (`NewFrameMade`).

* `QuietRosterHolds` - `RelayPeers` takes only steps of `Relay` or none, so `Shape`
  holds of it too. `Rosters` says what a peer *will* know: `Learns` looks for the last
  frame in its queue that speaks of a machine and, without one, into its roster.
  Absorbing a frame does not change that (`LearnsAbsorbed`), queuing one does as the
  frame says (`SendTells`). For a peer that was sent its list and reads, in a Room
  whose changes did not overlap, what it will know of a machine that is not just coming
  or going is whether it is there, and a machine that may be going is still known
  (`WillKnow`); the list a newcomer is about to be sent is exact (`ListExact`), a
  machine that is about to be said to have left has no connection (`LeftIsGone`), and
  nobody is told of itself (`NotItself`). Each of the six steps of a join or a
  departure has a lemma; every other step leaves all of it aside (`Aside`).

**`RequestsProofs`** (`WorkerRoom`, `Wire`, `RoutingLoops`, `Shell`,
`SessionIndex`). Of the Durable Object's room, for any sockets, ids and requests
(`RoomAssumption`: each socket authenticates as an id or as none):

* `ListsHold` (`NoFlicker`) - inductive once `Attached` is known: a socket has
  its id from its authentication to its end. An event that takes an id off a list
  (`Close`, `Closed`, `Alarm`) has looked whether another socket holds it.
* `DeadReaped` (`DeadForgotten`) - `Watched`: while there are sockets an alarm is
  set, and the rounds until it comes plus the age of any socket that has an id
  stay below `Oldest`. The proof needs that the alarm sets the next one while
  sockets are left, whatever it reaped.
* `PingingKept` (`LiveKept`) - `Fresh`: the attachment of a socket whose client
  pings is of this round.
* `ResultsReturn` (`ResultReturns`) - `IssuersKnown`: the issuer of a request an agent
  is at work on is in the map, was in it before a hibernation, or is gone.

Of the wire, for any agents and any mixture of builds:

* `OnlyNamedHolds`, for the Rust relay (the worker takes an unknown target for All,
  section 5) - `Addressed`: what is forwarded is the command that was issued, at an
  agent its target names.
* `NoModeMadeUpHolds`, for either relay - `Announced`: a mode on its way to a roster
  was announced by its agent or is the least powerful.

Of the loops that choose targets, for any connections, machines, capabilities and
orders of the map:

* `ResolvedHolds` - the loop invariant `Scanned`: after any prefix of the scan each
  accumulator is what the target definition of `Routing` says of the connections seen
  so far (`Highest`, `Merged`). No induction over the order is needed, since a step of
  the model is an iteration; that ranks are a total preorder is proved first.

Of one shell command, for any pipes, input and output:

* `NoPipeDeadlockHolds`, `WholeOutputHolds`, `NoneLeftHolds` - `ShellInv`: lines are
  conserved from the writer through the child to the buffer (`Flow`, `Captures`), who
  waits for a task waits for one that ends (`Deadline`), and a call that can do nothing
  but wait for its deadline has a child that hangs or left a holder of its output
  (`Blamed`).

Of the index, for any sessions, providers and threads:

* `RecordedIsIndexedHolds`, `AnnouncedIsFoundHolds` - `IndexInv`: a list that a thread
  or the cache holds was read since the last announcement nothing overlapped (`Shows`);
  what a thread takes to the writer was fetched after it was listed, and a pass that
  tried everything leaves no announced session behind (`Complete`); hence the flag is
  cleared only when the manifest has caught up (`CaughtUp`).

**`UdpChannelProofs`**, for any messages, fragments, window bounds and thresholds:

* `TypeCorrect` - `Shape`: `TypeOK`, plus that a call between claim and send holds
  a sequence number that carries a packet (`Claimed`) and that whatever
  is pending or was sent carries a packet (`Carried`).
* `WindowBoundHolds` - with n concurrent calls at most `MaxCwnd + n - 1` packets
  are pending. The invariant is `Room`: packets pending plus calls that have
  passed the window check but not registered are at most that number; passing
  the check needs `|pending| < cwnd` while at most n - 1 *others* have passed.
* `NotLostHolds`, `RedeliveryHolds` - two layers. `Packing`: no two sequence
  numbers carry one fragment, and a call has packed exactly the fragments before
  the one it is at. `Delivery`: a claimed packet awaits its registration or is
  pending, abandoned or acknowledged (`Tracked`); an acknowledged one has arrived
  (`Received`); the reassembler never holds all fragments of a message
  (`Partial`); and one that arrived is held, or its message was delivered or
  evicted, as often as it arrived (`Accounted`). A call that returned Ok has packed
  all its fragments, so if none is pending or abandoned all have arrived, and the
  message was delivered or evicted. A message delivered twice had each fragment
  arrive twice.
* `RetryBoundHolds` - a packet is sent at most `MaxRetx + 1` times again: a fast
  retransmission happens once, in `fastRtx`, and counts.

**`TransferProofs`**, for any files, transfers and window:

* `TypeCorrect` - the window bound included, which needs that windows are finite.
* `FailsForAReasonHolds` - from the invariant `Inv`, in three layers. `Sound`: there
  is one slice per offset, the last one is read last, and an acknowledgment is of a
  slice that is awaited. `Landing`: while no other transfer writes to the
  destination, a slice that is acknowledged is in the file, the last one is handled
  when all others are, and once it is acknowledged the file is the one that was
  hashed and no slice still on its way changes it. `Reasons`: what a failure was
  caused by. A late or repeated slice rewrites what is there already; that is the
  heart of the proof.
* `CopiesFiles` - the refinement, step by step: every initial state is one of
  `FileCopy`, and every step is a step of it or a stutter. `FileCopy` also states
  that transfers end (`Ends`), a consequence of fairness, so the theorem is that
  `Transfer` implements `FileCopy` if they do; that they do is TLC's part
  (`ImplementsFileCopy` of the run `transfer`).

**`SchedulerProofs`**, for any tasks, calls, occurrences and crashes:

* `TypeCorrect`, for any number of processes.
* `OncePerOccurrenceHolds`, under `OneProcess` (two processes do repeat
  occurrences, section 5) - `Remembered`: the firings of a definition in memory are
  remembered by its baseline (`Covered`), and where that is gone, because a
  `remove` is about to drop it or dropped the one of a successor, by the last run,
  unless that is being recorded; what a tick collected is one firing per name and
  later than all firings before (`Collected`).
* `StrayRunsOnceHolds` - a definition that was removed or replaced runs at most
  once more.
* `MirroredHolds` - where no two operations on a name overlapped, memory and file
  agree on it. `Mirrors` says what a single operation has written so far.

**`HostsProofs`** (`Dispatch`, `Executor`, `SyncDir`). Of calls, for any agents and
calls (`DispatchAssumption`: a call addresses agents, and these are finitely many):

* `TypeCorrect`, and `CollectorsReleasedHolds`: a collector is there exactly while
  the call is under way, or its future was dropped.
* `ExecutedOnceHolds` - `Once`: a call whose command was not repeated on the way is
  sent on one path, at most one order per agent is on its way, and only to an agent
  that has not executed it.
* `CountedHolds` - `EachOnce`: the replies in a collector, read or not, and those on
  their way come from different machines, each of which has executed the call; so a
  broadcast that ended by itself had answers of as many machines as it counted.

Of the mode gate, for any sessions and commands:

* `ModeSharedHolds`, an action property - `Stored`: while no `SetMode` is under way the
  mode file holds what was set last, and one that has written the file finds its own
  mode there unless another one mixed in.
* `WritesAllowedHolds` - `Current`: a command has seen every mode in force since it
  arrived.

Of a sync, for any paths, contents and options:

* `MirrorsHolds` - `Sound`: the quick check errs about risky paths only
  (`QuickIsRight`), what was walked is there still unless it changed (`Walked`), and a
  path that is neither planned nor changed is as it should be (`Planned`). It needs the
  types and that no file is dated after the clock (`SyncTypeCorrect`).
* `ExcludedKeptHolds`, `NotResentHolds`, action properties - `Spared`: nothing excluded
  is planned or copied; `Settling`: a path that was copied and not written since passes
  either check.

**`WorkProofs`** (`Tasks`, `Sourcing`). Of watched tasks, for any tasks and waits
(`TasksAssumption`):

* `TypeCorrect` - the number of notifications is that of recorded events
  (`Notified`), hence bounded.
* `EventMeansResultHolds` - `Announced` follows the one event of a task from its
  send to its record, `Fetched` relates what a wait read to the row, which does not
  change once an event was announced.
* `ReminderCancelledHolds` - `Watched`: a task that still has its reminder keeps
  its watch or its cancellation unless it is `stranded`, or the event that found the
  watch is in work.

Of orders to send a file, for any nodes, orders and losses (`SourcingAssumption`):

* `BlamedForAReasonHolds` - inductive with `LoopsFree`, that no read loop is held by an
  order itself. A request that times out has a cause (`CausesFound`): it or its answer
  was lost, or whoever has it to read is wedged or runs another command.
* `RefusedLeavesNothingHolds`, `RequestsReleasedHolds` - `Staged`: what was said of an
  order, what it stored and whether it waits follow from the stage it is in. That each
  stage is entered once rests on `OrderedOnce`: an unread order is in one queue, once.

**`ConnectionsProofs`** (`Processes`, `Punch`). Of the processes of a machine, for any
processes, calls and tunnels:

* `Invariance` - `IInv`: `TypeOK`; `Kept`, a child that lives is waited for, is
  registered in the process it was started in, or that process was killed;
  `Awaited`, a start that waits has a process that has not ended; `ActedHere`, a
  tool without `agent_id` acted in its own process; `Emptied`, a process that
  ended has nothing registered.
* `KnownHereHolds` follows from `ActedHere` and `Kept`, `NoneLingerHolds` from
  `Kept`, `Awaited` and `Emptied`: the end of a process waits for the blocking
  threads of its starts, and so meets each child either in the store or in a
  thread that kills it.

Of hole punching, for any number of channels:

* `ReadersApartHolds`, under the hypothesis that whoever dials keeps the channel it has
  (`Dialer \subseteq Idempotent`, what controllers do and the run has): `OneOffer`, as
  long as only one end dialed there is one channel at most, which that end keeps;
  `OncePunched`, each end starts to punch for it once, and its loops start when that
  task has ended. Two agents that dial again do take each other's packets (section 5).

Only model-checked: liveness under fairness (`ZombieReaped`, `PacedEnds`,
`EveryOccurrenceFires`, `Recovers`, `Returns`, `EventsArrive`, `ModesAgree`,
`NoLostWakeup`, `OrdersAnswered`, the `Ends` of `ImplementsFileCopy`), which is out
of the prover's reach; and `ReducesAll`, whose partition and reduction are sequences
computed by recursion over data.

## 7. Abstractions

* `room_key` (SHA-256 over name and token) is injective; names, tokens, ids are
  model values; encryption succeeds with the right key and fails with another
  (`Wire`), frame contents and sizes are left out but for the relay's frame limit
  (`Dispatch`).
* Request and channel ids are uuids: each is issued once (`issuer`).
* The idle time-out, Close, end of stream and socket errors end the reader loop
  in one action, since the clean-up is the same.
* Tag and OS targets compare one label; `connected_at` is a number that a peer
  announces; ties are possible.
* A cron expression is the set of instants at which it occurs; a command that is
  run is its start and its end.
* Sequence numbers do not wrap; RTT estimation is replaced by an RTO that may
  have elapsed at any tick; an unreliable or keep-alive packet has no effect on
  the modelled state and is left out.
* A slice is one block and the hash of a file is its content. Which transport
  carries a slice, the refusal of writes by mode, path or size, and a failing
  disk are a slice that is delivered or not, and a refusal at any time.
* In `SyncDir` both hosts read one clock, and no edit is dated back.
* In `Punch` a probe that is sent to an object that reads arrives or not; nonce
  and addresses stand for the object they name. The wait of `handle_offer` for STUN
  is part of its offer's way. `close_channel` and `close_all` have no callers outside
  the tests (`relay_udp.rs:336-351`, `udp_transport.rs:302-319`).
* In `MapReduce` the map function is the identity, so that what is missing,
  doubled or out of order shows in the reduce's input.
* In `Shell` stdout and stderr are one pipe, and a line is clean or not UTF-8.
* In `SessionIndex` a transcript is how often it was extended, and a search asks
  for every session.
* In `WorkerRoom` frames are sent and received in order, so a broadcast changes
  its receivers' views at once.

## 8. Not modelled

* `relay/main.rs` and the relay's and worker's HTTP pages: argument parsing and
  pages that only read.
* Configuration and service installation (`config.rs`, `daemon.rs`,
  `install_mcp.rs`, `npm/`): files, environment variables and service managers.
* The safety policy beyond its mode: string classification without state.
* Byte encodings, compression, the cipher and STUN: pure functions on bytes or
  external services; unit and fuzz tests fit them better.
* The parsing of transcripts, session resume and terminate: I/O and formats of
  other programs. The file system and git arms of the executor: one system call
  or one child process each.
* The MCP and HTTP servers beyond the tools that start something: argument
  parsing, schemas and the wording of answers.
* UDP signalling and notifications inside the Durable Object's room: they are
  forwarded without state.
* Wrapping sequence numbers (`udp_channel.rs:775`), which takes 2^32 packets on
  one channel, and the full receive channel (714), which belongs to a
  composition of `UdpChannel` with `Dispatch`.

## 9. What is left

1. An abstract room (members, who may receive what) that `Relay` and `WorkerRoom`
   both implement.
2. `UdpChannel` below `Dispatch`, with a bounded receive channel.
3. Theorems: `Ends` of `Transfer` without its hypothesis and the other liveness
   properties need a prover for fairness; `ReducesAll` needs induction over
   sequences. `SendsOnlyNews` of `SyncDir` and the safety parts of `Supervisor`,
   `AgentLoop` and `TempScript` are within reach.
