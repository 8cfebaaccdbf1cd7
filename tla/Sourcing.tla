------------------------------ MODULE Sourcing ------------------------------
(***************************************************************************)
(* Starting a transfer: a node that is told SendFileTo or SyncDirTo checks  *)
(* the destination, mints a transfer id, answers with it and then sends its *)
(* own commands to the destination (begin_send_file, begin_sync_dir,        *)
(* preflight_dest, send_peer_command and send_file_slice in                 *)
(* crates/mcp-server/src/relay_controller.rs, and their copies in           *)
(* connection.rs).                                                          *)
(*                                                                         *)
(* An MCP node reads its connection in one loop and runs a command in that  *)
(* loop; a plain agent runs every command in a task of its own.  GetInfo    *)
(* answers with session_id None (executor/mod.rs), so a transfer whose      *)
(* destination was probed goes by the relay.  One slice stands for a file.  *)
(***************************************************************************)
EXTENDS Naturals, Sequences, FiniteSets

CONSTANTS
  McpNode, AgentNode,  \* the two kinds of node
  Order,               \* SendFileTo and SyncDirTo commands
  SourceOf(_), DestinationOf(_),
  MaxJobs,             \* how many commands that take long are sent
  MaxChanges,          \* how often a node's mode is set
  MaxLost              \* how many frames are lost

ASSUME SourcingAssumption ==
  /\ \A o \in Order : {SourceOf(o), DestinationOf(o)} \subseteq McpNode \cup AgentNode
  /\ {MaxJobs, MaxChanges, MaxLost} \subseteq Nat

VARIABLES
  mail,    \* what the relay has sent to each node
  loop,    \* its read loop: "idle", or runs "job" or the order of "order"
  wedged,  \* nodes whose loop has stopped for good, the socket still open
  gone,    \* nodes the relay no longer knows, though rosters may
  mode,    \* mode of each node
  cached,  \* the mode each node's roster has of every node
  stage,   \* where the task of an order is
  unsent,  \* commands it still has to send to the destination
  reply,   \* what the awaited request was answered with
  awaited, \* requests registered at the source
  answer,  \* what the issuer of the order was told
  store,   \* TransferStore: state of the order's transfer
  blame,   \* why the destination was said not to respond (ghost)
  used     \* bounds: jobs sent, modes set, frames lost

sourceVars == <<mail, loop, wedged, gone, mode, cached, stage, unsent, reply, awaited,
          answer, store, blame, used>>
world == <<wedged, gone, mode, cached>>
outcome == <<answer, store, blame>>

Node == McpNode \cup AgentNode
Modes == {"plan", "edit", "disabled"}
AllowsWrite(m) == m = "edit"
Work == {"manifest", "slice"}
Answers == Modes \cup {"ok", "error"}
Frame == [kind: {"job", "order", "probed", "worked", "probe"} \cup Work,
          order: Order, with: Answers]
Refusals == {"source", "unknown", "silent", "mode"}
Reasons == {"lost", "wedged", "destination busy", "source busy", "answered"}

SourceTypeOK ==
  /\ mail \in [Node -> Seq(Frame)]
  /\ loop \in [Node -> {"idle", "job", "order"}]
  /\ wedged \subseteq Node /\ gone \subseteq Node
  /\ mode \in [Node -> Modes]
  /\ cached \in [Node -> [Node -> Modes \cup {"absent"}]]
  /\ stage \in [Order -> {"new", "sent", "begin", "probing", "checked", "ready", "working", "over"}]
  /\ unsent \in [Order -> Seq(Work)]
  /\ reply \in [Order -> Answers \cup {"none"}]
  /\ awaited \subseteq Order
  /\ answer \in [Order -> {"none", "queued"} \cup Refusals]
  /\ store \in [Order -> {"none", "queued", "done", "failed"}]
  /\ blame \in [Order -> SUBSET Reasons]
  /\ used \in [jobs: 0..MaxJobs, changes: 0..MaxChanges, lost: 0..MaxLost]

SourceInit ==
  /\ mail = [n \in Node |-> <<>>] /\ loop = [n \in Node |-> "idle"]
  /\ wedged \in SUBSET {DestinationOf(o) : o \in Order}
  /\ gone = {}
  /\ mode \in [Node -> Modes \ {"disabled"}]
  /\ cached = [n \in Node |-> mode]
  /\ stage = [o \in Order |-> "new"]
  /\ unsent \in [Order -> {<<"slice">>, <<"manifest", "slice">>}]
  /\ reply = [o \in Order |-> "none"] /\ awaited = {}
  /\ answer = [o \in Order |-> "none"] /\ store = [o \in Order |-> "none"]
  /\ blame = [o \in Order |-> {}]
  /\ used = [jobs |-> 0, changes |-> 0, lost |-> 0]

Sent(kind, o, with) == [kind |-> kind, order |-> o, with |-> with]
Put(n, f) == mail' = [mail EXCEPT ![n] = Append(@, f)]
Step(o, p) == stage' = [stage EXCEPT ![o] = p]

----------------------------------------------------------------------------
(* The world: commands from controllers, modes, rosters, losses. *)

Tell(o) ==
  /\ stage[o] = "new" /\ SourceOf(o) \notin wedged \cup gone
  /\ Put(SourceOf(o), Sent("order", o, "ok"))
  /\ Step(o, "sent")
  /\ UNCHANGED <<loop, world, unsent, reply, awaited, outcome, used>>

Occupy(n, o) ==
  /\ used.jobs < MaxJobs /\ n \in McpNode
  /\ used' = [used EXCEPT !.jobs = @ + 1]
  /\ Put(n, Sent("job", o, "ok"))
  /\ UNCHANGED <<loop, world, stage, unsent, reply, awaited, outcome>>

SetMode(n, m) ==
  /\ used.changes < MaxChanges /\ m # mode[n] /\ mode[n] # "disabled"
  /\ used' = [used EXCEPT !.changes = @ + 1]
  /\ mode' = [mode EXCEPT ![n] = m]
  /\ UNCHANGED <<mail, loop, wedged, gone, cached, stage, unsent, reply, awaited, outcome>>

(* AgentJoined and AgentLeft reach a roster later than they happen. *)
Refresh(n, d) ==
  /\ cached' = [cached EXCEPT ![n][d] = IF d \in gone THEN "absent" ELSE mode[d]]
  /\ cached' # cached
  /\ UNCHANGED <<mail, loop, wedged, gone, mode, stage, unsent, reply, awaited, outcome, used>>

Leave(n) ==
  /\ used.changes < MaxChanges /\ n \notin gone
  /\ \A o \in Order : SourceOf(o) = n => stage[o] \in {"new", "over"}
  /\ used' = [used EXCEPT !.changes = @ + 1]
  /\ gone' = gone \cup {n}
  /\ mail' = [mail EXCEPT ![n] = <<>>]
  /\ UNCHANGED <<loop, wedged, mode, cached, stage, unsent, reply, awaited, outcome>>

LoseFrame(n) ==
  /\ used.lost < MaxLost /\ mail[n] # <<>> /\ Head(mail[n]).kind # "order"
  /\ used' = [used EXCEPT !.lost = @ + 1]
  /\ mail' = [mail EXCEPT ![n] = Tail(@)]
  /\ UNCHANGED <<loop, world, stage, unsent, reply, awaited, outcome>>

----------------------------------------------------------------------------
(* The read loops. *)

(* A bug: the loop waits for the order it started. *)
OrderInline == "order"

(* An order is handed to a task, which answers by itself. *)
OrderRuns == "idle"

(* What a node does with the next frame: how its loop goes on, and what it *)
(* sends back. *)
ReadNext(n) ==
  LET f == Head(mail[n])
      o == f.order
      rest == [mail EXCEPT ![n] = Tail(@)]
      Back(kind, with) ==
        mail' = [rest EXCEPT ![SourceOf(o)] = Append(@, Sent(kind, o, with))]
      Take == mail' = rest
  IN
  /\ mail[n] # <<>> /\ loop[n] = "idle" /\ n \notin wedged
  /\ \/ /\ f.kind = "order" /\ Take
        /\ Step(o, "begin")
        /\ loop' = [loop EXCEPT ![n] = IF n \in McpNode THEN OrderRuns ELSE "idle"]
        /\ UNCHANGED <<reply, awaited>>
     \/ /\ f.kind = "job" /\ Take
        /\ loop' = [loop EXCEPT ![n] = "job"]
        /\ UNCHANGED <<stage, reply, awaited>>
     \/ /\ f.kind = "probe"
        /\ Back("probed", IF mode[n] = "disabled" THEN "error" ELSE mode[n])
        /\ UNCHANGED <<loop, stage, reply, awaited>>
     \/ /\ f.kind \in Work
        /\ Back("worked", IF \/ mode[n] = "disabled"
                             \/ f.kind = "slice" /\ ~AllowsWrite(mode[n])
                          THEN "error" ELSE "ok")
        /\ UNCHANGED <<loop, stage, reply, awaited>>
     \/ /\ f.kind \in {"probed", "worked"} /\ Take
        /\ reply' = IF o \in awaited THEN [reply EXCEPT ![o] = f.with] ELSE reply
        /\ awaited' = IF n \in AgentNode THEN awaited \ {o} ELSE awaited
        /\ UNCHANGED <<loop, stage>>
  /\ UNCHANGED <<world, unsent, outcome, used>>

JobEnds(n) ==
  /\ loop[n] = "job"
  /\ loop' = [loop EXCEPT ![n] = "idle"]
  /\ UNCHANGED <<mail, world, stage, unsent, reply, awaited, outcome, used>>

----------------------------------------------------------------------------
(* The task of an order. *)

(* A request leaves through the relay, which answers for a node it does not *)
(* know. *)
SendRequest(o, kind) ==
  LET d == DestinationOf(o) IN
  /\ awaited' = awaited \cup {o}
  /\ reply' = [reply EXCEPT ![o] = "none"]
  /\ IF d \in gone
     THEN Put(SourceOf(o), Sent(IF kind = "probe" THEN "probed" ELSE "worked", o, "error"))
     ELSE Put(d, Sent(kind, o, "ok"))

(* The order is answered: an error, or the id of a transfer. *)
Released(o) == [loop EXCEPT ![SourceOf(o)] = IF @ = "order" THEN "idle" ELSE @]

RefuseOrder(o, why, reason) ==
  /\ Step(o, "over")
  /\ answer' = [answer EXCEPT ![o] = why]
  /\ blame' = [blame EXCEPT ![o] = reason]
  /\ loop' = Released(o)
  /\ UNCHANGED <<mail, store>>

Mint(o) ==
  /\ Step(o, "ready")
  /\ store' = [store EXCEPT ![o] = "queued"]
  /\ answer' = [answer EXCEPT ![o] = "queued"]
  /\ loop' = Released(o)
  /\ UNCHANGED <<mail, blame>>

(* The roster has the destination; an agent also believes the roster when   *)
(* it says that the destination allows writes. *)
BeginOrder(o) ==
  LET n == SourceOf(o)
      seen == cached[n][DestinationOf(o)] IN
  /\ stage[o] = "begin"
  /\ \/ RefuseOrder(o, "source", {}) /\ UNCHANGED <<reply, awaited>>
     \/ seen = "absent" /\ RefuseOrder(o, "unknown", {}) /\ UNCHANGED <<reply, awaited>>
     \/ /\ n \in AgentNode /\ AllowsWrite(seen)
        /\ Mint(o) /\ UNCHANGED <<reply, awaited>>
     \/ /\ seen # "absent" /\ ~(n \in AgentNode /\ AllowsWrite(seen))
        /\ SendRequest(o, "probe") /\ Step(o, "probing")
        /\ UNCHANGED <<loop, outcome>>
  /\ UNCHANGED <<world, unsent, used>>

(* The probe is over: any error counts as silence on an MCP node, and sends *)
(* an agent back to its roster. *)
Fails(o, reason) ==
  IF SourceOf(o) \in McpNode THEN RefuseOrder(o, "silent", reason) ELSE RefuseOrder(o, "mode", {})

Probed(o) ==
  /\ stage[o] = "probing" /\ reply[o] # "none"
  /\ awaited' = awaited \ {o}
  /\ \/ reply[o] = "error" /\ Fails(o, {"answered"})
     \/ reply[o] \in Modes /\ ~AllowsWrite(reply[o]) /\ RefuseOrder(o, "mode", {})
     \/ reply[o] \in Modes /\ AllowsWrite(reply[o]) /\ Mint(o)
  /\ UNCHANGED <<world, unsent, reply, used>>

(* Where the request or its reply waits: at a node, or nowhere. *)
Carries(n, o) == \E i \in DOMAIN mail[n] : mail[n][i].order = o /\ mail[n][i].kind # "job"
Holders(o) == {n \in Node : Carries(n, o)}
Hindered(n) == n \in wedged \/ loop[n] # "idle"

Causes(o) ==
  (IF Holders(o) = {} THEN {"lost"} ELSE {})
  \cup (IF Holders(o) \cap wedged # {} THEN {"wedged"} ELSE {})
  \cup {IF n = SourceOf(o) THEN "source busy" ELSE "destination busy" :
          n \in {h \in Holders(o) : loop[h] = "job"}}

(* A bug: a request waits for as long as the destination is connected. *)
TimesOutIfLost(o) ==
  /\ reply[o] = "none"
  /\ Holders(o) = {}

(* PROBE_TIMEOUT and COMMAND_TIMEOUT leave time for a loop that is not held *)
(* up. *)
TimesOut(o) ==
  /\ reply[o] = "none"
  /\ \A n \in Holders(o) : Hindered(n)

ProbeTimesOut(o) ==
  /\ stage[o] = "probing" /\ TimesOut(o)
  /\ awaited' = awaited \ {o}
  /\ Fails(o, Causes(o))
  /\ UNCHANGED <<world, unsent, reply, used>>

(* run_sync and stream_file: one command after the other. *)
Send(o) ==
  /\ stage[o] = "ready" /\ unsent[o] # <<>>
  /\ SendRequest(o, Head(unsent[o]))
  /\ unsent' = [unsent EXCEPT ![o] = Tail(@)]
  /\ Step(o, "working")
  /\ UNCHANGED <<loop, world, outcome, used>>

End(o, state) ==
  /\ store' = [store EXCEPT ![o] = state]
  /\ Step(o, "over")

Worked(o) ==
  /\ stage[o] = "working"
  /\ reply[o] # "none" \/ TimesOut(o)
  /\ awaited' = awaited \ {o}
  /\ IF reply[o] = "ok" THEN Step(o, "ready") /\ UNCHANGED store ELSE End(o, "failed")
  /\ UNCHANGED <<mail, loop, world, unsent, reply, answer, blame, used>>

Complete(o) ==
  /\ stage[o] = "ready" /\ unsent[o] = <<>>
  /\ End(o, "done")
  /\ UNCHANGED <<mail, loop, world, unsent, reply, awaited, answer, blame, used>>

OrderTask(o) ==
  BeginOrder(o) \/ Probed(o) \/ ProbeTimesOut(o) \/ Send(o) \/ Worked(o) \/ Complete(o)

SourceNext ==
  \/ \E o \in Order : Tell(o) \/ OrderTask(o)
  \/ \E n \in Node :
       \/ ReadNext(n) \/ JobEnds(n) \/ LoseFrame(n) \/ Leave(n)
       \/ \E o \in Order : Occupy(n, o)
       \/ \E m \in Modes : SetMode(n, m)
       \/ \E d \in Node : Refresh(n, d)

(* A command that takes long ends, a loop that is not wedged reads on, and  *)
(* the runtime runs every task. *)
SourceFairness ==
  /\ \A o \in Order : WF_sourceVars(OrderTask(o))
  /\ \A n \in Node : WF_sourceVars(ReadNext(n)) /\ WF_sourceVars(JobEnds(n))

SourceSpec == SourceInit /\ [][SourceNext]_sourceVars /\ SourceFairness

----------------------------------------------------------------------------

(* A destination is only said not to respond when something kept it from    *)
(* answering or its answer from being read, and never because the source    *)
(* sat waiting in the loop that had to read the answer                      *)
(* (relay_controller.rs, the Command arm of handle_message). *)
BlamedForAReason == \A o \in Order : answer[o] = "silent" => blame[o] # {}

(* What an MCP node queues has been seen answering: an order it refused has *)
(* left no transfer behind for transfer_get to find (preflight_dest). *)
RefusedLeavesNothing ==
  \A o \in Order : answer[o] \in Refusals => store[o] = "none"

(* No request stays registered when the task that waited for it is over. *)
RequestsReleased == \A o \in Order : stage[o] = "over" => o \notin awaited

(* An order a loop has read is answered, wedged destination or not. *)
OrdersAnswered ==
  \A o \in Order : (stage[o] = "begin") ~> (answer[o] # "none")

(* The refusal's own words: "no reply to a liveness probe within" the time. *)
SilentIsSilent == \A o \in Order : answer[o] = "silent" => "answered" \notin blame[o]

(* "connected to the relay but not responding (...). Its command loop is    *)
(* likely wedged": the other machine is at fault, not the source's own. *)
BlamesTheOther == \A o \in Order : answer[o] = "silent" => blame[o] # {"source busy"}
=============================================================================
