------------------------------ MODULE Processes ------------------------------
(***************************************************************************)
(* The processes of one machine (crates/mcp-server): agents started with    *)
(* `run` and MCP servers, all in the room under the machine's one agent id. *)
(* A tool of one of them acts in its own process, or goes by the relay to   *)
(* whichever process the relay picks.  Transfers and quick tunnels are      *)
(* known to the process that started them and to no other (TransferStore in *)
(* transfer.rs, TunnelStore in tunnel.rs).                                  *)
(*                                                                         *)
(* A tunnel is a cloudflared child.  Its start waits for the URL in a       *)
(* blocking thread, which the end of the process has to wait for: the       *)
(* runtime joins the ones that run and drops those that were only queued.   *)
(***************************************************************************)
EXTENDS Naturals, FiniteSets

CONSTANTS
  Proc,
  Runs,      \* those that were started with `run`: they handle SIGTERM and SIGINT
  Call,      \* calls of send_file, sync_dir or tunnel_start, each made once
  Tunnel,    \* the calls of tunnel_start
  None

ASSUME ProcessesAssumption == Runs \subseteq Proc /\ Tunnel \subseteq Call /\ None \notin Proc

VARIABLES
  phase,      \* of each process
  issuer,     \* whose tool was called
  home,       \* the process it acts in
  start,      \* how far it is
  child,      \* cloudflared: waits for its edge, has printed the URL, or is dead
  transfers,  \* TransferStore.inner of each process
  tunnels     \* TunnelStore.inner of each process

called == <<issuer, home>>
vars   == <<phase, called, start, child, transfers, tunnels>>

TypeOK ==
  /\ phase \in [Proc -> {"up", "stopping", "ending", "over", "killed"}]
  /\ issuer \in [Call -> Proc \cup {None}] /\ home \in [Call -> Proc \cup {None}]
  /\ start \in [Call -> {"none", "asked", "waiting", "ok", "failed"}]
  /\ child \in [Call -> {"none", "quiet", "open", "failed", "closed"}]
  /\ transfers \in [Proc -> SUBSET (Call \ Tunnel)]
  /\ tunnels \in [Proc -> SUBSET Tunnel]

Init ==
  /\ phase = [p \in Proc |-> "up"]
  /\ issuer = [c \in Call |-> None] /\ home = issuer
  /\ start = [c \in Call |-> "none"] /\ child = start
  /\ transfers = [p \in Proc |-> {}] /\ tunnels = transfers

Alive(c) == child[c] \in {"quiet", "open"}
Here(p) == {c \in Call : home[c] = p}

(* kill_reap, of any number of children. *)
Killed(calls) ==
  [c \in Call |-> IF c \in calls /\ Alive(c)
                  THEN (IF child[c] = "open" THEN "closed" ELSE "failed") ELSE child[c]]

-----------------------------------------------------------------------------
(* Tools *)

(* Mutant: the machine's own id over the relay, as it was once. *)
LocallyByRelay(p) == {q \in Proc : phase[q] = "up"}

(* Without an agent_id a tool acts in this process; a transfer is sourced on its own *)
(* connection (source_transfer).                                                     *)
Locally(p) == {p}

(* With the machine's id, in any of its processes: the relay chooses by capabilities. *)
ByRelay == {q \in Proc : phase[q] = "up"}

(* handle_call_tool_request *)
Tool(p, c) ==
  /\ phase[p] = "up" /\ home[c] = None
  /\ \/ home' \in {[home EXCEPT ![c] = q] : q \in Locally(p)}
        /\ issuer' = [issuer EXCEPT ![c] = p]
     \/ home' \in {[home EXCEPT ![c] = q] : q \in ByRelay} /\ UNCHANGED issuer
  /\ IF c \in Tunnel
     THEN start' = [start EXCEPT ![c] = "asked"] /\ UNCHANGED transfers
     ELSE /\ start' = [start EXCEPT ![c] = "ok"]
          /\ transfers' = [transfers EXCEPT ![home'[c]] = @ \cup {c}]
  /\ UNCHANGED <<phase, child, tunnels>>

(* TunnelStore::start: cloudflared is spawned, its log read for the URL. *)
Spawn(c) ==
  /\ start[c] = "asked" /\ phase[home[c]] \in {"up", "stopping", "ending"}
  /\ start' = [start EXCEPT ![c] = "waiting"]
  /\ child' = [child EXCEPT ![c] = "quiet"]
  /\ UNCHANGED <<phase, called, transfers, tunnels>>

(* The URL is in the log, whether or not the child still lives. *)
Opened(c) ==
  /\ start[c] = "waiting" /\ child[c] \in {"open", "closed"}
  /\ phase[home[c]] # "killed"
  /\ start' = [start EXCEPT ![c] = "ok"]
  /\ tunnels' = [tunnels EXCEPT ![home[c]] = @ \cup {c}]
  /\ UNCHANGED <<phase, called, child, transfers>>

(* The child has exited before, or the 30 s are over. *)
StartFails(c) ==
  /\ start[c] = "waiting" /\ child[c] # "closed" /\ phase[home[c]] # "killed"
  /\ start' = [start EXCEPT ![c] = "failed"]
  /\ child' = Killed({c})
  /\ UNCHANGED <<phase, called, transfers, tunnels>>

StopTunnel(p, c) ==
  /\ phase[p] = "up" /\ c \in tunnels[p]
  /\ tunnels' = [tunnels EXCEPT ![p] = @ \ {c}]
  /\ child' = Killed({c})
  /\ UNCHANGED <<phase, called, start, transfers>>

(* tunnel_list: what has exited is forgotten. *)
List(p) ==
  /\ phase[p] = "up"
  /\ tunnels' = [tunnels EXCEPT ![p] = {c \in @ : Alive(c)}]
  /\ UNCHANGED <<phase, called, start, child, transfers>>

(* cloudflared gets its URL, or ends by itself. *)
Child(c) ==
  /\ \/ child[c] = "quiet" /\ child' = [child EXCEPT ![c] = "open"]
     \/ Alive(c) /\ child' = Killed({c})
  /\ UNCHANGED <<phase, called, start, transfers, tunnels>>

-----------------------------------------------------------------------------
(* The end of a process *)

Goto(p, to) == phase' = [phase EXCEPT ![p] = to]

(* `run`: the signal, or the end of the connection loop.  An MCP server: its stdin ends. *)
Ends(p) ==
  /\ phase[p] = "up" /\ Goto(p, IF p \in Runs THEN "stopping" ELSE "ending")
  /\ UNCHANGED <<called, start, child, transfers, tunnels>>

(* connection::run kills what is registered. *)
Shutdown(p) ==
  /\ phase[p] = "stopping" /\ Goto(p, "ending")
  /\ child' = Killed(tunnels[p])
  /\ tunnels' = [tunnels EXCEPT ![p] = {}]
  /\ UNCHANGED <<called, start, transfers>>

(* Mutant: shutdown has seen to it, so nothing is left to do when the store is dropped. *)
DropNone(p) == {}

(* Drop of TunnelStore. *)
Dropped(p) == tunnels[p]

(* The runtime has joined its blocking threads, and the last handle of the store goes. *)
Exit(p) ==
  /\ phase[p] = "ending" /\ \A c \in Here(p) : start[c] # "waiting"
  /\ Goto(p, "over")
  /\ child' = Killed(Dropped(p))
  /\ tunnels' = [tunnels EXCEPT ![p] = {}]
  /\ UNCHANGED <<called, start, transfers>>

(* SIGKILL, a panic that aborts, or SIGTERM to an MCP server, which does not handle it. *)
Kill(p) ==
  /\ phase[p] \notin {"over", "killed"} /\ Goto(p, "killed")
  /\ UNCHANGED <<called, start, child, transfers, tunnels>>

Next ==
  \/ \E p \in Proc : \/ List(p) \/ Ends(p) \/ Shutdown(p) \/ Exit(p) \/ Kill(p)
                     \/ \E c \in Call : Tool(p, c) \/ StopTunnel(p, c)
  \/ \E c \in Call : Spawn(c) \/ Opened(c) \/ StartFails(c) \/ Child(c)

Spec == Init /\ [][Next]_vars

-----------------------------------------------------------------------------
(* What a process's own tool has started is known to this process: transfer_get finds it, *)
(* tunnel_stop ends it, for as long as the process is up and the tunnel open.             *)
KnownHere ==
  \A c \in Call : issuer[c] # None /\ start[c] = "ok" /\ phase[issuer[c]] = "up" =>
    IF c \in Tunnel THEN child[c] = "open" => c \in tunnels[issuer[c]]
    ELSE c \in transfers[issuer[c]]

(* No cloudflared outlives a process that was not killed, not even one whose start was *)
(* under way when the process was told to end and shutdown had been through.            *)
NoneLinger == \A p \in Proc : phase[p] = "over" => \A c \in Here(p) : ~ Alive(c)
=============================================================================
