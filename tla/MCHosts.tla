----------------------------- MODULE MCHosts -----------------------------
(***************************************************************************)
(* What the hosts of a room do for each other, for TLC: the commands they   *)
(* are sent over two paths (Dispatch), the mode their sessions share        *)
(* (Executor), transfers they are told to start (Sourcing) and directories  *)
(* they sync (SyncDir).  They share no state: a behaviour of this module is *)
(* one of the component that part names.                                    *)
(***************************************************************************)
EXTENDS Dispatch, Executor, Sourcing, SyncDir, TLC

CONSTANTS x1, x2  \* jobs: alike

VARIABLES
  part   \* the component that runs; the others stay as they start

(* Two calls to one agent and a broadcast. *)
Targets == "one" :> {"a1"} @@ "big" :> {"a2"} @@ "all" :> {"a1", "a2"}
Alike == Permutations({x1, x2})

(* An agent and an MCP node that are told to send something to each other. *)
Source(o) == IF o = "p" THEN "m" ELSE "g"
Destination(o) == IF o = "p" THEN "g" ELSE "m"

(* Files of one size, and every way to sync, and one dry run. *)
OneSize == [c \in {"a", "b"} |-> 1]
SyncOptions ==
  [delete: BOOLEAN, checksum: BOOLEAN, dry_run: {FALSE}]
  \cup [delete: {TRUE}, checksum: {FALSE}, dry_run: {TRUE}]

-----------------------------------------------------------------------------
all == <<part, vars, execVars, sourceVars, syncVars>>

(* Where a component stays while another one runs. *)
DispatchStill == room = {} /\ roster = {} /\ direct = {}
ExecStill     == file = "plan" /\ writable = FALSE
SourceStill   ==
  /\ wedged = {} /\ mode = [n \in Node |-> "plan"]
  /\ unsent = [o \in Order |-> <<"slice">>]
SyncStill     ==
  /\ src = [p \in Path |-> Missing] /\ dest = [p \in Path |-> Missing]
  /\ opts = [delete |-> TRUE, checksum |-> FALSE, dry_run |-> TRUE]

AllInit ==
  /\ part \in {"dispatch", "modes", "sourcing", "sync"}
  /\ part # "dispatch" => DispatchStill
  /\ Init
  /\ part # "modes" => ExecStill
  /\ ExecInit
  /\ part # "sourcing" => SourceStill
  /\ SourceInit
  /\ part # "sync" => SyncStill
  /\ SyncInit

AllNext ==
  /\ UNCHANGED part
  /\ \/ part = "dispatch" /\ Next /\ UNCHANGED <<execVars, sourceVars, syncVars>>
     \/ part = "modes" /\ ExecNext /\ UNCHANGED <<vars, sourceVars, syncVars>>
     \/ part = "sourcing" /\ SourceNext /\ UNCHANGED <<vars, execVars, syncVars>>
     \/ part = "sync" /\ SyncNext /\ UNCHANGED <<vars, execVars, sourceVars>>

AllSpec == AllInit /\ [][AllNext]_all

-----------------------------------------------------------------------------
(* Calls share nothing but the room: one at a time is enough. *)
OneCall == Cardinality(Begun) <= 1
=============================================================================
