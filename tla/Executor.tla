------------------------------ MODULE Executor ------------------------------
(***************************************************************************)
(* The commands of the sessions of one machine (execute in                  *)
(* crates/mcp-server/src/executor/mod.rs) and the operating mode that gates *)
(* them (AgentState::mode and set_mode in state.rs): the sessions share a   *)
(* mode file, each keeps a view of it, and tells the relay when it changes. *)
(*                                                                         *)
(* Commands are told apart by what their arm of execute asks of the mode.   *)
(***************************************************************************)
EXTENDS Naturals, FiniteSets

CONSTANTS
  Session,   \* processes of the machine
  Job,       \* commands
  Config,    \* the configured mode
  MaxSets    \* how many SetMode commands are sent

ASSUME ExecutorAssumption ==
  Session # {} /\ Config \in {"plan", "edit", "disabled"} /\ MaxSets \in Nat

VARIABLES
  file,      \* the mode file, or "absent"
  writable,  \* whether it can be written
  memory,    \* a session's view
  notices,   \* its info updates not sent yet
  online,    \* sessions connected to the relay
  shown,     \* the mode the relay shows for a session
  at,        \* job -> "idle", "arrived", "run" or "store"
  order,     \* job -> what it is and what it saw
  sets,      \* SetMode commands so far
  mixed,     \* SetMode commands overlapped (ghost)
  setter,    \* the session that did the last SetMode, or "nobody" (ghost)
  settled    \* the mode set by the last SetMode, unless it overlapped others (ghost)

execVars == <<file, writable, memory, notices, online, shown, at, order,
          sets, mixed, setter, settled>>

Mode == {"plan", "edit", "disabled"}
Kind == {"write", "open", "set"}

(* The arms of execute: those that ask allows_write, those whose command is vetted
   by check_command_allowed (here: one that writes, so they ask the same), SetMode,
   and those that only ask that the agent is not disabled. *)
Write == {"WriteFile", "GitPull", "GitCommit", "GitPush", "FileRecv", "DeletePaths",
          "TunnelStart", "TunnelStop", "Exec", "ScheduleAdd", "MapTask", "ReduceTask"}
Open  == {"ReadFile", "ListDir", "GetInfo", "GitStatus", "ScheduleList", "ScheduleRemove",
          "TaskGet", "TaskList", "TaskDispatch", "SessionList", "SessionGet",
          "SessionSearch", "SessionResume", "SessionTerminate", "FileStat", "FileChunk",
          "FileThumb", "FileSearch", "TransferGet", "DirManifest", "TunnelList"}
KindOf(c) == IF c \in Write THEN "write" ELSE IF c \in Open THEN "open" ELSE "set"
Command == Write \cup Open \cup {"SetMode"}

JobRecord == [kind: Kind, session: Session, to: Mode, seen: SUBSET Mode]
NoOrder == [kind |-> "open", session |-> CHOOSE s \in Session : TRUE, to |-> "plan",
            seen |-> {}]

ExecTypeOK ==
  /\ file \in Mode \cup {"absent"} /\ writable \in BOOLEAN
  /\ memory \in [Session -> Mode] /\ shown \in [Session -> Mode]
  /\ notices \in [Session -> 0..MaxSets] /\ online \subseteq Session
  /\ at \in [Job -> {"idle", "arrived", "run", "store"}]
  /\ order \in [Job -> JobRecord]
  /\ sets \in 0..MaxSets /\ mixed \in BOOLEAN
  /\ setter \in Session \cup {"nobody"}
  /\ settled \in Mode \cup {"open"}
  /\ \A c \in Command : KindOf(c) \in Kind

(* A session starts with the file's mode, or with the configured one. *)
InForce(f, fallback) == IF f # "absent" THEN f ELSE fallback

ExecInit ==
  /\ file \in {"absent", "plan", "edit"} /\ writable \in BOOLEAN
  /\ memory = [s \in Session |-> InForce(file, Config)]
  /\ shown = memory
  /\ notices = [s \in Session |-> 0]
  /\ online = Session
  /\ at = [j \in Job |-> "idle"]
  /\ order = [j \in Job |-> NoOrder]
  /\ sets = 0 /\ mixed = FALSE /\ setter = "nobody"
  /\ settled = IF file = "absent" THEN "open" ELSE file

Setting(j) == at[j] \in {"arrived", "run", "store"} /\ order[j].kind = "set"

(* What every job under way has seen in force by now. *)
Seeing(f, mem) ==
  [j \in Job |-> [order[j] EXCEPT !.seen = IF at[j] = "idle" THEN @ ELSE
                     @ \cup {InForce(f, mem[order[j].session])}]]

-----------------------------------------------------------------------------
(* mode *)

(* Mutant: mode answers from memory once it is set. *)
ModeCached(s) == memory[s]

(* mode() reads the file again, and its own view when there is none. *)
ModeOf(s) == InForce(file, memory[s])
Refreshed(s) == memory' = [memory EXCEPT ![s] = ModeOf(s)]

-----------------------------------------------------------------------------
(* execute *)

Arrive(j, k, s, m) ==
  /\ at[j] = "idle"
  /\ k = "set" => sets < MaxSets
  /\ k # "set" => m = "plan"
  /\ at' = [at EXCEPT ![j] = "arrived"]
  /\ order' = [order EXCEPT ![j] = [kind |-> k, session |-> s, to |-> m,
                                    seen |-> {InForce(file, memory[s])}]]
  /\ sets' = IF k = "set" THEN sets + 1 ELSE sets
  /\ settled' = IF k = "set" THEN "open" ELSE settled
  /\ mixed' = IF k = "set" THEN \E i \in Job : Setting(i) ELSE mixed
  /\ UNCHANGED <<file, writable, memory, notices, online, shown, setter>>

Allowed(k, m) == m = "edit" \/ (m = "plan" /\ k # "write")

(* A command ends: its answer is sent. *)
Ends(j) == at' = [at EXCEPT ![j] = "idle"] /\ order' = [order EXCEPT ![j] = NoOrder]

(* The mode is read once, at the start. *)
Gate(j) ==
  LET s == order[j].session IN
  /\ at[j] = "arrived"
  /\ IF Allowed(order[j].kind, ModeOf(s))
       THEN at' = [at EXCEPT ![j] = "run"] /\ UNCHANGED order
       ELSE Ends(j)
  /\ Refreshed(s)
  /\ UNCHANGED <<file, writable, notices, online, shown, sets, mixed, setter, settled>>

(* Any command but SetMode does its work. *)
RunJob(j) ==
  /\ at[j] = "run" /\ order[j].kind # "set"
  /\ Ends(j)
  /\ UNCHANGED <<file, writable, memory, notices, online, shown, sets, mixed, setter, settled>>

(* set_mode writes the file by a rename, if it can ... *)
SetFile(j) ==
  /\ at[j] = "run" /\ order[j].kind = "set"
  /\ at' = [at EXCEPT ![j] = "store"]
  /\ file' = IF writable THEN order[j].to ELSE file
  /\ order' = Seeing(file', memory)
  /\ UNCHANGED <<writable, memory, notices, online, shown, sets, mixed, setter, settled>>

(* ... and then its own view, and tells the connection loop. *)
SetMemory(j) ==
  LET s == order[j].session IN
  /\ at[j] = "store"
  /\ at' = [at EXCEPT ![j] = "idle"]
  /\ memory' = [memory EXCEPT ![s] = order[j].to]
  /\ order' = [Seeing(file, memory') EXCEPT ![j] = NoOrder]
  /\ notices' = [notices EXCEPT ![s] = @ + 1]
  /\ setter' = s
  /\ settled' = IF mixed THEN "open" ELSE order[j].to
  /\ mixed' = (mixed /\ \E i \in Job \ {j} : Setting(i))
  /\ UNCHANGED <<file, writable, online, shown, sets>>

-----------------------------------------------------------------------------
(* The connection loop *)

(* next_info_update: UpdateAgent with the mode as it is now. *)
Notice(s) ==
  /\ s \in online /\ notices[s] > 0
  /\ notices' = [notices EXCEPT ![s] = @ - 1]
  /\ shown' = [shown EXCEPT ![s] = ModeOf(s)]
  /\ Refreshed(s)
  /\ UNCHANGED <<file, writable, online, at, order, sets, mixed, setter, settled>>

Offline(s) ==
  /\ s \in online /\ sets < MaxSets
  /\ online' = online \ {s}
  /\ UNCHANGED <<file, writable, memory, notices, shown, at, order, sets, mixed, setter, settled>>

Online(s) ==
  /\ s \notin online
  /\ online' = online \cup {s}
  /\ shown' = [shown EXCEPT ![s] = ModeOf(s)]
  /\ Refreshed(s)
  /\ UNCHANGED <<file, writable, notices, at, order, sets, mixed, setter, settled>>

Execute == \E j \in Job : Gate(j) \/ RunJob(j) \/ SetFile(j) \/ SetMemory(j)
ExecNext ==
  \/ \E j \in Job, k \in Kind, s \in Session, m \in Mode : Arrive(j, k, s, m)
  \/ Execute
  \/ \E s \in Session : Notice(s) \/ Offline(s) \/ Online(s)

ExecFairness ==
  /\ \A j \in Job : WF_execVars(SetFile(j) \/ SetMemory(j))
  /\ \A s \in Session : WF_execVars(Notice(s)) /\ WF_execVars(Online(s))
ExecSpec == ExecInit /\ [][ExecNext]_execVars /\ ExecFairness

-----------------------------------------------------------------------------
(* Properties *)

(* Once a SetMode has been answered, every session of the machine gates its next
   commands by that mode, until another SetMode arrives; without a writable file
   only a machine that has none keeps the promise, and only for one session. *)
Gates(j) == at[j] = "arrived" /\ at'[j] # "arrived"
GatesByTheSetMode ==
  \A j \in Job : Gates(j) /\ writable /\ settled # "open" => memory'[order[j].session] = settled
ModeShared == [][GatesByTheSetMode]_execVars

(* A command that writes has seen, since its arrival, a mode that lets it, whatever
   SetMode did meanwhile. *)
WritesAllowed ==
  \A j \in Job : at[j] = "run" /\ order[j].kind = "write" => "edit" \in order[j].seen

(* The relay ends up showing the mode of the machine for the session that set it. *)
SetterShown ==
  writable => \A s \in Session : <>[](setter = s /\ settled # "open" => shown[s] = file)
=============================================================================
