-------------------------------- MODULE Shell --------------------------------
(***************************************************************************)
(* One shell command (exec and exec_with_stdin in                           *)
(* crates/mcp-server/src/executor/shell.rs): a child that leads its own     *)
(* process group, a task that feeds its stdin, a task that reads its output *)
(* line by line, and a deadline.  stdout and stderr are alike: one pipe     *)
(* stands for both.                                                         *)
(*                                                                         *)
(* The child is one of a few programs, and may leave a process of its group *)
(* behind that holds its output open or not.  Pipes hold PipeCap lines.     *)
(***************************************************************************)
EXTENDS Naturals, Sequences

CONSTANTS
  PipeCap,   \* what a pipe holds
  Lines,     \* what the input has, and what the child writes, in all
  MaxPartialOutput \* MAX_PARTIAL_OUTPUT

ASSUME ShellAssumption ==
  PipeCap \in Nat \ {0} /\ Lines \in Nat /\ MaxPartialOutput \in Nat

VARIABLES
  program,   \* what the child does: see Reads and Writes
  behind,    \* the process it leaves behind: "none", "holder" or "quiet"
  ample,     \* the deadline leaves time for everything that does not hang
  child,     \* "runs", "exited" or "killed"
  orphan,    \* its process: "none", "runs", "exited" or "killed"
  unsent,    \* input the writer task has not written yet
  writer,    \* "writes", "closed" or "aborted"
  stdin,     \* input in the pipe
  taken,     \* input the child has read
  stdout,    \* output in the pipe: TRUE for a line that is not UTF-8
  written,   \* output written by anyone
  reader,    \* "reads", "ended", "stopped" by an error, or "aborted"
  captured,  \* lines in the buffer
  clipped,   \* lines left out, the buffer being full (ghost)
  pc         \* exec: "wait", "drain", "done" or "timed_out"

shellVars == <<program, behind, ample, child, orphan, unsent, writer, stdin, taken, stdout,
          written, reader, captured, clipped, pc>>
scene == <<program, behind, ample>>
input == <<unsent, writer, stdin>>
output == <<reader, captured, clipped>>

Program == {"filter", "source", "sink", "rude", "hang"}

ShellTypeOK ==
  /\ program \in Program /\ behind \in {"none", "holder", "quiet"} /\ ample \in BOOLEAN
  /\ child \in {"runs", "exited", "killed"}
  /\ orphan \in {"none", "runs", "exited", "killed"}
  /\ unsent \in 0..Lines /\ writer \in {"writes", "closed", "aborted"}
  /\ stdin \in 0..PipeCap /\ taken \in 0..Lines
  /\ stdout \in Seq(BOOLEAN) /\ Len(stdout) <= PipeCap
  /\ written \in 0..Lines + 1
  /\ reader \in {"reads", "ended", "stopped", "aborted"}
  /\ captured \in 0..MaxPartialOutput /\ clipped \in 0..Lines + 1
  /\ pc \in {"wait", "drain", "done", "timed_out"}

(* exec has no input of its own; exec_with_stdin has. *)
ShellInit ==
  /\ program \in Program /\ behind \in {"none", "holder", "quiet"} /\ ample \in BOOLEAN
  /\ child = "runs" /\ orphan = "none"
  /\ unsent \in {0, Lines} /\ writer = "writes" /\ stdin = 0 /\ taken = 0
  /\ stdout = <<>> /\ written = 0
  /\ reader = "reads" /\ captured = 0 /\ clipped = 0
  /\ pc = "wait"

-----------------------------------------------------------------------------
(* The processes *)

EndOfInput == stdin = 0 /\ writer # "writes"

(* A filter writes a line for each it reads, a source writes before it reads, a sink *)
(* reads before it writes.                                                           *)
Reads  == /\ child = "runs" /\ stdin > 0
          /\ program = "filter" => taken = written
          /\ program = "source" => written = Lines
          /\ program \notin {"rude", "hang"}
Writes == /\ child = "runs" /\ written < Lines
          /\ program = "filter" => written < taken
          /\ program = "sink" => EndOfInput
          /\ program \notin {"rude", "hang"}
Ends   == /\ child = "runs" /\ program # "hang"
          /\ program # "rude" => EndOfInput
          /\ program \in {"source", "sink"} => written = Lines
          /\ program = "filter" => written = taken

Take ==
  /\ Reads
  /\ taken' = taken + 1 /\ stdin' = stdin - 1
  /\ UNCHANGED <<scene, child, orphan, unsent, writer, stdout, written, output, pc>>

(* A write waits while the pipe is full, and kills the child when nobody reads it. *)
Emit ==
  /\ Writes
  /\ IF reader = "reads"
       THEN /\ Len(stdout) < PipeCap
            /\ \E bad \in BOOLEAN : stdout' = Append(stdout, bad)
            /\ written' = written + 1 /\ UNCHANGED child
       ELSE child' = "exited" /\ UNCHANGED <<stdout, written>>
  /\ UNCHANGED <<scene, orphan, input, taken, output, pc>>

Exit ==
  /\ Ends
  /\ child' = "exited"
  /\ orphan' = IF behind = "none" THEN "none" ELSE "runs"
  /\ UNCHANGED <<scene, input, taken, stdout, written, output, pc>>

Holder == orphan = "runs" /\ behind = "holder"

(* What was left behind writes a line, or ends. *)
OrphanPrint ==
  /\ Holder /\ written <= Lines /\ reader = "reads" /\ Len(stdout) < PipeCap
  /\ stdout' = Append(stdout, FALSE) /\ written' = written + 1
  /\ UNCHANGED <<scene, child, orphan, input, taken, output, pc>>
OrphanExit ==
  /\ orphan = "runs" /\ orphan' = "exited"
  /\ UNCHANGED <<scene, child, input, taken, stdout, written, output, pc>>

-----------------------------------------------------------------------------
(* The tasks *)

(* write_all and shutdown; a child that is gone makes it fail, which ends it too. *)
Feed ==
  /\ writer = "writes"
  /\ \/ /\ unsent > 0 /\ stdin < PipeCap /\ child = "runs"
        /\ unsent' = unsent - 1 /\ stdin' = stdin + 1 /\ UNCHANGED writer
     \/ unsent = 0 /\ writer' = "closed" /\ UNCHANGED <<unsent, stdin>>
     \/ child # "runs" /\ writer' = "closed" /\ UNCHANGED <<unsent, stdin>>
  /\ UNCHANGED <<scene, child, orphan, taken, stdout, written, output, pc>>

(* Mutant: the output is read once the input has been written. *)
ReadingLater == reader = "reads" /\ writer # "writes"

(* The reader is a task of its own, from the start. *)
Reading == reader = "reads"

(* next_line: a line for the buffer, an error that ends the task, or the end. *)
ReadLine ==
  /\ Reading
  /\ \/ /\ stdout # <<>>
        /\ stdout' = Tail(stdout)
        /\ IF Head(stdout) THEN reader' = "stopped" /\ UNCHANGED <<captured, clipped>>
           ELSE /\ UNCHANGED reader
                /\ IF captured < MaxPartialOutput
                     THEN captured' = captured + 1 /\ UNCHANGED clipped
                     ELSE clipped' = clipped + 1 /\ UNCHANGED captured
     \/ /\ stdout = <<>> /\ child # "runs" /\ ~ Holder
        /\ reader' = "ended" /\ UNCHANGED <<stdout, captured, clipped>>
  /\ UNCHANGED <<scene, child, orphan, input, taken, written, pc>>

-----------------------------------------------------------------------------
(* The call *)

Waited ==
  /\ pc = "wait" /\ child = "exited" /\ pc' = "drain"
  /\ UNCHANGED <<scene, child, orphan, input, taken, stdout, written, output>>

(* The readers and the writer have ended. *)
Drained == pc = "drain" /\ reader # "reads" /\ writer # "writes"

Return ==
  /\ Drained /\ pc' = "done"
  /\ UNCHANGED <<scene, child, orphan, input, taken, stdout, written, output>>

(* Nothing can move but a process that does as it likes. *)
Stuck ==
  /\ ~ Reads /\ ~ Ends
  /\ Writes => reader = "reads" /\ Len(stdout) = PipeCap
  /\ writer # "writes" \/ (unsent > 0 /\ stdin = PipeCap /\ child = "runs")
  /\ ~ Reading \/ (stdout = <<>> /\ (child = "runs" \/ Holder))
  /\ ~ Drained /\ ~ (pc = "wait" /\ child = "exited")

(* kill_process_group: also when the child has exited and its process holds the pipe. *)
KillGroup ==
  /\ child' = IF child = "runs" THEN "killed" ELSE child
  /\ orphan' = IF orphan = "runs" THEN "killed" ELSE orphan

(* The deadline: the group is killed, the tasks aborted, and what was captured returned. *)
Timeout ==
  /\ pc \in {"wait", "drain"} /\ (ample => Stuck)
  /\ pc' = "timed_out"
  /\ KillGroup
  /\ reader' = IF reader = "reads" THEN "aborted" ELSE reader
  /\ writer' = IF writer = "writes" THEN "aborted" ELSE writer
  /\ UNCHANGED <<scene, unsent, stdin, taken, stdout, written, captured, clipped>>

ShellNext ==
  \/ Take \/ Emit \/ Exit \/ OrphanPrint \/ OrphanExit
  \/ Feed \/ ReadLine \/ Waited \/ Return \/ Timeout

ShellSpec == ShellInit /\ [][ShellNext]_shellVars

-----------------------------------------------------------------------------
(* Properties *)

(* A call that returns without a timeout has every line that was written, but those *)
(* after one that was not UTF-8, and those beyond the buffer.                       *)
WholeOutput ==
  pc = "done" /\ reader # "stopped" => captured + clipped = written /\ stdout = <<>>

(* With time enough a call times out only for a child that hangs or left a process *)
(* behind that holds its output: full pipes never make the two wait for each other. *)
NoPipeDeadlock == pc = "timed_out" /\ ample => program = "hang" \/ Holder \/ orphan = "killed"

(* A timeout leaves no process of the command behind, not even if its leader is gone. *)
NoneLeft == pc = "timed_out" => child # "runs" /\ orphan # "runs"
=============================================================================
