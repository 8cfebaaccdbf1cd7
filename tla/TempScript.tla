------------------------------ MODULE TempScript ------------------------------
(***************************************************************************)
(* Long commands on Windows (exec_via_tempfile and                          *)
(* exec_with_stdin_via_tempfile in                                          *)
(* crates/mcp-server/src/executor/shell.rs): the command is written into a  *)
(* batch file, and cmd runs the file.  Every command is executed by a task  *)
(* of its own, and the file is named after the process: its commands share  *)
(* it, the ones with input and the ones without having one each.            *)
(*                                                                         *)
(* Output and input are Shell's subject and left out here: a cmd that runs   *)
(* ends at some time, or is killed at the deadline.                         *)
(***************************************************************************)
CONSTANTS
  Command,   \* the long commands of one process
  WithInput, \* those that have input for their stdin
  None

VARIABLES
  pc,     \* where the call is
  script, \* the file of each name: the commands it has text of, or None
  handle, \* the calls whose open file is the one of that name
  cmd,    \* the child: "none", "starts", "runs", "exited" or "killed"
  ran     \* what it ran: the commands the file had text of, or None if it found no file

vars == <<pc, script, handle, cmd, ran>>

Name == {"exec", "stdin"}
Content == SUBSET Command \cup {None}

TypeOK ==
  /\ pc \in [Command -> {"new", "open", "written", "wait", "over", "late", "kill",
                         "done", "timed_out", "error"}]
  /\ script \in [Name -> Content] /\ handle \subseteq Command
  /\ cmd \in [Command -> {"none", "starts", "runs", "exited", "killed"}]
  /\ ran \in [Command -> Content]

Init ==
  /\ pc = [c \in Command |-> "new"]
  /\ script = [n \in Name |-> None] /\ handle = {}
  /\ cmd = [c \in Command |-> "none"] /\ ran = [c \in Command |-> None]

(* script_name: the process id makes the rest of it. *)
NameOf(c) == IF c \in WithInput THEN "stdin" ELSE "exec"
Sharing(c) == {d \in Command : NameOf(d) = NameOf(c)}

Goto(c, from, to) == pc[c] = from /\ pc' = [pc EXCEPT ![c] = to]

-----------------------------------------------------------------------------
(* File::create makes the file or empties the one that is there; or it fails. *)
Create(c) ==
  \/ /\ Goto(c, "new", "open")
     /\ script' = [script EXCEPT ![NameOf(c)] = {}]
     /\ handle' = handle \cup {c}
     /\ UNCHANGED <<cmd, ran>>
  \/ Goto(c, "new", "error") /\ UNCHANGED <<script, handle, cmd, ran>>

(* The command's text goes where it would be in an empty file: over that of another *)
(* command, of which a longer tail may stay.  What a removed file gets is lost.      *)
Write(c) ==
  /\ Goto(c, "open", "written")
  /\ IF c \in handle
       THEN \E rest \in {{}, script[NameOf(c)]} :
              script' = [script EXCEPT ![NameOf(c)] = {c} \cup rest]
       ELSE UNCHANGED script
  /\ handle' = handle \ {c}
  /\ UNCHANGED <<cmd, ran>>

(* A failing write or spawn returns early, and the file stays. *)
Fail(c) ==
  /\ Goto(c, "open", "error") \/ Goto(c, "written", "error")
  /\ handle' = handle \ {c}
  /\ UNCHANGED <<script, cmd, ran>>

Spawn(c) ==
  /\ Goto(c, "written", "wait")
  /\ cmd' = [cmd EXCEPT ![c] = "starts"]
  /\ UNCHANGED <<script, handle, ran>>

(* cmd reads the file once it has started. *)
Read(c) ==
  /\ cmd[c] = "starts"
  /\ cmd' = [cmd EXCEPT ![c] = "runs"]
  /\ ran' = [ran EXCEPT ![c] = script[NameOf(c)]]
  /\ UNCHANGED <<pc, script, handle>>

End(c) ==
  /\ cmd[c] = "runs" /\ cmd' = [cmd EXCEPT ![c] = "exited"]
  /\ UNCHANGED <<pc, script, handle, ran>>

(* The wait for the child and its output is over, or the deadline passes. *)
Waited(c) == cmd[c] = "exited" /\ Goto(c, "wait", "over") /\ UNCHANGED <<script, handle, cmd, ran>>
Deadline(c) == Goto(c, "wait", "late") /\ UNCHANGED <<script, handle, cmd, ran>>

(* remove_file, whose error is ignored. *)
Remove(c) ==
  /\ Goto(c, "over", "done") \/ Goto(c, "late", "kill")
  /\ \/ /\ script' = [script EXCEPT ![NameOf(c)] = None]
        /\ handle' = handle \ Sharing(c)
     \/ UNCHANGED <<script, handle>>
  /\ UNCHANGED <<cmd, ran>>

(* kill_process_group, after the deadline. *)
Kill(c) ==
  /\ Goto(c, "kill", "timed_out")
  /\ cmd' = [cmd EXCEPT ![c] = IF @ = "exited" THEN "exited" ELSE "killed"]
  /\ UNCHANGED <<script, handle, ran>>

Next ==
  \E c \in Command :
    \/ Create(c) \/ Write(c) \/ Fail(c) \/ Spawn(c) \/ Read(c) \/ End(c)
    \/ Waited(c) \/ Deadline(c) \/ Remove(c) \/ Kill(c)

Spec == Init /\ [][Next]_vars

-----------------------------------------------------------------------------
(* As documented (exec_via_tempfile): a long command is executed via the file.  A call *)
(* that returns without a timeout ran its own command, all of it and nothing else.      *)
RunsItsOwn == \A c \in Command : pc[c] = "done" => ran[c] = {c}
=============================================================================
