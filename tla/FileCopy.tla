------------------------------- MODULE FileCopy ------------------------------
(***************************************************************************)
(* What a file transfer promises (the TransferStatus that                   *)
(* crates/mcp-server/src/transfer.rs reports, and TransferGet with it):     *)
(* each transfer ends, once, and one that reports done has left at the      *)
(* destination the very file it hashed when it began, where it stays until  *)
(* another transfer writes to that path.  Slices, windows, hashes and the   *)
(* network are not to be seen.                                              *)
(***************************************************************************)
CONSTANTS
  Transfer,  \* transfers to one destination path
  Version,   \* the contents a source file may have
  None

VARIABLES
  state,     \* where each transfer is, as TransferGet tells
  goal,      \* the file it is to copy
  copy       \* what it has left at the destination, if that is certain

vars == <<state, goal, copy>>

Init ==
  /\ state = [t \in Transfer |-> "none"]
  /\ goal = [t \in Transfer |-> None]
  /\ copy = [t \in Transfer |-> None]

(* begin_send_file: the caller has the id. *)
Begin(t) ==
  /\ state[t] = "none"
  /\ state' = [state EXCEPT ![t] = "active"]
  /\ UNCHANGED <<goal, copy>>

(* The file as it is at one moment is what will be copied. *)
Choose(t) ==
  /\ state[t] = "active" /\ goal[t] = None
  /\ \E v \in Version : goal' = [goal EXCEPT ![t] = v]
  /\ UNCHANGED <<state, copy>>

(* Done: the destination is the file chosen, unless another transfer interfered. *)
Succeed(t) ==
  /\ state[t] = "active" /\ goal[t] # None
  /\ state' = [state EXCEPT ![t] = "done"]
  /\ copy' \in {[copy EXCEPT ![t] = c] : c \in {goal[t], None}}
  /\ UNCHANGED goal

Fail(t) ==
  /\ state[t] = "active"
  /\ state' = [state EXCEPT ![t] = "failed"]
  /\ UNCHANGED <<goal, copy>>

(* Another transfer writes to the path: what other copies left is uncertain. *)
Interfere ==
  /\ \E ts \in SUBSET Transfer : copy' = [t \in Transfer |-> IF t \in ts THEN None ELSE copy[t]]
  /\ UNCHANGED <<state, goal>>

Next == \/ Interfere
        \/ \E t \in Transfer : Begin(t) \/ Choose(t) \/ Succeed(t) \/ Fail(t)

(* Nobody waits for a transfer for good. *)
Ends == \A t \in Transfer : state[t] = "active" ~> state[t] \in {"done", "failed"}

Safety == Init /\ [][Next]_vars

Spec == Safety /\ Ends
=============================================================================
