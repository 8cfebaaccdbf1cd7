----------------------------- MODULE MapReduce ------------------------------
(***************************************************************************)
(* A map/reduce job (crates/mcp-server/src/mapreduce.rs): the input is cut  *)
(* into partitions, every round dispatches the pending or failed ones at    *)
(* once and waits for all of them, and one reduce task gets the outputs in  *)
(* order.  Partition i always goes to the same agent, the reduce task to    *)
(* the first one (handle_mapreduce in mcp_server.rs).                       *)
(*                                                                         *)
(* Items are the numbers 1..items; the map function is the identity.        *)
(***************************************************************************)
EXTENDS Naturals, Sequences, FiniteSets, SequencesExt

CONSTANTS
  MaxItems, MaxWorkers, MaxRetries, \* bounds of the arguments
  Agents                            \* how many agents the job runs on

VARIABLES
  items, workers, retries, \* the arguments
  bad,        \* agents that fail every task from now on
  pc,         \* "round", "reduce", "reducing", "done" or "failed"
  status,     \* partition -> "pending", "done" or "failed"
  attempts,   \* failures counted per partition
  flying,     \* partitions of this round without an answer yet
  answers,    \* partition -> answer of this round
  sent,       \* how often a partition was dispatched, capped (ghost)
  inputs      \* what the reduce task got

args == <<items, workers, retries>>
job  == <<status, attempts>>
vars == <<args, job, bad, pc, flying, answers, sent, inputs>>

Least(a, b) == IF a < b THEN a ELSE b

(* partition: at most `workers` runs of consecutive items, the first `rem` of
   them one longer. *)
Count == Least(workers, items)
Size(i) == items \div Count + (IF i <= items % Count THEN 1 ELSE 0)
Start(i) == (i - 1) * (items \div Count) + Least(i - 1, items % Count)
Partition == [i \in 1..Count |-> [k \in 1..Size(i) |-> Start(i) + k]]

Ids == 1..Count
AgentOf(i) == ((i - 1) % Agents) + 1

TypeOK ==
  /\ items \in 0..MaxItems /\ workers \in 0..MaxWorkers /\ retries \in 0..MaxRetries
  /\ bad \subseteq 1..Agents
  /\ pc \in {"round", "reduce", "reducing", "done", "failed"}
  /\ status \in [Ids -> {"pending", "done", "failed"}]
  /\ attempts \in [Ids -> 0..MaxRetries + 1]
  /\ flying \subseteq Ids
  /\ answers \in [Ids -> {"none", "ok", "err"}]
  /\ sent \in [Ids -> 0..MaxRetries + 2]

(* plan_map_tasks and the first round; no partition, no round. *)
Init ==
  /\ items \in 0..MaxItems /\ workers \in 0..MaxWorkers /\ retries \in 0..MaxRetries
  /\ bad = {}
  /\ pc = IF Count = 0 THEN "reduce" ELSE "round"
  /\ status = [i \in Ids |-> "pending"] /\ attempts = [i \in Ids |-> 0]
  /\ flying = Ids /\ answers = [i \in Ids |-> "none"]
  /\ sent = [i \in Ids |-> 1]
  /\ inputs = <<>>

(* An agent goes away for good. *)
Break(a) ==
  /\ a \in 1..Agents \ bad
  /\ bad' = bad \cup {a}
  /\ UNCHANGED <<args, job, pc, flying, answers, sent, inputs>>

(* One send_command of the round returns: a MapResult, or an error, a timeout, a
   reply of another kind (result_outcome). *)
Answer(i) ==
  /\ pc = "round" /\ i \in flying
  /\ flying' = flying \ {i}
  /\ \E ok \in {"ok", "err"} :
       /\ AgentOf(i) \in bad => ok = "err"
       /\ answers' = [answers EXCEPT ![i] = ok]
  /\ UNCHANGED <<args, job, bad, pc, sent, inputs>>

(* JobState::record, for every answer of the round. *)
Record ==
  /\ status' = [i \in Ids |-> CASE answers[i] = "ok" -> "done"
                                [] answers[i] = "err" -> "failed" [] OTHER -> status[i]]
  /\ attempts' = [i \in Ids |-> attempts[i] + IF answers[i] = "err" THEN 1 ELSE 0]

Failed(st) == {i \in Ids : st[i] = "failed"}

(* Mutant: a partition that is not pending is complete. *)
NoPending(st) == \A i \in Ids : st[i] # "pending"
IsComplete(st) == \A i \in Ids : st[i] = "done"

IsExhausted(st, att) == \E i \in Failed(st) : att[i] > retries

Redispatchable(st, att) == {i \in Failed(st) : att[i] <= retries}

(* dispatch_round ends, and run_job decides what comes next. *)
EndRound ==
  /\ pc = "round" /\ flying = {}
  /\ Record
  /\ answers' = [i \in Ids |-> "none"]
  /\ LET again == Redispatchable(status', attempts') IN
     \/ IsComplete(status') /\ pc' = "reduce" /\ UNCHANGED <<flying, sent>>
     \/ /\ ~ IsComplete(status')
        /\ IsExhausted(status', attempts') \/ again = {}
        /\ pc' = "failed" /\ UNCHANGED <<flying, sent>>
     \/ /\ ~ IsComplete(status') /\ ~ IsExhausted(status', attempts') /\ again # {}
        /\ flying' = again
        /\ sent' = [i \in Ids |-> IF i \in again THEN Least(sent[i] + 1, MaxRetries + 2)
                                                 ELSE sent[i]]
        /\ UNCHANGED pc
  /\ UNCHANGED <<args, bad, inputs>>

(* build_reduce_task: the outputs in partition order; none for an empty job. *)
Reduce ==
  /\ pc = "reduce"
  /\ pc' = "reducing"
  /\ inputs' = SelectSeq([i \in Ids |-> IF status[i] = "done" THEN Partition[i] ELSE <<>>],
                         LAMBDA p : p # <<>>)
  /\ UNCHANGED <<args, job, bad, flying, answers, sent>>

(* The reduce task is not retried. *)
Reduced ==
  /\ pc = "reducing"
  /\ \E ok \in BOOLEAN : /\ 1 \in bad => ~ ok
                         /\ pc' = IF ok THEN "done" ELSE "failed"
  /\ UNCHANGED <<args, job, bad, flying, answers, sent, inputs>>

RunJob == (\E i \in Ids : Answer(i)) \/ EndRound \/ Reduce \/ Reduced
Next == RunJob \/ \E a \in 1..Agents : Break(a)

(* Every dispatch returns, by its timeout at the latest. *)
Spec == Init /\ [][Next]_vars /\ WF_vars(RunJob)

-----------------------------------------------------------------------------
(* Properties *)

(* The reduce task gets every item once and in the input's order, unless the job
   was asked to use no workers at all. *)
ReducesAll ==
  pc \in {"reducing", "done"} /\ workers > 0 => FlattenSeq(inputs) = [k \in 1..items |-> k]

(* No partition is dispatched more often than its first time and the retries, and
   a job fails before its reduce only when some partition used up all of them. *)
RetriesBounded ==
  /\ \A i \in Ids : sent[i] <= retries + 1
  /\ pc = "failed" /\ inputs = <<>> /\ items > 0 /\ workers > 0 =>
       \E i \in Ids : sent[i] = retries + 1 /\ status[i] = "failed"

(* A job ends, whatever fails. *)
Ends == <>(pc \in {"done", "failed"})
=============================================================================
