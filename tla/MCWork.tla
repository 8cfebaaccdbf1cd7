------------------------------- MODULE MCWork -------------------------------
(***************************************************************************)
(* What is waited for, for TLC: a watched task (Tasks), a job spread over   *)
(* agents (MapReduce), an order to send a file or a directory (Sourcing),   *)
(* and senders that a full window holds up (UdpChannel).  They share no     *)
(* state: a behaviour of this module is one of the component that part      *)
(* names.                                                                   *)
(***************************************************************************)
EXTENDS Tasks, TLC

CONSTANTS None

VARIABLES
  part,  \* the component that runs; the others stay as they start
  jobs_items, jobs_workers, jobs_retries, jobs_bad, jobs_pc, jobs_status,
  jobs_attempts, jobs_flying, jobs_answers, jobs_sent, jobs_inputs,
  order_mail, order_loop, order_wedged, order_gone, order_mode, order_cached,
  order_stage, order_unsent, order_reply, order_awaited, order_answer, order_store,
  order_blame, order_used,
  win_open, win_listening, win_call, win_sendSeq, win_packet, win_pending,
  win_retries, win_fastRtx, win_cwnd, win_adjust, win_backoff, win_data,
  win_acks, win_closes, win_lru, win_parts, win_delivered, win_arrived,
  win_abandoned, win_evicted

(* Two calls that wait for one task. *)
BothWait == [w \in {"w1", "w2"} |-> "t1"]

(* An MCP node that is told to send something to an agent. *)
Source(o) == "m"
Destination(o) == "g"

(* Two one-packet messages, on a channel that either end may close, or whose sends
   may fail. *)
OneAndOne == [m \in {"m1", "m2"} |-> 1]

Reducing == INSTANCE MapReduce WITH
  MaxItems <- 4, MaxWorkers <- 4, MaxRetries <- 2, Agents <- 2,
  items <- jobs_items, workers <- jobs_workers, retries <- jobs_retries,
  bad <- jobs_bad, pc <- jobs_pc, status <- jobs_status,
  attempts <- jobs_attempts, flying <- jobs_flying, answers <- jobs_answers,
  sent <- jobs_sent, inputs <- jobs_inputs
Sending == INSTANCE Sourcing WITH
  McpNode <- {"m"}, AgentNode <- {"g"}, Order <- {"p"}, SourceOf <- Source,
  DestinationOf <- Destination, MaxJobs <- 1, MaxChanges <- 1, MaxLost <- 1,
  mail <- order_mail, loop <- order_loop, wedged <- order_wedged,
  gone <- order_gone, mode <- order_mode, cached <- order_cached,
  stage <- order_stage, unsent <- order_unsent, reply <- order_reply,
  awaited <- order_awaited, answer <- order_answer, store <- order_store,
  blame <- order_blame, used <- order_used
Pacing == INSTANCE UdpChannel WITH
  Msg <- {"m1", "m2"}, Frags <- OneAndOne, MaxPackets <- 2, MinCwnd <- 1,
  InitCwnd <- 1, MaxCwnd <- 2, DupAck <- 1, MaxRetx <- 1, MaxPartial <- 1,
  Faults <- {"close"},
  open <- win_open, listening <- win_listening, call <- win_call,
  sendSeq <- win_sendSeq, packet <- win_packet, pending <- win_pending,
  retries <- win_retries, fastRtx <- win_fastRtx, cwnd <- win_cwnd,
  adjust <- win_adjust, backoff <- win_backoff, data <- win_data,
  acks <- win_acks, closes <- win_closes, lru <- win_lru,
  parts <- win_parts, delivered <- win_delivered, arrived <- win_arrived,
  abandoned <- win_abandoned, evicted <- win_evicted
Failing == INSTANCE UdpChannel WITH
  Msg <- {"m1", "m2"}, Frags <- OneAndOne, MaxPackets <- 2, MinCwnd <- 1,
  InitCwnd <- 1, MaxCwnd <- 2, DupAck <- 1, MaxRetx <- 1, MaxPartial <- 1,
  Faults <- {"send_error"},
  open <- win_open, listening <- win_listening, call <- win_call,
  sendSeq <- win_sendSeq, packet <- win_packet, pending <- win_pending,
  retries <- win_retries, fastRtx <- win_fastRtx, cwnd <- win_cwnd,
  adjust <- win_adjust, backoff <- win_backoff, data <- win_data,
  acks <- win_acks, closes <- win_closes, lru <- win_lru,
  parts <- win_parts, delivered <- win_delivered, arrived <- win_arrived,
  abandoned <- win_abandoned, evicted <- win_evicted

-----------------------------------------------------------------------------
jobsVars == <<jobs_items, jobs_workers, jobs_retries, jobs_bad, jobs_pc, jobs_status,
    jobs_attempts, jobs_flying, jobs_answers, jobs_sent, jobs_inputs>>
orderVars == <<order_mail, order_loop, order_wedged, order_gone, order_mode, order_cached,
    order_stage, order_unsent, order_reply, order_awaited, order_answer, order_store,
    order_blame, order_used>>
winVars == <<win_open, win_listening, win_call, win_sendSeq, win_packet, win_pending,
    win_retries, win_fastRtx, win_cwnd, win_adjust, win_backoff, win_data,
    win_acks, win_closes, win_lru, win_parts, win_delivered, win_arrived,
    win_abandoned, win_evicted>>
all == <<part, vars, jobsVars, orderVars, winVars>>

AllInit ==
  /\ part \in {"tasks", "jobs", "order", "window", "failing"}
  /\ Init
  /\ Reducing!Init
  /\ part # "jobs" => jobs_items = 0 /\ jobs_workers = 0 /\ jobs_retries = 0
  /\ Sending!SourceInit
  /\ part # "order" => order_wedged = {} /\ order_unsent = [o \in {"p"} |-> <<"slice">>]
       /\ order_mode = [n \in {"m", "g"} |-> "plan"]
  /\ Pacing!Init

AllNext ==
  /\ UNCHANGED part
  /\ \/ part = "tasks" /\ Next /\ UNCHANGED <<jobsVars, orderVars, winVars>>
     \/ part = "jobs" /\ Reducing!Next /\ UNCHANGED <<vars, orderVars, winVars>>
     \/ part = "order" /\ Sending!SourceNext /\ UNCHANGED <<vars, jobsVars, winVars>>
     \/ part = "window" /\ Pacing!Next /\ UNCHANGED <<vars, jobsVars, orderVars>>
     \/ part = "failing" /\ Failing!Next /\ UNCHANGED <<vars, jobsVars, orderVars>>

AllFairness ==
  /\ WF_vars(part = "tasks" /\ HandleEvent)
  /\ \A w \in {"w1", "w2"} : WF_vars(part = "tasks" /\ Arm(w))
  /\ \A w \in {"w1", "w2"} : WF_vars(part = "tasks" /\ Check(w))
  /\ \A w \in {"w1", "w2"} : WF_vars(part = "tasks" /\ Woken(w))
  /\ WF_jobsVars(part = "jobs" /\ Reducing!RunJob)
  /\ WF_orderVars(part = "order" /\ Sending!OrderTask("p"))
  /\ \A n \in {"m", "g"} : WF_orderVars(part = "order" /\ Sending!ReadNext(n))
  /\ \A n \in {"m", "g"} : WF_orderVars(part = "order" /\ Sending!JobEnds(n))
  /\ \A m \in {"m1", "m2"} : WF_winVars(part = "window" /\ Pacing!Call(m))
  /\ WF_winVars(part = "window" /\ Pacing!AdjustWindow)
  /\ WF_winVars(part = "window" /\ Pacing!BackOff)
  /\ \A q \in 0..2 : WF_winVars(part = "window" /\ Pacing!Expires(q))
  /\ \A m \in {"m1", "m2"} : WF_winVars(part = "failing" /\ Failing!Call(m))
  /\ WF_winVars(part = "failing" /\ Failing!AdjustWindow)
  /\ WF_winVars(part = "failing" /\ Failing!BackOff)
  /\ \A q \in 0..2 : WF_winVars(part = "failing" /\ Failing!Expires(q))

AllSpec == AllInit /\ [][AllNext]_all /\ AllFairness

-----------------------------------------------------------------------------
(* The properties of each component, of the behaviours that are its own; its
   module says what they are about. *)

(* MapReduce: the reduce task gets every item once, in order. *)
ReducesAll == Reducing!ReducesAll

(* Sourcing: every order is answered. *)
OrdersAnswered == part = "order" => Sending!OrdersAnswered

(* UdpChannel: no sender waits for the window for good. *)
PacedEnds ==
  /\ part = "window" => Pacing!PacedEnds
  /\ part = "failing" => Failing!PacedEnds
=============================================================================
