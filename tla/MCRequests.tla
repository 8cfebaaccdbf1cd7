----------------------------- MODULE MCRequests -----------------------------
(***************************************************************************)
(* What a request runs through, for TLC: the components between a           *)
(* controller and what is done for it share no state, so a behaviour of     *)
(* this module is a behaviour of one of them, as part says: UdpChannel with *)
(* two fragmented messages, Shell, SessionIndex, the Durable Object's room  *)
(* (WorkerRoom: an agent and an observer that ask each other, and agents    *)
(* whose sockets die), RoutingLoops, or Wire with builds of another age.    *)
(***************************************************************************)
EXTENDS UdpChannel, Wire, WorkerRoom, RoutingLoops, Shell, SessionIndex, TLC

CONSTANTS x1, x2  \* messages, search threads, sockets of one agent or agents: alike

VARIABLES
  part   \* the component that runs; the others stay as they start

(* Two fragmented messages sent at once, and room to reassemble only one. *)
TwoAndTwo == (x1 :> 2) @@ (x2 :> 2)
(* Two sockets of one agent that may stop pinging, one of another, and an observer. *)
SocketIds == x1 :> "i" @@ x2 :> "i" @@ "d3" :> "j" @@ "o" :> None
Alike == Permutations({x1, x2})

(* What the index is asked for: sessions of an ended task that two threads search for   *)
(* while others may be dated by their creation, or a list that shows part of them.      *)
OnlyChat(s) == \A o \in Chat \ {s} : hist[o] = 0
OneThread == (\E t \in Search : search[t].pc = "idle") /\ hist["c1"] = 0
             /\ \A s \in Chat : hist[s] <= 1

-----------------------------------------------------------------------------
all == <<part, vars, wireVars, roomVars, loopsVars, shellVars, indexVars>>

(* Where a component stays while another one runs. *)
WireStill  == relay = "rust" /\ version = [n \in Node |-> "new"] /\ keyed = {x1, x2}
LoopsStill ==
  /\ host = [c \in Session |-> "h1"] /\ target = [kind |-> "all", arg |-> None]
  /\ cap = [c \in Session |-> [accepts |-> TRUE, autonomous |-> FALSE, at |-> 0, labels |-> {}]]
ShellStill == program = "hang" /\ behind = "none" /\ ample = FALSE /\ unsent = 0

(* Two of three connections share a machine, and names are interchangeable. *)
TwoShare == host["c1"] = host["c2"] /\ host["c1"] = "h1"

Parts == {"reassembly", "shell", "index", "providers", "rewritten", "room", "reaper", "loops",
          "wire"}

AllInit ==
  /\ part \in Parts
  /\ Init /\ RoomInit
  /\ part # "wire" => WireStill
  /\ WireInit
  /\ part # "loops" => LoopsStill
  /\ LoopsInit /\ TwoShare
  /\ part # "shell" => ShellStill
  /\ ShellInit
  /\ IndexInit

(* An agent and an observer that ask each other. *)
Asking == LET connected == {s \in Sock : sock[s] # "new"} IN
          "d3" \notin connected /\ ~ {x1, x2} \subseteq connected
(* Agents whose sockets die. *)
Reaping == sock["o"] = "new" /\ asked = {} /\ got = {}

AllNext ==
  /\ UNCHANGED part
  /\ \/ /\ part = "reassembly" /\ Next
        /\ UNCHANGED <<wireVars, roomVars, loopsVars, shellVars, indexVars>>
     \/ /\ part = "wire" /\ WireNext
        /\ UNCHANGED <<vars, roomVars, loopsVars, shellVars, indexVars>>
     \/ /\ part = "room" /\ RoomNext /\ Asking'
        /\ UNCHANGED <<vars, wireVars, loopsVars, shellVars, indexVars>>
     \/ /\ part = "reaper" /\ RoomNext /\ Reaping'
        /\ UNCHANGED <<vars, wireVars, loopsVars, shellVars, indexVars>>
     \/ /\ part = "loops" /\ LoopsNext
        /\ UNCHANGED <<vars, wireVars, roomVars, shellVars, indexVars>>
     \/ /\ part = "shell" /\ ShellNext
        /\ UNCHANGED <<vars, wireVars, roomVars, loopsVars, indexVars>>
     \/ /\ part \in {"index", "providers", "rewritten"} /\ IndexNext
        /\ \/ part = "index" /\ OnlyChat("c1")'
           \/ part = "providers" /\ OneThread'
           \/ part = "rewritten" /\ OnlyChat("c3")'
        /\ UNCHANGED <<vars, wireVars, roomVars, loopsVars, shellVars>>

AllSpec == AllInit /\ [][AllNext]_all
=============================================================================
