-------------------------------- MODULE HostsProofs --------------------------------
(***************************************************************************)
(* What holds of the hosts of a room: an agent executes a command once,      *)
(* however it travels, and the collector of a call goes with it (Dispatch);  *)
(* the sessions of a machine gate by the mode that was set (Executor); a sync *)
(* leaves both trees the same, or says why not (SyncDir).                    *)
(***************************************************************************)
EXTENDS Dispatch, Executor, SyncDir, FiniteSetTheorems, SequenceTheorems, TLAPS

(***************************************************************************)
(* Dispatch, for any agents, calls and targets                               *)
(***************************************************************************)

-----------------------------------------------------------------------------
(* Types *)

(* What the relay sends of a call, and what dispatch sends directly. *)
LEMMA OrdersToTyped ==
  ASSUME NEW c \in Request, NEW S \in SUBSET Target[c], NEW via \in {"direct", "relay"}
  PROVE  /\ OrdersTo(c, S, via) \subseteq AgentOrder
         /\ \A o \in OrdersTo(c, S, via) : o.call = c
         /\ \A o, p \in OrdersTo(c, S, via) : o.to = p.to => o = p
<1>1. Target[c] \subseteq Agent
  BY DispatchAssumption
<1> QED BY <1>1 DEF OrdersTo, AgentOrder

(* An agent replies at most once on each path. *)
LEMMA RepliesOfTyped ==
  ASSUME NEW o \in AgentOrder, NEW ok \in BOOLEAN
  PROVE  /\ Paths(o, ok) \subseteq {"direct", "relay"}
         /\ RepliesOf(o, ok) \subseteq Reply
         /\ \A r \in RepliesOf(o, ok) : r.call = o.call /\ r.from = o.to /\ r.via \in Paths(o, ok)
         /\ \A r, s \in RepliesOf(o, ok) : r.via = s.via => r = s
<1>1. Paths(o, ok) \subseteq {"direct", "relay"}
  BY DEF Paths, HostPaths, NodePaths, AgentOrder
<1>2. ASSUME NEW via \in Paths(o, ok)
      PROVE  [call |-> o.call, from |-> o.to, via |-> via,
              ok |-> ok /\ (via = "relay" => o.call \notin BigResult)] \in Reply
  <2>1. (ok /\ (via = "relay" => o.call \notin BigResult)) \in BOOLEAN
    OBVIOUS
  <2>2. o.call \in Request /\ o.to \in Agent /\ via \in {"direct", "relay"}
    BY <1>1 DEF AgentOrder
  <2> QED BY <2>1, <2>2 DEF Reply
<1>3. RepliesOf(o, ok) \subseteq Reply
  BY <1>2 DEF RepliesOf
<1>4. \A r \in RepliesOf(o, ok) : r.call = o.call /\ r.from = o.to /\ r.via \in Paths(o, ok)
  BY DEF RepliesOf
<1>5. \A r, s \in RepliesOf(o, ok) : r.via = s.via => r = s
  BY DEF RepliesOf
<1> QED BY <1>1, <1>3, <1>4, <1>5

(* Whatever is sent, executed, lost or refused, the variables keep their types. *)
THEOREM TypeCorrect == Spec => []TypeOK
<1>1. Init => TypeOK
  <2>1. Cardinality(Agent) \in Nat
    BY DispatchAssumption, FS_CardinalityType
  <2> QED BY <2>1 DEF Init, TypeOK, Phase
<1>2. ASSUME TypeOK, [Next]_vars PROVE TypeOK'
  <2> USE <1>2
  <2>1. CASE UNCHANGED vars
    BY <2>1 DEF TypeOK, vars, network, caller, wires, ghosts
  <2>2. ASSUME NEW a \in Agent, Move(a) PROVE TypeOK'
    BY <2>2 DEF TypeOK, Move, caller, wires, ghosts
  <2>3. CASE RosterFrame
    BY <2>3 DEF TypeOK, RosterFrame, caller, wires, ghosts
  <2>4. ASSUME NEW c \in Request, Caller(c) PROVE TypeOK'
    <3>1. CASE Begin(c)
      <4>1. Cardinality(Target[c] \cap roster) \in 0..Cardinality(Agent)
        <5>1. Target[c] \cap roster \in SUBSET Agent
          BY DEF TypeOK
        <5>2. /\ IsFiniteSet(Target[c] \cap roster)
              /\ Cardinality(Target[c] \cap roster) <= Cardinality(Agent)
          BY <5>1, DispatchAssumption, FS_Subset
        <5> QED BY <5>2, DispatchAssumption, FS_CardinalityType
      <4> QED BY <3>1, <4>1 DEF TypeOK, Begin, Goto, Phase, network, wires, ghosts
    <3>2. CASE SendDirect(c) \/ SendDirectFails(c)
      <4>1. OrdersTo(c, Target[c], "direct") \subseteq AgentOrder
        BY OrdersToTyped
      <4> QED BY <3>2, <4>1 DEF TypeOK, SendDirect, SendDirectFails, Goto, Phase, network, ghosts
    <3>3. CASE Refuse(c) \/ SendRelay(c)
      BY <3>3 DEF TypeOK, Refuse, SendRelay, Goto, Phase, network, wires, ghosts
    <3>4. CASE Collect(c)
      <4>1. inbox[c] \in Seq(Reply) /\ inbox[c] # <<>> /\ got[c] \in Seq(Reply)
        BY <3>4 DEF TypeOK, Collect
      <4>2. Head(inbox[c]) \in Reply /\ Tail(inbox[c]) \in Seq(Reply)
        BY <4>1, HeadTailProperties
      <4>3. Append(got[c], Head(inbox[c])) \in Seq(Reply)
        BY <4>1, <4>2, AppendProperties
      <4> QED BY <3>4, <4>2, <4>3 DEF TypeOK, Collect, network, wires, ghosts
    <3>5. CASE Finish(c) \/ GiveUp(c)
      BY <3>5 DEF TypeOK, Finish, GiveUp, Goto, Phase, network, wires, ghosts
    <3>6. CASE Cleanup(c) \/ Drop(c)
      BY <3>6 DEF TypeOK, Cleanup, Drop, Goto, Phase, network, wires, ghosts
    <3> QED BY <2>4, <3>1, <3>2, <3>3, <3>4, <3>5, <3>6 DEF Caller
  <2>5. ASSUME NEW c \in Request, Relay(c) PROVE TypeOK'
    <3>1. OrdersTo(c, Target[c] \cap room, "relay") \subseteq AgentOrder
      BY OrdersToTyped
    <3>2. [call |-> c, from |-> None, ok |-> FALSE, via |-> "direct"] \in Reply
      BY DEF Reply
    <3> QED BY <2>5, <3>1, <3>2 DEF TypeOK, Relay, network, caller, ghosts
  <2>6. ASSUME NEW c \in Request, NEW a \in Agent, Duplicate(c, a) PROVE TypeOK'
    <3>1. OrdersTo(c, {a}, "direct") \subseteq AgentOrder
      BY <2>6, OrdersToTyped DEF Duplicate
    <3> QED BY <2>6, <3>1 DEF TypeOK, Duplicate, network, caller
  <2>7. ASSUME NEW o \in orders, NEW ok \in BOOLEAN, Run(o, ok) PROVE TypeOK'
    <3>1. o \in AgentOrder /\ RepliesOf(o, ok) \subseteq Reply
      BY RepliesOfTyped DEF TypeOK
    <3>2. o.call \in Request /\ o.to \in Agent
      BY <3>1 DEF AgentOrder
    <3>3. ran' \in [Request -> [Agent -> Nat]]
      BY <2>7, <3>2 DEF TypeOK, Run
    <3> QED BY <2>7, <3>1, <3>2, <3>3 DEF TypeOK, Run, network, caller
  <2>8. CASE Lose
    BY <2>8 DEF TypeOK, Lose, network, caller, ghosts
  <2>9. ASSUME NEW r \in replies, NEW reaches \in BOOLEAN, Deliver(r, reaches) PROVE TypeOK'
    <3>1. r \in Reply /\ r.call \in Request /\ inbox[r.call] \in Seq(Reply)
      BY DEF TypeOK, Reply
    <3>2. Append(inbox[r.call], r) \in Seq(Reply)
      BY <3>1, AppendProperties
    <3> QED BY <2>9, <3>1, <3>2 DEF TypeOK, Deliver, network, caller, ghosts
  <2>10. ASSUME NEW r \in replies, Receive(r) \/ ReceiveDirect(r) PROVE TypeOK'
    <3>1. \E reaches \in BOOLEAN : Deliver(r, reaches)
      <4>1. TRUE \in BOOLEAN /\ FALSE \in BOOLEAN
        OBVIOUS
      <4>2. CASE Receive(r) /\ Reaches(r)
        <5>1. Deliver(r, TRUE)
          BY <4>2 DEF Receive, Deliver
        <5> QED BY <5>1, <4>1
      <4>3. CASE Receive(r) /\ ~ Reaches(r)
        <5>1. Deliver(r, FALSE)
          BY <4>3 DEF Receive, Deliver
        <5> QED BY <5>1, <4>1
      <4>4. CASE ReceiveDirect(r)
        BY <4>4, <4>1 DEF ReceiveDirect
      <4> QED BY <2>10, <4>2, <4>3, <4>4
    <3> QED BY <2>9, <3>1
  <2> QED BY <1>2, <2>1, <2>2, <2>3, <2>4, <2>5, <2>6, <2>7, <2>8, <2>10 DEF Next
<1> QED BY <1>1, <1>2, PTL DEF Spec

-----------------------------------------------------------------------------
(* Collectors *)

(* dispatch registers a collector before it sends and removes it on every way
   out, also when it refuses a command; only a future dropped at an await leaves
   one behind. *)
THEOREM CollectorsReleasedHolds == Spec => []CollectorsReleased
<1> DEFINE Unfinished == {"send", "relay", "collect", "cleanup", "dropped"}
           Phased == pc \in [Request -> Phase]
<1>1. Init => Phased /\ CollectorsReleased
  BY DEF Init, Phase, CollectorsReleased
<1>2. ASSUME Phased, CollectorsReleased, [Next]_vars
      PROVE  Phased' /\ CollectorsReleased'
  <2>1. CASE UNCHANGED <<pc, pending>>
    BY <1>2, <2>1 DEF CollectorsReleased
  <2>2. ASSUME NEW c \in Request, NEW to \in Phase, pc' = [pc EXCEPT ![c] = to],
               \/ pc[c] \in Unfinished /\ to \in Unfinished /\ pending' = pending
               \/ to \in Unfinished /\ pending' = pending \cup {c}
               \/ to \notin Unfinished /\ pending' = pending \ {c}
        PROVE  Phased' /\ CollectorsReleased'
    BY <1>2, <2>2 DEF CollectorsReleased
  <2>3. ASSUME NEW c \in Request, Caller(c) PROVE Phased' /\ CollectorsReleased'
    <3>1. CASE Begin(c)
      BY <2>2, <3>1 DEF Begin, Goto, Phase
    <3>2. CASE SendDirect(c) \/ SendDirectFails(c)
      BY <2>2, <3>2 DEF SendDirect, SendDirectFails, Goto, Phase
    <3>3. CASE Refuse(c)
      BY <2>2, <3>3 DEF Refuse, Goto, Phase
    <3>4. CASE SendRelay(c)
      BY <2>2, <3>4 DEF SendRelay, ByRelay, Goto, Phase
    <3>5. CASE Collect(c)
      BY <2>1, <3>5 DEF Collect
    <3>6. CASE Finish(c) \/ GiveUp(c)
      BY <2>2, <3>6 DEF Finish, GiveUp, Goto, Phase
    <3>7. CASE Cleanup(c)
      BY <2>2, <3>7 DEF Cleanup, Goto, Phase
    <3>8. CASE Drop(c)
      BY <2>2, <3>8 DEF Drop, Goto, Phase
    <3> QED BY <2>3, <3>1, <3>2, <3>3, <3>4, <3>5, <3>6, <3>7, <3>8 DEF Caller
  <2> QED BY <1>2, <2>1, <2>3 DEF Next, Move, RosterFrame, Relay, Duplicate, Run, Lose, Receive,
             ReceiveDirect, Deliver, caller, vars
<1> QED BY <1>1, <1>2, PTL DEF Spec

-----------------------------------------------------------------------------
(* Executions *)

Typed ==
  /\ pc \in [Request -> Phase]
  /\ asked \subseteq Request /\ orders \subseteq AgentOrder
  /\ ran \in [Request -> [Agent -> Nat]]

(* A call whose command no agent can have yet. *)
Early(c) == pc[c] \in {"new", "send", "relay"}
Unsent(c) == Early(c) \/ c \in asked

OrdersOf(c) == {o \in orders : o.call = c}

(* What holds of a call whose command was not repeated behind dispatch's back: it is
   sent on one path, to each of its agents once, and an order on its way is the only
   one to its agent, which has not executed the command yet. *)
Once(c) ==
  /\ Early(c) => c \notin asked
  /\ Unsent(c) => OrdersOf(c) = {} /\ \A a \in Agent : ran[c][a] = 0
  /\ \A a \in Agent : ran[c][a] <= 1
  /\ \A o \in OrdersOf(c) : ran[c][o.to] = 0
  /\ \A o, p \in OrdersOf(c) : o.to = p.to => o = p

ExecutesOnce == Typed /\ \A c \in Request \ repeated : Once(c)

(* A step that sends nothing and executes nothing keeps a call's record, unless it
   brings the call back to where nothing was sent. *)
LEMMA OnceKept ==
  ASSUME NEW c \in Request, Once(c), ran' = ran, OrdersOf(c)' \subseteq OrdersOf(c),
         Early(c)' => Early(c), c \in asked' => c \in asked
  PROVE  Once(c)'
BY DEF Once, Unsent

(* A call is sent, once and on one path. *)
LEMMA OnceSent ==
  ASSUME NEW c \in Request, Once(c), Unsent(c), Typed', ran' = ran, ~ Unsent(c)',
         NEW S \in SUBSET Target[c], NEW via \in {"direct", "relay"},
         orders' = orders \cup OrdersTo(c, S, via)
  PROVE  Once(c)'
<1>1. OrdersOf(c)' \subseteq OrdersTo(c, S, via)
  BY DEF Once, OrdersOf
<1>2. \A o \in OrdersOf(c)' : o.to \in Agent
  BY DEF OrdersOf, Typed, AgentOrder
<1> QED BY <1>1, <1>2, OrdersToTyped DEF Once, Unsent

(* An agent executes a command once, whichever path it takes and whatever fails,
   except when the direct channel repeats it: a lost acknowledgment, or a send that
   failed and was retransmitted behind dispatch's back. *)
THEOREM ExecutedOnceHolds == Spec => []ExecutedOnce
<1>1. Init => ExecutesOnce
  BY DEF Init, ExecutesOnce, Typed, Phase, Once, OrdersOf, Unsent, Early
<1>2. ASSUME ExecutesOnce, [Next]_vars PROVE ExecutesOnce'
  <2> USE <1>2 DEF ExecutesOnce
  <2>1. CASE UNCHANGED <<pc, asked, orders, ran, repeated>>
    BY <2>1 DEF Typed, Once, OrdersOf, Unsent, Early
  (* The other calls' records do not change when one call's do. *)
  <2>2. ASSUME NEW c \in Request, NEW to \in Phase, pc' = [pc EXCEPT ![c] = to], ran' = ran,
               asked' \in {asked, asked \cup {c}, asked \ {c}},
               orders' \subseteq AgentOrder, repeated \subseteq repeated',
               \A d \in Request \ {c} : OrdersOf(d)' \subseteq OrdersOf(d),
               c \notin repeated' => Once(c)'
        PROVE  ExecutesOnce'
    <3>1. Typed'
      BY <2>2 DEF Typed
    <3>2. ASSUME NEW d \in Request \ repeated' PROVE Once(d)'
      <4>1. CASE d = c
        BY <2>2, <4>1, <3>2
      <4>2. CASE d # c
        <5>1. pc'[d] = pc[d] /\ (d \in asked' => d \in asked)
          BY <2>2, <4>2 DEF Typed
        <5> QED BY <2>2, <3>2, <4>2, <5>1, OnceKept DEF Early
      <4> QED BY <4>1, <4>2
    <3> QED BY <3>1, <3>2
  <2>3. ASSUME NEW c \in Request, Caller(c) PROVE ExecutesOnce'
    <3>1. CASE SendDirect(c)
      <4>1. Typed'
        BY <3>1, OrdersToTyped DEF SendDirect, Goto, Typed, Phase, ghosts
      <4>2. c \notin repeated => Once(c)'
        BY <3>1, <4>1, OnceSent DEF SendDirect, Goto, ghosts, Typed, Unsent, Early, Once
      <4>3. \A d \in Request \ {c} : OrdersOf(d)' \subseteq OrdersOf(d)
        BY <3>1, OrdersToTyped DEF SendDirect, OrdersOf
      <4> QED BY <3>1, <4>1, <4>2, <4>3, <2>2 DEF SendDirect, Goto, Typed, Phase, ghosts
    <3>2. CASE SendDirectFails(c)
      <4>1. /\ orders' \subseteq AgentOrder
            /\ \A d \in Request \ {c} : OrdersOf(d)' \subseteq OrdersOf(d)
            /\ repeated \subseteq repeated'
            /\ c \notin repeated' => orders' = orders
        BY <3>2, OrdersToTyped DEF SendDirectFails, Typed, OrdersOf
      <4>2. c \notin repeated' => Once(c)'
        BY <3>2, <4>1, OnceKept DEF SendDirectFails, Goto, Typed, Early, OrdersOf
      <4> QED BY <3>2, <4>1, <4>2, <2>2 DEF SendDirectFails, Goto, Typed, Phase
    <3>3. CASE SendRelay(c)
      <4>1. c \notin repeated' => Once(c)'
        BY <3>3 DEF SendRelay, ByRelay, Goto, ghosts, Typed, Once, Unsent, Early, OrdersOf
      <4> QED BY <3>3, <4>1, <2>2 DEF SendRelay, Goto, ghosts, Typed, Phase, OrdersOf
    <3>4. ASSUME NEW to \in Phase, pc' = [pc EXCEPT ![c] = to],
                 to \in {"new", "send", "relay"} => Early(c),
                 UNCHANGED <<asked, orders, ran, repeated>>
          PROVE  ExecutesOnce'
      <4>1. c \notin repeated' => Once(c)'
        BY <3>4, OnceKept DEF Typed, Early, OrdersOf
      <4> QED BY <3>4, <4>1, <2>2 DEF Typed, OrdersOf
    <3>5. CASE Begin(c)
      BY <3>4, <3>5 DEF Begin, Goto, Phase, Early, wires, ghosts
    <3>6. CASE Refuse(c)
      BY <3>4, <3>6 DEF Refuse, Goto, Phase, wires, ghosts
    <3>7. CASE Collect(c)
      BY <2>1, <3>7 DEF Collect, wires, ghosts
    <3>8. CASE Finish(c) \/ GiveUp(c)
      BY <3>4, <3>8 DEF Finish, GiveUp, Goto, Phase, wires, ghosts
    <3>9. CASE Cleanup(c) \/ Drop(c)
      BY <3>4, <3>9 DEF Cleanup, Drop, Goto, Phase, wires, ghosts
    <3> QED BY <2>3, <3>1, <3>2, <3>3, <3>5, <3>6, <3>7, <3>8, <3>9 DEF Caller
  <2>4. ASSUME NEW c \in Request, Relay(c) PROVE ExecutesOnce'
    <3>1. CASE Target[c] \cap room = {}
      <4>1. /\ asked' = asked \ {c} /\ UNCHANGED <<pc, orders, ran, repeated>>
        BY <2>4, <3>1 DEF Relay, caller, ghosts
      <4>2. \A d \in Request \ repeated' : Once(d)'
        BY <4>1, OnceKept DEF Early, OrdersOf
      <4> QED BY <4>1, <4>2 DEF Typed
    <3>2. CASE Target[c] \cap room # {}
      <4>1. /\ asked' = asked \ {c} /\ UNCHANGED <<pc, ran, repeated>>
            /\ orders' = orders \cup OrdersTo(c, Target[c] \cap room, "relay")
        BY <2>4, <3>2 DEF Relay, caller, ghosts
      <4>2. Typed'
        BY <4>1, OrdersToTyped DEF Typed
      <4>3. ASSUME NEW d \in Request \ repeated' PROVE Once(d)'
        <5>1. CASE d = c
          BY <2>4, <4>1, <4>2, <4>3, <5>1, OnceSent DEF Relay, Unsent, Early, Once
        <5>2. CASE d # c
          <6>1. OrdersOf(d)' \subseteq OrdersOf(d)
            BY <4>1, <5>2, OrdersToTyped DEF OrdersOf
          <6> QED BY <4>1, <4>3, <6>1, OnceKept DEF Early
        <5> QED BY <5>1, <5>2
      <4> QED BY <4>2, <4>3
    <3> QED BY <3>1, <3>2
  <2>5. ASSUME NEW c \in Request, NEW a \in Agent, Duplicate(c, a) PROVE ExecutesOnce'
    <3>1. /\ OrdersTo(c, {a}, "direct") \subseteq AgentOrder
          /\ \A o \in OrdersTo(c, {a}, "direct") : o.call = c
      BY <2>5, OrdersToTyped DEF Duplicate
    <3>2. Typed'
      BY <2>5, <3>1 DEF Duplicate, Typed, caller
    <3>3. ASSUME NEW d \in Request \ repeated' PROVE Once(d)'
      <4>1. d # c /\ d \notin repeated
        BY <2>5, <3>3 DEF Duplicate
      <4>2. OrdersOf(d)' \subseteq OrdersOf(d)
        BY <2>5, <3>1, <4>1 DEF Duplicate, OrdersOf
      <4> QED BY <2>5, <3>3, <4>1, <4>2, OnceKept DEF Duplicate, Early, caller
    <3> QED BY <3>2, <3>3
  <2>6. ASSUME NEW o \in orders, NEW ok \in BOOLEAN, Run(o, ok) PROVE ExecutesOnce'
    <3>1. /\ o.call \in Request /\ o.to \in Agent
          /\ orders' = orders \ {o} /\ UNCHANGED <<pc, asked, repeated>>
          /\ ran' = [ran EXCEPT ![o.call][o.to] = @ + 1]
      BY <2>6 DEF Run, Typed, AgentOrder, caller
    <3>2. Typed'
      BY <3>1 DEF Typed
    <3>3. ASSUME NEW d \in Request \ repeated' PROVE Once(d)'
      <4>1. CASE d = o.call
        <5>1. o \in OrdersOf(d) /\ OrdersOf(d)' = OrdersOf(d) \ {o} /\ Once(d)
          BY <3>1, <3>3, <4>1 DEF OrdersOf
        <5>2. ~ Unsent(d) /\ ~ Unsent(d)' /\ ran[d][o.to] = 0
          BY <3>1, <5>1 DEF Once, Unsent, Early
        <5>3. /\ ran'[d][o.to] = 1
              /\ \A a \in Agent \ {o.to} : ran'[d][a] = ran[d][a]
          BY <3>1, <4>1, <5>2 DEF Typed
        <5>4. \A p \in OrdersOf(d)' : p.to \in Agent \ {o.to}
          BY <5>1 DEF Once, OrdersOf, Typed, AgentOrder
        <5> QED BY <5>1, <5>2, <5>3, <5>4 DEF Once, Unsent
      <4>2. CASE d # o.call
        <5>1. ran'[d] = ran[d] /\ OrdersOf(d)' = OrdersOf(d)
          BY <3>1, <4>2 DEF Typed, OrdersOf
        <5> QED BY <3>1, <3>3, <5>1 DEF Once, Unsent, Early
      <4> QED BY <4>1, <4>2
    <3> QED BY <3>2, <3>3
  <2>7. CASE Lose
    <3>1. orders' \subseteq orders /\ UNCHANGED <<pc, asked, ran, repeated>>
      BY <2>7 DEF Lose, caller, ghosts
    <3>2. \A d \in Request \ repeated' : Once(d)'
      BY <3>1, OnceKept DEF OrdersOf, Early
    <3> QED BY <3>1, <3>2 DEF Typed
  <2> QED BY <1>2, <2>1, <2>3, <2>4, <2>5, <2>6, <2>7 DEF Next, Move, RosterFrame, Receive,
             ReceiveDirect, Deliver, caller, wires, ghosts, vars
<1>3. ExecutesOnce => ExecutedOnce
  BY DEF ExecutesOnce, ExecutedOnce, Once
<1> QED BY <1>1, <1>2, <1>3, PTL DEF Spec

-----------------------------------------------------------------------------
(* Replies *)

(* The replies that have reached a call's collector, read or not, and those on
   their way. *)
Line(c) == got[c] \o inbox[c]
Flying(c) == {r \in replies : r.call = c}

Names(l) == {l[i].from : i \in DOMAIN l}
Distinct(l) == \A i, j \in DOMAIN l : l[i].from = l[j].from => i = j

(* Who has answered a call: the relay does so before the command has left it, and an
   agent once it has executed it. *)
Said(c, n) == IF n = None THEN ~ Unsent(c) ELSE ran[c][n] > 0

(* What holds of a call to which no machine replied twice. *)
EachOnce(c) ==
  /\ Distinct(Line(c))
  /\ \A n \in Names(Line(c)) : Said(c, n)
  /\ \A r \in Flying(c) : Said(c, r.from) /\ r.from \notin Names(Line(c))
  /\ \A r, s \in Flying(c) : r.from = s.from => r = s

(* A broadcast that ended by itself has as many replies as it waited for. *)
EndsFull(c) ==
  pc[c] \in {"cleanup", "done"} /\ c \notin Single \cup timed => Len(got[c]) >= expected[c]

Counts ==
  /\ TypeOK
  /\ \A c \in Request : Early(c) => c \notin asked
  /\ \A c \in Request : EndsFull(c)
  /\ \A c \in Request \ twice : EachOnce(c)

(* A reply from someone new keeps the replies of a line apart. *)
LEMMA AppendDistinct ==
  ASSUME NEW l \in Seq(Reply), NEW r \in Reply, Distinct(l), r.from \notin Names(l)
  PROVE  Distinct(Append(l, r)) /\ Names(Append(l, r)) = Names(l) \cup {r.from}
<1>1. /\ DOMAIN l = 1..Len(l) /\ Len(l) \in Nat
      /\ DOMAIN Append(l, r) = 1..(Len(l) + 1)
      /\ \A i \in 1..Len(l) : Append(l, r)[i] = l[i]
      /\ Append(l, r)[Len(l) + 1] = r
  BY LenProperties, AppendProperties
<1>2. \A i \in 1..(Len(l) + 1) : i \in 1..Len(l) \/ i = Len(l) + 1
  BY <1>1
<1>3. \A i \in 1..Len(l) : l[i].from # r.from
  BY <1>1 DEF Names
<1>4. Distinct(Append(l, r))
  BY <1>1, <1>2, <1>3 DEF Distinct
<1>5. Len(l) + 1 \in 1..(Len(l) + 1) /\ 1..Len(l) \subseteq 1..(Len(l) + 1)
  BY <1>1
<1>6. Names(Append(l, r)) = Names(l) \cup {r.from}
  <2>1. Names(Append(l, r)) \subseteq Names(l) \cup {r.from}
    BY <1>1, <1>2 DEF Names
  <2>2. Names(l) \subseteq Names(Append(l, r))
    BY <1>1, <1>5 DEF Names
  <2>3. r.from \in Names(Append(l, r))
    BY <1>1, <1>5 DEF Names
  <2> QED BY <2>1, <2>2, <2>3
<1> QED BY <1>4, <1>6

(* To deliver a reply lengthens the line; to read one leaves it as it is. *)
LEMMA Delivered ==
  ASSUME NEW g \in Seq(Reply), NEW s \in Seq(Reply), NEW r \in Reply
  PROVE  g \o Append(s, r) = Append(g \o s, r)
<1>1. /\ Append(s, r) \in Seq(Reply) /\ Len(Append(s, r)) = Len(s) + 1
      /\ \A i \in 1..Len(s) : Append(s, r)[i] = s[i]
      /\ Append(s, r)[Len(s) + 1] = r
      /\ Len(g) \in Nat /\ Len(s) \in Nat
  BY AppendProperties, LenProperties
<1>2. /\ g \o s \in Seq(Reply) /\ Len(g \o s) = Len(g) + Len(s)
      /\ \A i \in 1..(Len(g) + Len(s)) : (g \o s)[i] = IF i <= Len(g) THEN g[i] ELSE s[i - Len(g)]
  BY ConcatProperties
<1>3. /\ g \o Append(s, r) \in Seq(Reply) /\ Len(g \o Append(s, r)) = Len(g) + Len(s) + 1
      /\ \A i \in 1..(Len(g) + Len(s) + 1) :
           (g \o Append(s, r))[i] = IF i <= Len(g) THEN g[i] ELSE Append(s, r)[i - Len(g)]
  BY <1>1, ConcatProperties
<1>4. /\ Append(g \o s, r) \in Seq(Reply) /\ Len(Append(g \o s, r)) = Len(g) + Len(s) + 1
      /\ \A i \in 1..(Len(g) + Len(s)) : Append(g \o s, r)[i] = (g \o s)[i]
      /\ Append(g \o s, r)[Len(g) + Len(s) + 1] = r
  BY <1>2, AppendProperties
<1>5. ASSUME NEW i \in 1..(Len(g) + Len(s) + 1)
      PROVE  (g \o Append(s, r))[i] = Append(g \o s, r)[i]
  <2>1. CASE i = Len(g) + Len(s) + 1
    BY <2>1, <1>1, <1>3, <1>4
  <2>2. CASE i <= Len(g)
    BY <2>2, <1>1, <1>2, <1>3, <1>4
  <2>3. CASE i > Len(g) /\ i # Len(g) + Len(s) + 1
    <3>1. i \in 1..(Len(g) + Len(s)) /\ i - Len(g) \in 1..Len(s) /\ ~ (i <= Len(g))
      BY <2>3, <1>1
    <3> QED BY <3>1, <1>1, <1>2, <1>3, <1>4
  <2> QED BY <2>1, <2>2, <2>3, <1>1
<1> QED BY <1>3, <1>4, <1>5, SeqEqual

LEMMA Read ==
  ASSUME NEW g \in Seq(Reply), NEW s \in Seq(Reply), s # <<>>
  PROVE  Append(g, Head(s)) \o Tail(s) = g \o s
<1>1. Head(s) \in Reply /\ Tail(s) \in Seq(Reply) /\ s = <<Head(s)>> \o Tail(s)
  <2>1. /\ Head(s) \in Reply /\ Tail(s) \in Seq(Reply) /\ Len(Tail(s)) = Len(s) - 1
        /\ \A i \in 1..Len(Tail(s)) : Tail(s)[i] = s[i + 1]
    BY HeadTailProperties
  <2>2. <<Head(s)>> \in Seq(Reply) /\ Len(<<Head(s)>>) = 1 /\ <<Head(s)>>[1] = s[1]
    BY <2>1
  <2>3. Len(s) \in Nat /\ Len(s) # 0
    BY EmptySeq, LenProperties
  <2>4. /\ <<Head(s)>> \o Tail(s) \in Seq(Reply) /\ Len(<<Head(s)>> \o Tail(s)) = Len(s)
        /\ \A i \in 1..Len(s) :
             (<<Head(s)>> \o Tail(s))[i] = IF i <= 1 THEN <<Head(s)>>[i] ELSE Tail(s)[i - 1]
    BY <2>1, <2>2, <2>3, ConcatProperties
  <2>5. ASSUME NEW i \in 1..Len(s) PROVE (<<Head(s)>> \o Tail(s))[i] = s[i]
    <3>1. CASE i = 1
      BY <3>1, <2>2, <2>4
    <3>2. CASE i # 1
      <4>1. i - 1 \in 1..Len(Tail(s)) /\ (i - 1) + 1 = i /\ ~ (i <= 1)
        BY <3>2, <2>1, <2>3
      <4> QED BY <4>1, <2>1, <2>4
    <3> QED BY <3>1, <3>2
  <2> QED BY <2>1, <2>4, <2>5, SeqEqual
<1>2. Append(g, Head(s)) = g \o <<Head(s)>>
  BY <1>1, AppendIsConcat
<1>3. <<Head(s)>> \in Seq(Reply)
  BY <1>1
<1>4. (g \o <<Head(s)>>) \o Tail(s) = g \o (<<Head(s)>> \o Tail(s))
  BY <1>1, <1>3, ConcatAssociative
<1> QED BY <1>1, <1>2, <1>4

(* The replies read count the machines, when the whole line is of different ones. *)
LEMMA CountsMachines ==
  ASSUME NEW g \in Seq(Reply), NEW s \in Seq(Reply), Distinct(g \o s)
  PROVE  Len(g) <= Cardinality(Names(g))
<1>1. DOMAIN g = 1..Len(g) /\ Len(g) \in Nat /\ Len(s) \in Nat
  BY LenProperties
<1>2. /\ DOMAIN (g \o s) = 1..(Len(g) + Len(s))
      /\ \A i \in 1..Len(g) : i \in 1..(Len(g) + Len(s)) /\ (g \o s)[i] = g[i]
  BY <1>1, ConcatProperties, LenProperties
<1>3. Distinct(g)
  BY <1>1, <1>2 DEF Distinct
<1>4. Names(g) \subseteq Agent \cup {None}
  <2>1. \A i \in 1..Len(g) : g[i] \in Reply
    BY ElementOfSeq
  <2> QED BY <1>1, <2>1 DEF Names, Reply
<1>5. IsFiniteSet(Names(g))
  <2>1. IsFiniteSet(Agent \cup {None})
    BY DispatchAssumption, FS_AddElement
  <2> QED BY <1>4, <2>1, FS_Subset
<1> DEFINE f == [i \in 1..Len(g) |-> g[i].from]
<1>6. f \in Injection(1..Len(g), Names(g))
  <2>1. f \in [1..Len(g) -> Names(g)]
    BY <1>1 DEF Names
  <2>2. \A i, j \in 1..Len(g) : f[i] = f[j] => i = j
    BY <1>1, <1>3 DEF Distinct
  <2> QED BY <2>1, <2>2 DEF Injection, IsInjective
<1>7. Cardinality(1..Len(g)) <= Cardinality(Names(g))
  BY <1>5, <1>6, FS_Injection
<1>8. Cardinality(1..Len(g)) = Len(g)
  <2>1. Cardinality(1..Len(g)) = IF 1 > Len(g) THEN 0 ELSE Len(g) - 1 + 1
    <3>1. 1 \in Int /\ Len(g) \in Int
      BY <1>1
    <3> QED BY <3>1, FS_Interval
  <2> QED BY <1>1, <2>1
<1> QED BY <1>7, <1>8

(* A step keeps what is known of a call that only loses replies and whose command
   does not come back to dispatch. *)
LEMMA EachOnceKept ==
  ASSUME NEW c \in Request, EachOnce(c), TypeOK, Line(c)' = Line(c),
         Flying(c)' \subseteq Flying(c), Unsent(c)' => Unsent(c),
         \A a \in Agent : ran[c][a] > 0 => ran'[c][a] > 0
  PROVE  EachOnce(c)'
<1>1. Line(c) \in Seq(Reply) /\ Line(c)' \in Seq(Reply)
  BY ConcatProperties DEF Line, TypeOK
<1>2. Names(Line(c)) \subseteq Agent \cup {None}
  <2>1. DOMAIN Line(c) = 1..Len(Line(c)) /\ \A i \in 1..Len(Line(c)) : Line(c)[i] \in Reply
    BY <1>1, LenProperties, ElementOfSeq
  <2> QED BY <2>1 DEF Names, Reply
<1>3. \A n \in Agent \cup {None} : Said(c, n) => Said(c, n)'
  BY DEF Said
<1>4. \A r \in Flying(c) : r.from \in Agent \cup {None}
  BY DEF Flying, TypeOK, Reply
<1>5. Distinct(Line(c))' /\ Names(Line(c))' = Names(Line(c))
  BY DEF Distinct, Names, EachOnce
<1> QED BY <1>2, <1>3, <1>4, <1>5 DEF EachOnce

(* A broadcast that ends without waiting for a timer has as many different machines'
   replies as the cached list promised, as long as no machine replied twice (over its
   channel and over the relay). *)
THEOREM CountedHolds == Spec => []Counted
<1>1. Init => Counts
  <2>1. Cardinality(Agent) \in Nat
    BY DispatchAssumption, FS_CardinalityType
  <2>2. Init => TypeOK
    BY <2>1 DEF Init, TypeOK, Phase
  <2>3. ASSUME Init, NEW c \in Request PROVE EachOnce(c)
    <3>1. got[c] = <<>> /\ inbox[c] = <<>> /\ Flying(c) = {}
      BY <2>3 DEF Init, Flying
    <3>2. Line(c) = <<>>
      BY <3>1 DEF Line
    <3>3. Names(Line(c)) = {} /\ Distinct(Line(c))
      BY <3>2 DEF Names, Distinct
    <3> QED BY <3>1, <3>3 DEF EachOnce
  <2>4. Init => \A c \in Request : EndsFull(c) /\ (Early(c) => c \notin asked)
    BY DEF Init, EndsFull, Early
  <2> QED BY <2>2, <2>3, <2>4 DEF Counts
<1>2. ASSUME Counts, TypeOK', [Next]_vars PROVE Counts'
  <2> USE <1>2 DEF Counts
  <2>1. ASSUME UNCHANGED <<pc, expected, inbox, got, asked, replies, ran, twice, timed>>
        PROVE  Counts'
    <3>1. \A c \in Request \ twice' : EachOnce(c)'
      BY <2>1, EachOnceKept DEF Line, Flying, Unsent, Early
    <3> QED BY <2>1, <3>1 DEF EndsFull, Early
  (* dispatch goes on with one call. *)
  <2>2. ASSUME NEW c \in Request, NEW to \in Phase, pc' = [pc EXCEPT ![c] = to],
               UNCHANGED <<inbox, got, replies, ran, twice>>, timed \subseteq timed',
               \A d \in Request \ {c} : expected'[d] = expected[d],
               to \in {"new", "send", "relay"} => Early(c) /\ c \notin asked',
               asked' = asked \/ (Early(c) /\ asked' = asked \cup {c}),
               EndsFull(c)'
        PROVE  Counts'
    <3>1. ASSUME NEW d \in Request
          PROVE  /\ Unsent(d)' => Unsent(d)
                 /\ Early(d)' => d \notin asked'
      <4>1. CASE d = c
        BY <2>2, <4>1 DEF Unsent, Early, TypeOK
      <4>2. CASE d # c
        BY <2>2, <4>2 DEF Unsent, Early, TypeOK
      <4> QED BY <4>1, <4>2
    <3>2. \A d \in Request \ twice' : EachOnce(d)'
      BY <2>2, <3>1, EachOnceKept DEF Line, Flying
    <3>3. \A d \in Request : EndsFull(d)'
      BY <2>2 DEF EndsFull, TypeOK
    <3> QED BY <3>1, <3>2, <3>3
  <2>3. ASSUME NEW c \in Request, Caller(c) PROVE Counts'
    <3>1. CASE Begin(c)
      BY <2>2, <3>1 DEF Begin, Goto, Phase, Early, EndsFull, wires, ghosts, TypeOK
    <3>2. CASE SendDirect(c) \/ SendDirectFails(c)
      <4>1. PICK to \in {"collect", "relay"} : pc' = [pc EXCEPT ![c] = to]
        BY <3>2 DEF SendDirect, SendDirectFails, Goto
      <4>2. pc[c] = "send" /\ UNCHANGED <<expected, inbox, got, asked, replies, ran, twice, timed>>
        BY <3>2 DEF SendDirect, SendDirectFails, ghosts
      <4>3. Early(c) /\ c \notin asked'
        BY <4>2 DEF Early
      <4>4. EndsFull(c)'
        BY <4>1 DEF EndsFull, TypeOK
      <4> QED BY <2>2, <4>1, <4>2, <4>3, <4>4 DEF Phase
    <3>3. CASE Refuse(c)
      BY <2>2, <3>3 DEF Refuse, Goto, Phase, Early, EndsFull, wires, ghosts, TypeOK
    <3>4. CASE SendRelay(c)
      BY <2>2, <3>4 DEF SendRelay, ByRelay, Goto, Phase, Early, EndsFull, ghosts, TypeOK
    <3>5. CASE Collect(c)
      <4>1. /\ pc[c] = "collect" /\ inbox[c] # <<>>
            /\ UNCHANGED <<pc, expected, asked, replies, ran, twice, timed>>
            /\ got'[c] = Append(got[c], Head(inbox[c])) /\ inbox'[c] = Tail(inbox[c])
            /\ \A d \in Request \ {c} : got'[d] = got[d] /\ inbox'[d] = inbox[d]
        BY <3>5 DEF Collect, TypeOK, wires, ghosts
      <4>2. Line(c)' = Line(c)
        <5>1. got[c] \in Seq(Reply) /\ inbox[c] \in Seq(Reply)
          BY DEF TypeOK
        <5> QED BY <4>1, <5>1, Read DEF Line
      <4>3. \A d \in Request : Line(d)' = Line(d)
        BY <4>1, <4>2 DEF Line
      <4>4. \A d \in Request \ twice' : EachOnce(d)'
        BY <4>1, <4>3, EachOnceKept DEF Flying, Unsent, Early
      <4>5. \A d \in Request : EndsFull(d)'
        BY <4>1 DEF EndsFull
      <4> QED BY <4>1, <4>4, <4>5 DEF Early
    <3>6. CASE Finish(c)
      BY <2>2, <3>6 DEF Finish, Enough, Goto, Phase, Early, EndsFull, wires, ghosts, TypeOK
    <3>7. CASE GiveUp(c)
      BY <2>2, <3>7 DEF GiveUp, Goto, Phase, Early, EndsFull, wires, TypeOK
    <3>8. CASE Cleanup(c)
      BY <2>2, <3>8 DEF Cleanup, Goto, Phase, Early, EndsFull, wires, ghosts, TypeOK
    <3>9. CASE Drop(c)
      BY <2>2, <3>9 DEF Drop, Goto, Phase, Early, EndsFull, wires, ghosts, TypeOK
    <3> QED BY <2>3, <3>1, <3>2, <3>3, <3>4, <3>5, <3>6, <3>7, <3>8, <3>9 DEF Caller
  <2>4. ASSUME NEW c \in Request, Relay(c) PROVE Counts'
    <3>1. /\ c \in asked /\ asked' = asked \ {c} /\ ~ Early(c)
          /\ UNCHANGED <<pc, expected, inbox, got, ran, twice, timed>>
      BY <2>4 DEF Relay, caller, ghosts
    <3>2. (\A d \in Request : Early(d)' => d \notin asked') /\ \A d \in Request : EndsFull(d)'
      BY <3>1 DEF Early, EndsFull
    <3>3. \A d \in Request : (Unsent(d)' => Unsent(d)) /\ Line(d)' = Line(d)
      BY <3>1 DEF Unsent, Early, Line
    <3>4. CASE Target[c] \cap room # {}
      <4>1. replies' = replies
        BY <2>4, <3>4 DEF Relay
      <4>2. \A d \in Request \ twice' : EachOnce(d)'
        BY <3>1, <3>3, <4>1, EachOnceKept DEF Flying
      <4> QED BY <3>2, <4>2
    <3>5. CASE Target[c] \cap room = {}
      <4> DEFINE none == [call |-> c, from |-> None, ok |-> FALSE, via |-> "direct"]
      <4>1. replies' = replies \cup {none}
        BY <2>4, <3>5 DEF Relay
      <4>2. ASSUME NEW d \in Request \ twice' PROVE EachOnce(d)'
        <5>1. CASE d # c
          <6>1. Flying(d)' = Flying(d)
            BY <4>1, <5>1 DEF Flying
          <6> QED BY <3>1, <3>3, <6>1, <4>2, EachOnceKept
        <5>2. CASE d = c
          <6>1. Unsent(c) /\ ~ Unsent(c)'
            BY <3>1 DEF Unsent, Early
          <6>2. /\ \A n \in Names(Line(c)) : n # None
                /\ \A r \in Flying(c) : r.from # None
            BY <3>1, <4>2, <5>2, <6>1 DEF EachOnce, Said
          <6>3. Line(c)' = Line(c) /\ ran' = ran /\ Flying(c)' = Flying(c) \cup {none}
            BY <3>1, <3>3, <4>1 DEF Flying
          <6>4. Distinct(Line(c))' /\ Names(Line(c))' = Names(Line(c))
            BY <3>1, <4>2, <5>2, <6>3 DEF EachOnce, Distinct, Names
          <6>5. none.from = None
            OBVIOUS
          <6>6. \A n : Said(c, n) => Said(c, n)'
            BY <6>1, <6>3 DEF Said
          <6>7. Said(c, None)'
            BY <6>1 DEF Said
          <6> HIDE DEF none
          <6> QED BY <3>1, <4>2, <5>2, <6>2, <6>3, <6>4, <6>5, <6>6, <6>7 DEF EachOnce
        <5> QED BY <5>1, <5>2
      <4> QED BY <3>2, <4>2
    <3> QED BY <3>4, <3>5
  <2>5. ASSUME NEW c \in Request, NEW a \in Agent, Duplicate(c, a) PROVE Counts'
    BY <2>1, <2>5 DEF Duplicate, caller
  <2>6. ASSUME NEW o \in orders, NEW ok \in BOOLEAN, Run(o, ok) PROVE Counts'
    <3> DEFINE c == o.call
               a == o.to
    <3>1. o \in AgentOrder /\ c \in Request /\ a \in Agent
      BY DEF TypeOK, AgentOrder
    <3>2. /\ UNCHANGED <<pc, expected, inbox, got, asked, timed>>
          /\ replies' = replies \cup RepliesOf(o, ok)
          /\ ran' = [ran EXCEPT ![c][a] = @ + 1]
          /\ twice \subseteq twice'
          /\ c \notin twice' => Cardinality(Paths(o, ok)) # 2 /\ ~ (ran[c][a] > 0)
      BY <2>6 DEF Run, caller
    <3>3. /\ \A d \in Request, b \in Agent : ran[d][b] > 0 => ran'[d][b] > 0
          /\ ran'[c][a] > 0
      BY <3>1, <3>2 DEF TypeOK
    <3>4. (\A d \in Request : Early(d)' => d \notin asked') /\ \A d \in Request : EndsFull(d)'
      BY <3>2 DEF Early, EndsFull
    <3>5. \A d \in Request : Unsent(d)' = Unsent(d) /\ Line(d)' = Line(d)
      BY <3>2 DEF Unsent, Early, Line
    <3>6. ASSUME NEW d \in Request \ twice' PROVE EachOnce(d)'
      <4>1. CASE d # c
        <5>1. Flying(d)' = Flying(d)
          BY <3>1, <3>2, <4>1, RepliesOfTyped DEF Flying
        <5> QED BY <3>2, <3>3, <3>5, <3>6, <5>1, EachOnceKept
      <4>2. CASE d = c
        <5>1. EachOnce(c) /\ ~ (ran[c][a] > 0) /\ a # None
          BY <3>1, <3>2, <3>6, <4>2, DispatchAssumption
        <5>2. /\ a \notin Names(Line(c))
              /\ \A r \in Flying(c) : r.from # a
          BY <5>1 DEF EachOnce, Said
        <5>3. \A r, s \in RepliesOf(o, ok) : r = s
          <6>1. Paths(o, ok) # {"direct", "relay"}
            <7>1. Cardinality({"direct", "relay"}) = 2
              <8>1. Cardinality({"direct"}) = 1 /\ IsFiniteSet({"direct"})
                BY FS_Singleton
              <8>2. {"direct", "relay"} = {"direct"} \cup {"relay"} /\ "relay" \notin {"direct"}
                OBVIOUS
              <8>3. Cardinality({"direct"} \cup {"relay"}) = 1 + 1
                BY <8>1, <8>2, FS_AddElement
              <8> QED BY <8>2, <8>3
            <7> QED BY <7>1, <3>2, <3>6, <4>2
          <6> QED BY <3>1, <6>1, RepliesOfTyped
        <5>4. /\ Flying(c)' = Flying(c) \cup RepliesOf(o, ok)
              /\ \A r \in RepliesOf(o, ok) : r.from = a
          BY <3>1, <3>2, RepliesOfTyped DEF Flying
        <5>5. Distinct(Line(c))' /\ Names(Line(c))' = Names(Line(c))
          BY <3>5, <5>1, <3>1 DEF EachOnce, Distinct, Names
        <5>6. Said(c, a)'
          BY <3>3, <5>1 DEF Said
        <5>7. /\ \A n \in Names(Line(c)) : n \in Agent \cup {None}
              /\ \A r \in Flying(c) : r.from \in Agent \cup {None}
          <6>1. Line(c) \in Seq(Reply)
            BY <3>1, ConcatProperties DEF Line, TypeOK
          <6>2. DOMAIN Line(c) = 1..Len(Line(c)) /\ \A i \in 1..Len(Line(c)) : Line(c)[i] \in Reply
            BY <6>1, LenProperties, ElementOfSeq
          <6>3. \A r \in Flying(c) : r \in Reply
            BY DEF Flying, TypeOK
          <6> QED BY <6>2, <6>3 DEF Names, Reply
        <5>8. \A n \in Agent \cup {None} : Said(c, n) => Said(c, n)'
          BY <3>1, <3>3, <3>5 DEF Said
        <5> HIDE DEF c, a
        <5> QED BY <4>2, <5>1, <5>2, <5>3, <5>4, <5>5, <5>6, <5>7, <5>8 DEF EachOnce
      <4> QED BY <4>1, <4>2
    <3> QED BY <3>4, <3>6
  <2>7. CASE Lose
    <3>1. /\ UNCHANGED <<pc, expected, inbox, got, asked, ran, twice, timed>>
          /\ replies' \subseteq replies
      BY <2>7 DEF Lose, caller, ghosts
    <3>2. \A c \in Request \ twice' : EachOnce(c)'
      BY <3>1, EachOnceKept DEF Line, Flying, Unsent, Early
    <3> QED BY <3>1, <3>2 DEF EndsFull, Early
  <2>8. ASSUME NEW r \in replies, NEW reaches, Deliver(r, reaches) PROVE Counts'
    <3> DEFINE c == r.call
    <3>1. r \in Reply /\ c \in Request /\ r \in Flying(c)
      BY DEF TypeOK, Reply, Flying
    <3>2. /\ UNCHANGED <<pc, expected, got, asked, ran, twice, timed>>
          /\ replies' = replies \ {r}
          /\ inbox' = inbox \/ inbox' = [inbox EXCEPT ![c] = Append(@, r)]
      BY <2>8 DEF Deliver, caller, ghosts
    <3>3. (\A d \in Request : Early(d)' => d \notin asked') /\ \A d \in Request : EndsFull(d)'
      BY <3>2 DEF Early, EndsFull
    <3>4. ASSUME NEW d \in Request \ twice' PROVE EachOnce(d)'
      <4>1. CASE d # c \/ inbox' = inbox
        <5>1. Line(d)' = Line(d) /\ Flying(d)' \subseteq Flying(d) /\ (Unsent(d)' => Unsent(d))
          BY <3>1, <3>2, <4>1 DEF Line, Flying, Unsent, Early, TypeOK
        <5> QED BY <3>2, <3>4, <5>1, EachOnceKept
      <4>2. CASE d = c /\ inbox' # inbox
        <5>1. got[c] \in Seq(Reply) /\ inbox[c] \in Seq(Reply)
          BY <3>1 DEF TypeOK
        <5>2. Line(c) \in Seq(Reply) /\ Line(c)' = Append(Line(c), r)
          <6>1. inbox'[c] = Append(inbox[c], r) /\ got'[c] = got[c]
            BY <3>1, <3>2, <4>2 DEF TypeOK
          <6>2. got[c] \o Append(inbox[c], r) = Append(got[c] \o inbox[c], r)
            BY <3>1, <5>1, Delivered
          <6>3. got[c] \o inbox[c] \in Seq(Reply)
            BY <5>1, ConcatProperties
          <6> QED BY <6>1, <6>2, <6>3 DEF Line
        <5>3. EachOnce(c) /\ r.from \notin Names(Line(c)) /\ Said(c, r.from)
          BY <3>1, <3>2, <3>4, <4>2 DEF EachOnce
        <5>4. Distinct(Line(c))' /\ Names(Line(c))' = Names(Line(c)) \cup {r.from}
          BY <3>1, <5>2, <5>3, AppendDistinct DEF EachOnce
        <5>5. Flying(c)' = Flying(c) \ {r}
          BY <3>2 DEF Flying
        <5>6. \A n : Said(c, n)' = Said(c, n)
          BY <3>2 DEF Said, Unsent, Early
        <5> QED BY <4>2, <3>1, <5>3, <5>4, <5>5, <5>6 DEF EachOnce
      <4> QED BY <4>1, <4>2
    <3> QED BY <3>3, <3>4
  <2> QED BY <1>2, <2>1, <2>3, <2>4, <2>5, <2>6, <2>7, <2>8 DEF Next, Move, RosterFrame, Receive,
             ReceiveDirect, caller, wires, ghosts, vars
<1>3. Counts => Counted
  <2> SUFFICES ASSUME Counts, NEW c \in Request \ (Single \cup timed \cup twice),
                      pc[c] \in {"cleanup", "done"}
               PROVE  Answered(c)
    BY DEF Counted
  <2>1. expected[c] <= Len(got[c]) /\ Distinct(got[c] \o inbox[c])
    BY DEF Counts, EndsFull, EachOnce, Line
  <2>2. got[c] \in Seq(Reply) /\ inbox[c] \in Seq(Reply) /\ expected[c] \in Int
    BY DEF Counts, TypeOK
  <2>3. Len(got[c]) <= Cardinality(Names(got[c]))
    BY <2>1, <2>2, CountsMachines
  <2>4. {o.from : o \in Outcomes(c)} = Names(got[c])
    BY DEF Outcomes, Names
  <2>5. Cardinality(Names(got[c])) \in Nat /\ Len(got[c]) \in Nat
    <3>1. Names(got[c]) \subseteq Agent \cup {None}
      <4>1. DOMAIN got[c] = 1..Len(got[c]) /\ \A i \in 1..Len(got[c]) : got[c][i] \in Reply
        BY <2>2, LenProperties, ElementOfSeq
      <4> QED BY <4>1 DEF Names, Reply
    <3>2. IsFiniteSet(Names(got[c]))
      BY <3>1, DispatchAssumption, FS_AddElement, FS_Subset
    <3> QED BY <2>2, <3>2, FS_CardinalityType, LenProperties
  <2>6. Answered(c) <=> Cardinality(Names(got[c])) >= expected[c]
    BY <2>4, Zenon DEF Answered
  <2> QED BY <2>1, <2>2, <2>3, <2>5, <2>6
<1> QED BY <1>1, <1>2, <1>3, TypeCorrect, PTL DEF Spec

-----------------------------------------------------------------------------
(***************************************************************************)
(* Executor, for any sessions and jobs                                       *)
(***************************************************************************)

(* ExecTypeOK, but for the number of notices. *)
ExecTyped ==
  /\ file \in Mode \cup {"absent"} /\ writable \in BOOLEAN
  /\ memory \in [Session -> Mode] /\ shown \in [Session -> Mode]
  /\ notices \in [Session -> Nat] /\ online \subseteq Session
  /\ at \in [Job -> {"idle", "arrived", "run", "store"}]
  /\ order \in [Job -> JobRecord]
  /\ sets \in 0..MaxSets /\ mixed \in BOOLEAN
  /\ setter \in Session \cup {"nobody"}
  /\ settled \in Mode \cup {"open"}

LEMMA NoOrderTyped == NoOrder \in JobRecord
BY ExecutorAssumption DEF NoOrder, JobRecord, Kind, Mode

LEMMA InForceTyped ==
  ASSUME NEW f \in Mode \cup {"absent"}, NEW m \in Mode
  PROVE  /\ InForce(f, m) \in Mode
         /\ InForce(f, InForce(f, m)) = InForce(f, m)
         /\ f # "absent" => InForce(f, m) = f
BY DEF InForce, Mode

(* Seeing only lets jobs see more. *)
LEMMA SeeingKeeps ==
  ASSUME ExecTyped, NEW f \in Mode \cup {"absent"}, NEW mem \in [Session -> Mode]
  PROVE  /\ Seeing(f, mem) \in [Job -> JobRecord]
         /\ \A j \in Job : /\ Seeing(f, mem)[j].kind = order[j].kind
                           /\ Seeing(f, mem)[j].session = order[j].session
                           /\ Seeing(f, mem)[j].to = order[j].to
                           /\ order[j].seen \subseteq Seeing(f, mem)[j].seen
                           /\ at[j] # "idle" =>
                                InForce(f, mem[order[j].session]) \in Seeing(f, mem)[j].seen
<1>1. ASSUME NEW j \in Job
      PROVE  /\ Seeing(f, mem)[j] \in JobRecord
             /\ Seeing(f, mem)[j].kind = order[j].kind
             /\ Seeing(f, mem)[j].session = order[j].session
             /\ Seeing(f, mem)[j].to = order[j].to
             /\ order[j].seen \subseteq Seeing(f, mem)[j].seen
             /\ at[j] # "idle" =>
                  InForce(f, mem[order[j].session]) \in Seeing(f, mem)[j].seen
  <2> DEFINE now == InForce(f, mem[order[j].session])
             see == IF at[j] = "idle" THEN order[j].seen ELSE order[j].seen \cup {now}
  <2>1. order[j] \in JobRecord /\ order[j].session \in Session
    BY DEF ExecTyped, JobRecord
  <2>2. now \in Mode
    BY <2>1, InForceTyped
  <2>3. Seeing(f, mem)[j] = [order[j] EXCEPT !.seen = see]
    BY DEF Seeing
  <2> HIDE DEF now
  <2>4. see \in SUBSET Mode
    BY <2>1, <2>2 DEF JobRecord
  <2>5. Seeing(f, mem)[j] \in JobRecord /\ Seeing(f, mem)[j].seen = see
    BY <2>1, <2>3, <2>4 DEF JobRecord
  <2>6. /\ Seeing(f, mem)[j].kind = order[j].kind
        /\ Seeing(f, mem)[j].session = order[j].session
        /\ Seeing(f, mem)[j].to = order[j].to
    BY <2>1, <2>3 DEF JobRecord
  <2> QED BY <2>5, <2>6 DEF now
<1> QED BY <1>1 DEF Seeing

LEMMA ExecTypedNext ==
  ASSUME ExecTyped, [ExecNext]_execVars PROVE ExecTyped'
<1>1. ASSUME NEW s \in Session PROVE ModeOf(s) \in Mode
  BY InForceTyped DEF ModeOf, ExecTyped
<1>2. ASSUME NEW j \in Job, NEW k \in Kind, NEW s \in Session, NEW m \in Mode, Arrive(j, k, s, m)
      PROVE  ExecTyped'
  <2>1. InForce(file, memory[s]) \in Mode
    BY <1>1 DEF ModeOf
  <2>2. [kind |-> k, session |-> s, to |-> m, seen |-> {InForce(file, memory[s])}] \in JobRecord
    BY <2>1 DEF JobRecord
  <2>3. sets' \in 0..MaxSets
    BY <1>2, ExecutorAssumption DEF Arrive, ExecTyped
  <2>4. order' \in [Job -> JobRecord]
    BY <1>2, <2>2 DEF Arrive, ExecTyped
  <2>5. mixed' \in BOOLEAN
    BY <1>2 DEF Arrive, ExecTyped
  <2> QED BY <1>2, <2>3, <2>4, <2>5 DEF Arrive, ExecTyped
<1>3. ASSUME NEW j \in Job PROVE order[j].session \in Session /\ order[j].to \in Mode
  BY DEF ExecTyped, JobRecord
<1>4. ASSUME NEW j \in Job, Ends(j)
      PROVE  at' \in [Job -> {"idle", "arrived", "run", "store"}] /\ order' \in [Job -> JobRecord]
  BY <1>4, NoOrderTyped DEF Ends, ExecTyped
<1>5. ASSUME NEW j \in Job, Gate(j) PROVE ExecTyped'
  <2>1. memory' \in [Session -> Mode]
    BY <1>1, <1>3, <1>5 DEF Gate, Refreshed, ExecTyped
  <2>2. at' \in [Job -> {"idle", "arrived", "run", "store"}] /\ order' \in [Job -> JobRecord]
    BY <1>4, <1>5 DEF Gate, ExecTyped
  <2> QED BY <1>5, <2>1, <2>2 DEF Gate, ExecTyped
<1>6. ASSUME NEW j \in Job, RunJob(j) PROVE ExecTyped'
  BY <1>4, <1>6 DEF RunJob, ExecTyped
<1>7. ASSUME NEW j \in Job, SetFile(j) PROVE ExecTyped'
  <2>1. file' \in Mode \cup {"absent"}
    BY <1>3, <1>7 DEF SetFile, ExecTyped
  <2>2. order' \in [Job -> JobRecord]
    BY <1>7, <2>1, SeeingKeeps DEF SetFile, ExecTyped
  <2> QED BY <1>7, <2>1, <2>2 DEF SetFile, ExecTyped
<1>8. ASSUME NEW j \in Job, SetMemory(j) PROVE ExecTyped'
  <2>1. memory' \in [Session -> Mode] /\ notices' \in [Session -> Nat]
    BY <1>3, <1>8 DEF SetMemory, ExecTyped
  <2>2. Seeing(file, memory') \in [Job -> JobRecord]
    BY <2>1, SeeingKeeps DEF ExecTyped
  <2>3. order' \in [Job -> JobRecord]
    BY <1>8, <2>2, NoOrderTyped DEF SetMemory
  <2>4. setter' \in Session \cup {"nobody"} /\ settled' \in Mode \cup {"open"}
    BY <1>3, <1>8 DEF SetMemory
  <2>5. mixed' \in BOOLEAN
    BY <1>8 DEF SetMemory
  <2> QED BY <1>8, <2>1, <2>3, <2>4, <2>5 DEF SetMemory, ExecTyped
<1>9. ASSUME NEW s \in Session, Notice(s) \/ Offline(s) \/ Online(s) PROVE ExecTyped'
  BY <1>1, <1>9 DEF Notice, Offline, Online, Refreshed, ExecTyped
<1>10. ASSUME UNCHANGED execVars PROVE ExecTyped'
  BY <1>10 DEF execVars, ExecTyped
<1> QED BY <1>2, <1>5, <1>6, <1>7, <1>8, <1>9, <1>10 DEF ExecNext, Execute

LEMMA ExecTypedAlways == ExecSpec => []ExecTyped
<1>1. ExecInit => ExecTyped
  <2> SUFFICES ASSUME ExecInit PROVE ExecTyped
    OBVIOUS
  <2>1. file \in Mode \cup {"absent"} /\ Config \in Mode
    BY ExecutorAssumption DEF ExecInit, Mode
  <2>2. memory \in [Session -> Mode]
    BY <2>1, InForceTyped DEF ExecInit
  <2>3. order \in [Job -> JobRecord]
    BY NoOrderTyped DEF ExecInit
  <2>4. settled \in Mode \cup {"open"}
    BY <2>1 DEF ExecInit
  <2>5. sets \in 0..MaxSets /\ mixed \in BOOLEAN
    <3>1. sets = 0 /\ mixed = FALSE
      BY DEF ExecInit
    <3>2. sets \in 0..MaxSets
      BY <3>1, ExecutorAssumption
    <3>3. mixed \in BOOLEAN
      BY <3>1
    <3> QED BY <3>2, <3>3
  <2>6. shown \in [Session -> Mode] /\ notices \in [Session -> Nat]
    BY <2>2 DEF ExecInit
  <2> QED BY <2>1, <2>2, <2>3, <2>4, <2>5, <2>6 DEF ExecInit, ExecTyped
<1> QED BY <1>1, ExecTypedNext, PTL DEF ExecSpec

-----------------------------------------------------------------------------
(* ModeShared: while no SetMode is under way the mode file holds the mode that was set
   last. *)

(* What a SetMode that has written the file alone left there. *)
Stored ==
  /\ \A j \in Job : at[j] = "store" => Setting(j)
  /\ ~ mixed => \A i, j \in Job : Setting(i) /\ Setting(j) => i = j
  /\ ~ mixed /\ writable => \A j \in Job : at[j] = "store" => file = order[j].to
  /\ settled # "open" => \A j \in Job : ~ Setting(j)
  /\ settled # "open" /\ writable => file = settled

LEMMA StoredNext ==
  ASSUME ExecTyped, Stored, [ExecNext]_execVars PROVE Stored'
<1> DEFINE Alike(j) == order'[j].kind = order[j].kind /\ order'[j].to = order[j].to
<1>1. ASSUME NEW j \in Job, NEW k \in Kind, NEW s \in Session, NEW m \in Mode, Arrive(j, k, s, m)
      PROVE  Stored'
  <2>1. /\ at[j] = "idle" /\ at'[j] = "arrived" /\ order'[j].kind = k
        /\ \A i \in Job : i # j => at'[i] = at[i] /\ order'[i] = order[i]
    BY <1>1 DEF Arrive, ExecTyped
  <2>2. ~ Setting(j) /\ (Setting(j)' <=> k = "set") /\ \A i \in Job : i # j => (Setting(i)' <=> Setting(i))
    BY <2>1 DEF Setting
  <2>3. UNCHANGED <<file, writable>>
    BY <1>1 DEF Arrive
  <2>4. CASE k = "set"
    <3>1. settled' = "open" /\ (mixed' <=> \E i \in Job : Setting(i))
      BY <1>1, <2>4 DEF Arrive
    <3>2. ~ mixed' => \A i \in Job : i # j => ~ Setting(i)' /\ at'[i] # "store"
      BY <2>1, <2>2, <3>1 DEF Stored
    <3>3. \A i \in Job : at'[i] = "store" => Setting(i)'
      BY <2>1, <2>2 DEF Stored
    <3> QED BY <2>1, <3>1, <3>2, <3>3 DEF Stored
  <2>5. CASE k # "set"
    <3>1. settled' = settled /\ mixed' = mixed
      BY <1>1, <2>5 DEF Arrive
    <3> QED BY <2>1, <2>2, <2>3, <2>5, <3>1 DEF Stored
  <2> QED BY <2>4, <2>5
<1>2. ASSUME NEW j \in Job, at'[j] = "idle" \/ (at[j] = "arrived" /\ at'[j] = "run"),
             at'[j] # "idle" => order'[j] = order[j],
             \A i \in Job : i # j => at'[i] = at[i] /\ order'[i] = order[i],
             UNCHANGED <<file, writable, mixed, settled>>
      PROVE  Stored'
  <2>1. \A i \in Job : Setting(i)' => Setting(i)
    BY <1>2 DEF Setting
  <2>2. \A i \in Job : at'[i] = "store" => at[i] = "store" /\ i # j
    BY <1>2
  <2>3. \A i \in Job : at'[i] = "store" => Setting(i)'
    BY <1>2, <2>2 DEF Stored, Setting
  <2> QED BY <1>2, <2>1, <2>2, <2>3 DEF Stored
<1>3. ASSUME NEW j \in Job, Ends(j), UNCHANGED <<file, writable, mixed, settled>> PROVE Stored'
  BY <1>2, <1>3 DEF Ends, ExecTyped
<1>4. ASSUME NEW j \in Job, Gate(j) PROVE Stored'
  BY <1>2, <1>3, <1>4 DEF Gate, ExecTyped
<1>5. ASSUME NEW j \in Job, RunJob(j) PROVE Stored'
  BY <1>3, <1>5 DEF RunJob
<1>6. ASSUME NEW j \in Job, SetFile(j) PROVE Stored'
  <2>1. /\ at[j] = "run" /\ order[j].kind = "set" /\ at'[j] = "store"
        /\ \A i \in Job : i # j => at'[i] = at[i]
        /\ UNCHANGED <<writable, mixed, settled>>
        /\ file' = IF writable THEN order[j].to ELSE file
    BY <1>6 DEF SetFile, ExecTyped
  <2>2. order[j].to \in Mode
    BY DEF ExecTyped, JobRecord
  <2>3. \A i \in Job : Alike(i)
    <3>1. file' \in Mode \cup {"absent"} /\ memory \in [Session -> Mode]
      BY <2>1, <2>2 DEF ExecTyped
    <3>2. order' = Seeing(file', memory)
      BY <1>6 DEF SetFile
    <3> QED BY <3>1, <3>2, SeeingKeeps
  <2>4. \A i \in Job : Setting(i)' <=> Setting(i)
    BY <2>1, <2>3 DEF Setting
  <2>5. Setting(j)
    BY <2>1 DEF Setting
  <2>6. settled = "open"
    BY <2>5 DEF Stored
  <2>7. \A i \in Job : at'[i] = "store" => Setting(i)'
    BY <2>1, <2>4, <2>5 DEF Stored
  <2>8. ~ mixed => \A i \in Job : at'[i] = "store" => i = j
    BY <2>1, <2>4, <2>5, <2>7 DEF Stored
  <2> QED BY <2>1, <2>3, <2>4, <2>6, <2>7, <2>8 DEF Stored
<1>7. ASSUME NEW j \in Job, SetMemory(j) PROVE Stored'
  <2>1. /\ at[j] = "store" /\ at'[j] = "idle"
        /\ \A i \in Job : i # j => at'[i] = at[i]
        /\ UNCHANGED <<file, writable>>
        /\ settled' = IF mixed THEN "open" ELSE order[j].to
        /\ mixed' = (mixed /\ \E i \in Job \ {j} : Setting(i))
    BY <1>7 DEF SetMemory, ExecTyped
  <2>2. memory' \in [Session -> Mode]
    BY <1>7, ExecTypedNext DEF ExecTyped, ExecNext, Execute
  <2>3. \A i \in Job : i # j => Alike(i)
    <3>1. order' = [Seeing(file, memory') EXCEPT ![j] = NoOrder] /\ file \in Mode \cup {"absent"}
      BY <1>7 DEF SetMemory, ExecTyped
    <3>2. Seeing(file, memory') \in [Job -> JobRecord]
      BY <2>2, <3>1, SeeingKeeps
    <3>3. \A i \in Job : i # j => order'[i] = Seeing(file, memory')[i]
      BY <3>1, <3>2
    <3> QED BY <2>2, <3>1, <3>3, SeeingKeeps
  <2>4. ~ Setting(j)' /\ \A i \in Job : i # j => (Setting(i)' <=> Setting(i))
    BY <2>1, <2>3 DEF Setting
  <2>5. Setting(j) /\ settled = "open"
    BY <2>1 DEF Stored
  <2>6. \A i \in Job : at'[i] = "store" => Setting(i)'
    BY <2>1, <2>4 DEF Stored
  <2>7. CASE mixed
    <3>1. ~ mixed' => \A i \in Job : ~ Setting(i)'
      BY <2>1, <2>4, <2>7
    <3> QED BY <2>1, <2>6, <2>7, <3>1 DEF Stored
  <2>8. CASE ~ mixed
    <3>1. \A i \in Job : ~ Setting(i)'
      BY <2>4, <2>5, <2>8 DEF Stored
    <3>2. writable => file = order[j].to
      BY <2>1, <2>8 DEF Stored
    <3> QED BY <2>1, <2>6, <2>8, <3>1, <3>2 DEF Stored
  <2> QED BY <2>7, <2>8
<1>8. ASSUME NEW s \in Session, Notice(s) \/ Offline(s) \/ Online(s) PROVE Stored'
  <2>1. UNCHANGED <<file, writable, at, order, mixed, settled>>
    BY <1>8 DEF Notice, Offline, Online
  <2> QED BY <2>1 DEF Stored, Setting
<1>9. ASSUME UNCHANGED execVars PROVE Stored'
  BY <1>9 DEF execVars, Stored, Setting
<1> QED BY <1>1, <1>4, <1>5, <1>6, <1>7, <1>8, <1>9 DEF ExecNext, Execute

LEMMA GatesOnce ==
  ASSUME ExecTyped, Stored, [ExecNext]_execVars PROVE GatesByTheSetMode
<1> SUFFICES ASSUME NEW j \in Job, Gates(j), writable, settled # "open"
             PROVE  memory'[order[j].session] = settled
  BY DEF GatesByTheSetMode
<1>1. at[j] = "arrived" /\ at'[j] # "arrived"
  BY DEF Gates
<1>2. \A i \in Job : ~ Setting(i) /\ at[i] # "store"
  BY DEF Stored
<1>3. file = settled /\ file # "absent"
  BY DEF Stored, ExecTyped, Mode
<1>4. Gate(j)
  <2>1. ASSUME NEW i \in Job, NEW k \in Kind, NEW s \in Session, NEW m \in Mode,
               Arrive(i, k, s, m)
        PROVE  FALSE
    BY <1>1, <2>1 DEF Arrive, ExecTyped
  <2>2. ASSUME NEW i \in Job, i # j, Gate(i) PROVE FALSE
    BY <1>1, <2>2 DEF Gate, Ends, ExecTyped
  <2>3. ASSUME NEW i \in Job, RunJob(i) PROVE FALSE
    BY <1>1, <2>3 DEF RunJob, Ends, ExecTyped
  <2>4. ASSUME NEW i \in Job, SetFile(i) PROVE FALSE
    BY <1>1, <2>4 DEF SetFile, ExecTyped
  <2>5. ASSUME NEW i \in Job, SetMemory(i) PROVE FALSE
    BY <1>2, <2>5 DEF SetMemory
  <2>6. ASSUME NEW s \in Session, Notice(s) \/ Offline(s) \/ Online(s) PROVE FALSE
    BY <1>1, <2>6 DEF Notice, Offline, Online
  <2>7. ASSUME UNCHANGED execVars PROVE FALSE
    BY <1>1, <2>7 DEF execVars
  <2> QED BY <2>1, <2>2, <2>3, <2>4, <2>5, <2>6, <2>7 DEF ExecNext, Execute
<1>5. order[j].session \in Session
  BY DEF ExecTyped, JobRecord
<1> QED BY <1>3, <1>4, <1>5 DEF Gate, Refreshed, ModeOf, InForce, ExecTyped

(* Every session of a machine gates its commands by the mode that was set last, however
   many sessions it has and however their commands interleave. *)
THEOREM ModeSharedHolds == ExecSpec => ModeShared
<1>1. ExecInit => Stored
  BY DEF ExecInit, Stored, Setting
<1>2. ExecTyped /\ ExecTyped' /\ Stored /\ [ExecNext]_execVars => Stored'
  BY StoredNext
<1>3. ExecTyped /\ Stored /\ [ExecNext]_execVars => GatesByTheSetMode
  BY GatesOnce
<1> QED BY <1>1, <1>2, <1>3, ExecTypedAlways, PTL DEF ExecSpec, ModeShared

-----------------------------------------------------------------------------
(* WritesAllowed: a job has seen every mode that was in force since it arrived. *)

Current ==
  \A j \in Job : at[j] # "idle" =>
    InForce(file, memory[order[j].session]) \in order[j].seen

LEMMA CurrentNext ==
  ASSUME ExecTyped, Current, WritesAllowed, [ExecNext]_execVars
  PROVE  Current' /\ WritesAllowed'
<1>1. ASSUME NEW s \in Session
      PROVE  ModeOf(s) \in Mode /\ InForce(file, ModeOf(s)) = ModeOf(s)
  BY InForceTyped DEF ModeOf, ExecTyped
<1>2. \A j \in Job : order[j].session \in Session
  BY DEF ExecTyped, JobRecord
(* Reading the mode again changes no session's mode. *)
<1>3. ASSUME memory' = memory \/ \E s \in Session : Refreshed(s), file' = file
      PROVE  \A t \in Session : InForce(file', memory'[t]) = InForce(file, memory[t])
  BY <1>1, <1>3 DEF Refreshed, ModeOf, ExecTyped
<1>4. ASSUME NEW j \in Job, NEW k \in Kind, NEW s \in Session, NEW m \in Mode, Arrive(j, k, s, m)
      PROVE  Current' /\ WritesAllowed'
  <2>1. /\ at'[j] = "arrived" /\ order'[j].session = s
        /\ InForce(file, memory[s]) \in order'[j].seen
        /\ \A i \in Job : i # j => at'[i] = at[i] /\ order'[i] = order[i]
        /\ UNCHANGED <<file, memory>>
    BY <1>4 DEF Arrive, ExecTyped
  <2> QED BY <2>1 DEF Current, WritesAllowed
<1>5. ASSUME NEW j \in Job, Gate(j) PROVE Current' /\ WritesAllowed'
  <2>1. \A t \in Session : InForce(file', memory'[t]) = InForce(file, memory[t])
    BY <1>2, <1>3, <1>5 DEF Gate
  <2>2. \A i \in Job : i # j => at'[i] = at[i] /\ order'[i] = order[i]
    BY <1>5 DEF Gate, Ends, ExecTyped
  <2>3. CASE Allowed(order[j].kind, ModeOf(order[j].session))
    <3>1. at[j] = "arrived" /\ at'[j] = "run" /\ order' = order
      BY <1>5, <2>3 DEF Gate, ExecTyped
    <3>2. order[j].kind = "write" => "edit" \in order[j].seen
      BY <2>3, <3>1 DEF Allowed, Current, ModeOf
    <3> QED BY <1>2, <2>1, <2>2, <3>1, <3>2 DEF Current, WritesAllowed
  <2>4. CASE ~ Allowed(order[j].kind, ModeOf(order[j].session))
    <3>1. at'[j] = "idle"
      BY <1>5, <2>4 DEF Gate, Ends, ExecTyped
    <3> QED BY <1>2, <2>1, <2>2, <3>1 DEF Current, WritesAllowed
  <2> QED BY <2>3, <2>4
<1>6. ASSUME NEW j \in Job, RunJob(j) PROVE Current' /\ WritesAllowed'
  <2>1. at'[j] = "idle" /\ \A i \in Job : i # j => at'[i] = at[i] /\ order'[i] = order[i]
    BY <1>6 DEF RunJob, Ends, ExecTyped
  <2> QED BY <1>6, <2>1 DEF RunJob, Current, WritesAllowed
<1>7. ASSUME NEW j \in Job, SetFile(j) PROVE Current' /\ WritesAllowed'
  <2>1. order[j].to \in Mode
    BY DEF ExecTyped, JobRecord
  <2>2. file' \in Mode \cup {"absent"} /\ memory \in [Session -> Mode] /\ memory' = memory
    BY <1>7, <2>1 DEF SetFile, ExecTyped
  <2>3. order' = Seeing(file', memory) /\ order[j].kind = "set" /\ at[j] # "idle"
    BY <1>7 DEF SetFile
  <2>4. \A i \in Job : i # j => at'[i] = at[i]
    BY <1>7 DEF SetFile, ExecTyped
  <2>5. \A i \in Job : /\ order'[i].kind = order[i].kind
                       /\ order'[i].session = order[i].session
                       /\ order[i].seen \subseteq order'[i].seen
                       /\ at[i] # "idle" =>
                            InForce(file', memory[order[i].session]) \in order'[i].seen
    BY <2>2, <2>3, SeeingKeeps
  <2>6. Current'
    BY <2>2, <2>3, <2>4, <2>5 DEF Current
  <2>7. WritesAllowed'
    BY <2>3, <2>4, <2>5 DEF WritesAllowed
  <2> QED BY <2>6, <2>7
<1>8. ASSUME NEW j \in Job, SetMemory(j) PROVE Current' /\ WritesAllowed'
  <2>1. file \in Mode \cup {"absent"} /\ memory' \in [Session -> Mode] /\ file' = file
    BY <1>8, ExecTypedNext DEF SetMemory, ExecTyped, ExecNext, Execute
  <2>2. order' = [Seeing(file, memory') EXCEPT ![j] = NoOrder] /\ at'[j] = "idle"
    BY <1>8 DEF SetMemory, ExecTyped
  <2>3. Seeing(file, memory') \in [Job -> JobRecord]
    BY <2>1, SeeingKeeps
  <2>4. \A i \in Job : i # j => order'[i] = Seeing(file, memory')[i]
    BY <2>2, <2>3
  <2>5. \A i \in Job : i # j => at'[i] = at[i]
    BY <1>8 DEF SetMemory, ExecTyped
  <2>6. \A i \in Job : i # j =>
          /\ order'[i].kind = order[i].kind
          /\ order'[i].session = order[i].session
          /\ order[i].seen \subseteq order'[i].seen
          /\ at[i] # "idle" => InForce(file, memory'[order[i].session]) \in order'[i].seen
    <3> DEFINE mem == memory'
    <3>1. mem \in [Session -> Mode]
      BY <2>1
    <3> HIDE DEF mem
    <3>2. \A i \in Job :
            /\ Seeing(file, mem)[i].kind = order[i].kind
            /\ Seeing(file, mem)[i].session = order[i].session
            /\ order[i].seen \subseteq Seeing(file, mem)[i].seen
            /\ at[i] # "idle" => InForce(file, mem[order[i].session]) \in Seeing(file, mem)[i].seen
      BY <2>1, <3>1, SeeingKeeps
    <3>3. \A i \in Job : i # j => order'[i] = Seeing(file, mem)[i]
      BY <2>4 DEF mem
    <3>4. \A i \in Job : i # j =>
          /\ order'[i].kind = order[i].kind
          /\ order'[i].session = order[i].session
          /\ order[i].seen \subseteq order'[i].seen
          /\ at[i] # "idle" => InForce(file, mem[order'[i].session]) \in order'[i].seen
      BY <3>2, <3>3
    <3> QED BY <3>4 DEF mem
  <2>7. Current'
    BY <2>1, <2>2, <2>5, <2>6 DEF Current
  <2>8. WritesAllowed'
    BY <2>2, <2>5, <2>6 DEF WritesAllowed
  <2> QED BY <2>7, <2>8
<1>9. ASSUME NEW s \in Session, Notice(s) \/ Offline(s) \/ Online(s)
      PROVE  Current' /\ WritesAllowed'
  <2>1. UNCHANGED <<file, at, order>> /\ (memory' = memory \/ \E t \in Session : Refreshed(t))
    BY <1>9 DEF Notice, Offline, Online
  <2> QED BY <1>2, <1>3, <2>1 DEF Current, WritesAllowed
<1>10. ASSUME UNCHANGED execVars PROVE Current' /\ WritesAllowed'
  BY <1>10 DEF execVars, Current, WritesAllowed
<1> QED BY <1>4, <1>5, <1>6, <1>7, <1>8, <1>9, <1>10 DEF ExecNext, Execute

(* A command that writes has seen a mode that lets it since it arrived, whatever SetMode
   commands did to the file and to the sessions' views meanwhile. *)
THEOREM WritesAllowedHolds == ExecSpec => []WritesAllowed
<1>1. ExecInit => Current /\ WritesAllowed
  BY DEF ExecInit, Current, WritesAllowed
<1>2. ExecTyped /\ Current /\ WritesAllowed /\ [ExecNext]_execVars => Current' /\ WritesAllowed'
  BY CurrentNext
<1> QED BY <1>1, <1>2, ExecTypedAlways, PTL DEF ExecSpec

-----------------------------------------------------------------------------
(***************************************************************************)
(* SyncDir, for any paths, contents and options                              *)
(***************************************************************************)

(* The files that exist. *)
Regular == [data: Content \cup {Mixture}, size: {SizeOf[c] : c \in Content}, mtime: 0..MaxTime]

(* No file is dated later than the clock, and what is copied exists. *)
InTime ==
  /\ \A p \in Path : src[p].mtime <= clock /\ dest[p].mtime <= clock
  /\ copying # NoCopy => copying.path \in Path /\ copying.file \in Regular

LEMMA RegularIsFile ==
  /\ Regular \subseteq Files /\ Missing \notin Regular
  /\ \A f \in Files : f # Missing => f \in Regular
BY SyncAssumption DEF Regular, Files, Missing

LEMMA FileTyped ==
  ASSUME NEW c \in Content, NEW t \in 0..MaxTime
  PROVE  File(c, t) \in Regular /\ File(c, t).mtime = t
BY DEF File, Regular

LEMMA MixedTyped ==
  ASSUME NEW d, NEW t, NEW f \in Mixed(d, t)
  PROVE  f \in Files /\ f.mtime = t /\ f # Missing
BY SyncAssumption DEF Mixed, Missing

LEMMA TouchedTyped ==
  ASSUME NEW f \in Regular, NEW t \in 0..MaxTime
  PROVE  /\ [f EXCEPT !.mtime = t] \in Regular
         /\ [f EXCEPT !.mtime = t].data = f.data /\ [f EXCEPT !.mtime = t].size = f.size
         /\ [f EXCEPT !.mtime = t].mtime = t
BY DEF Regular

LEMMA MissingTyped == Missing \in Files /\ Missing.mtime = 0 /\ Missing.data = "none"
BY DEF Missing, Files

(* One path of a tree is written. *)
LEMMA WriteOne ==
  ASSUME NEW tree \in [Path -> Files], NEW p \in Path, NEW f \in Files, NEW now \in Nat,
         NEW later \in Nat, now <= later, \A q \in Path : tree[q].mtime <= now,
         f.mtime <= later
  PROVE  /\ [tree EXCEPT ![p] = f] \in [Path -> Files]
         /\ [tree EXCEPT ![p] = f][p] = f
         /\ \A q \in Path : q # p => [tree EXCEPT ![p] = f][q] = tree[q]
         /\ \A q \in Path : [tree EXCEPT ![p] = f][q].mtime <= later
<1>1. \A q \in Path : tree[q].mtime \in Nat
  BY DEF Files, Missing
<1> QED BY <1>1

LEMMA SyncTypeNext ==
  ASSUME SyncTypeOK, InTime, [SyncNext]_syncVars PROVE SyncTypeOK' /\ InTime'
<1>1. clock < MaxTime => clock + 1 \in 0..MaxTime /\ clock \in Nat /\ clock + 1 \in Nat
  BY SyncAssumption DEF SyncTypeOK
<1>2. ASSUME NEW p \in Path, Edit(p) PROVE SyncTypeOK' /\ InTime'
  <2>1. PICK f \in {Missing} \cup {File(c, clock + 1) : c \in Content} : src' = [src EXCEPT ![p] = f]
    BY <1>2 DEF Edit
  <2>2. clock < MaxTime /\ clock' = clock + 1 /\ UNCHANGED <<dest, sync, late>>
    BY <1>2 DEF Edit
  <2>3. f \in Files /\ f.mtime <= clock + 1
    <3>1. CASE f = Missing
      BY <3>1, <1>1, <2>2, MissingTyped
    <3>2. ASSUME NEW c \in Content, f = File(c, clock + 1) PROVE f \in Files /\ f.mtime <= clock + 1
      BY <1>1, <2>2, <3>2, FileTyped, RegularIsFile
    <3> QED BY <2>1, <3>1, <3>2
  <2>4. src \in [Path -> Files] /\ \A q \in Path : src[q].mtime <= clock
    BY DEF SyncTypeOK, InTime
  <2>5. src' \in [Path -> Files] /\ \A q \in Path : src'[q].mtime <= clock'
    BY <1>1, <2>1, <2>2, <2>3, <2>4, WriteOne
  <2>6. \A q \in Path : dest'[q].mtime <= clock'
    <3>1. \A q \in Path : dest[q].mtime \in Nat
      BY DEF SyncTypeOK, Files, Missing
    <3> QED BY <1>1, <2>2, <3>1 DEF InTime
  <2> QED BY <1>1, <1>2, <2>2, <2>5, <2>6 DEF Edit, sync, SyncTypeOK, InTime
<1>3. ASSUME NEW p \in Path, NEW f \in Files, f.mtime <= clock', dest' = [dest EXCEPT ![p] = f],
             clock < MaxTime, clock' = clock + 1, src' = src
      PROVE  /\ dest' \in [Path -> Files] /\ clock' \in 0..MaxTime
             /\ \A q \in Path : src'[q].mtime <= clock' /\ dest'[q].mtime <= clock'
  <2>1. dest \in [Path -> Files] /\ \A q \in Path : dest[q].mtime <= clock
    BY DEF SyncTypeOK, InTime
  <2>2. \A q \in Path : src[q].mtime \in Nat
    BY DEF SyncTypeOK, Files, Missing
  <2>3. \A q \in Path : src'[q].mtime <= clock'
    BY <1>1, <1>3, <2>2 DEF InTime
  <2> QED BY <1>1, <1>3, <2>1, <2>3, WriteOne
<1>4. ASSUME NEW p \in Path, LateSlice(p) PROVE SyncTypeOK' /\ InTime'
  <2>1. PICK f \in Mixed(dest[p], clock + 1) : dest' = [dest EXCEPT ![p] = f]
    BY <1>4 DEF LateSlice
  <2>2. clock < MaxTime /\ clock' = clock + 1 /\ UNCHANGED <<src, sync>>
    BY <1>4 DEF LateSlice
  <2>3. f \in Files /\ f.mtime = clock + 1 /\ f.mtime <= clock'
    BY <1>1, <2>2, MixedTyped
  <2>4. /\ dest' \in [Path -> Files] /\ clock' \in 0..MaxTime
        /\ \A q \in Path : src'[q].mtime <= clock' /\ dest'[q].mtime <= clock'
    BY <1>1, <1>3, <2>1, <2>2, <2>3
  <2> QED BY <1>4, <2>2, <2>4 DEF LateSlice, sync, SyncTypeOK, InTime
<1>5. CASE BeginSyncDir
  BY <1>5 DEF BeginSyncDir, trees, SyncTypeOK, InTime
<1>6. CASE Diff
  <2>1. todo' \subseteq Path /\ extra' \subseteq Path
    BY <1>6 DEF Diff, ToTransfer, ToDelete, DestManifest, Manifest
  <2> QED BY <1>6, <2>1 DEF Diff, trees, SyncTypeOK, InTime
<1>7. ASSUME NEW p \in Path, CopyStart(p) PROVE SyncTypeOK' /\ InTime'
  <2>1. src[p] \in Regular /\ src[p] \in Files
    BY <1>7, RegularIsFile DEF CopyStart, SyncTypeOK
  <2>2. copying' \in [path: Path, file: Files] /\ copying'.path \in Path /\ copying'.file \in Regular
    BY <1>7, <2>1 DEF CopyStart
  <2> QED BY <1>7, <2>2 DEF CopyStart, trees, SyncTypeOK, InTime
<1>8. CASE CopyDone
  <2> DEFINE p == copying.path
             f == [copying.file EXCEPT !.mtime = clock + 1]
  <2>1. /\ copying # NoCopy /\ clock < MaxTime /\ clock' = clock + 1 /\ src' = src
        /\ dest' = [dest EXCEPT ![p] = f] /\ p \in Path /\ copying.file \in Regular
    BY <1>8 DEF CopyDone, InTime
  <2>2. f \in Files /\ f.mtime = clock + 1 /\ f.mtime <= clock'
    BY <1>1, <2>1, TouchedTyped, RegularIsFile
  <2> HIDE DEF p, f
  <2>3. /\ dest' \in [Path -> Files] /\ clock' \in 0..MaxTime
        /\ \A q \in Path : src'[q].mtime <= clock' /\ dest'[q].mtime <= clock'
    BY <1>1, <1>3, <2>1, <2>2
  <2>4. risky' \subseteq Path /\ clean' \subseteq Path
    BY <1>8, <2>1 DEF CopyDone, SyncTypeOK, p
  <2> QED BY <1>8, <2>3, <2>4 DEF CopyDone, SyncTypeOK, InTime
<1>9. CASE CopyFails
  <2> DEFINE p == copying.path
  <2>1. copying # NoCopy /\ src' = src /\ p \in Path /\ copying.file \in Regular
    BY <1>9 DEF CopyFails, InTime
  <2>2. /\ dest' \in [Path -> Files] /\ clock' \in 0..MaxTime
        /\ \A q \in Path : src'[q].mtime <= clock' /\ dest'[q].mtime <= clock'
    <3>1. CASE UNCHANGED <<clock, dest>>
      BY <2>1, <3>1 DEF SyncTypeOK, InTime
    <3>2. ASSUME clock < MaxTime, clock' = clock + 1,
                 NEW f \in Mixed(dest[p], clock + 1) \cup {[copying.file EXCEPT !.mtime = clock + 1]},
                 dest' = [dest EXCEPT ![p] = f]
          PROVE  /\ dest' \in [Path -> Files] /\ clock' \in 0..MaxTime
                 /\ \A q \in Path : src'[q].mtime <= clock' /\ dest'[q].mtime <= clock'
      <4>1. f \in Mixed(dest[p], clock + 1) => f \in Files /\ f.mtime = clock + 1
        BY MixedTyped
      <4>2. /\ [copying.file EXCEPT !.mtime = clock + 1] \in Files
            /\ [copying.file EXCEPT !.mtime = clock + 1].mtime = clock + 1
        BY <1>1, <2>1, <3>2, TouchedTyped, RegularIsFile
      <4>3. f \in Files /\ f.mtime = clock + 1 /\ f.mtime <= clock'
        <5> DEFINE g == [copying.file EXCEPT !.mtime = clock + 1]
        <5>1. f \in Mixed(dest[p], clock + 1) \/ f = g
          BY <3>2
        <5>2. g \in Files /\ g.mtime = clock + 1
          BY <4>2
        <5> HIDE DEF g
        <5> QED BY <1>1, <3>2, <4>1, <5>1, <5>2
      <4> HIDE DEF p
      <4> QED BY <1>3, <2>1, <3>2, <4>3
    <3> QED BY <1>9, <3>1, <3>2 DEF CopyFails
  <2>3. risky' \subseteq Path /\ clean' \subseteq Path /\ late' \subseteq Path
    BY <1>9, <2>1 DEF CopyFails, SyncTypeOK
  <2> QED BY <1>9, <2>2, <2>3 DEF CopyFails, SyncTypeOK, InTime
<1>10. CASE Fail \/ Copied
  BY <1>10 DEF Fail, Copied, trees, SyncTypeOK, InTime
<1>11. CASE Delete
  <2>1. PICK gone \in SUBSET extra : dest' = [p \in Path |-> IF p \in gone THEN Missing ELSE dest[p]]
    BY <1>11 DEF Delete
  <2>2. UNCHANGED <<clock, src>> /\ phase' \in {"done", "failed"}
    BY <1>11 DEF Delete
  <2>3. \A p \in Path : dest'[p] \in {Missing, dest[p]}
    BY <2>1
  <2>4. dest' \in [Path -> Files]
    BY <2>1, MissingTyped DEF SyncTypeOK
  <2>5. clock >= 0
    BY DEF SyncTypeOK
  <2>6. \A p \in Path : dest'[p].mtime <= clock'
    BY <2>2, <2>3, <2>5, MissingTyped DEF InTime
  <2> QED BY <1>11, <2>2, <2>4, <2>6 DEF Delete, SyncTypeOK, InTime
<1>12. CASE UNCHANGED syncVars
  BY <1>12 DEF syncVars, sync, trees, SyncTypeOK, InTime
<1> QED BY <1>2, <1>4, <1>5, <1>6, <1>7, <1>8, <1>9, <1>10, <1>11, <1>12 DEF SyncNext

(* The types hold for any trees, options and length of time. *)
THEOREM SyncTypeCorrect == SyncSpec => [](SyncTypeOK /\ InTime)
<1>1. SyncInit => SyncTypeOK /\ InTime
  <2> SUFFICES ASSUME SyncInit PROVE SyncTypeOK /\ InTime
    OBVIOUS
  <2>1. \A c \in Content : /\ File(c, 0) \in Files /\ File(c, 0).mtime <= 1
                           /\ File(c, 1) \in Files /\ File(c, 1).mtime <= 1
    BY FileTyped, RegularIsFile, SyncAssumption
  <2>2. src \in [Path -> Files] /\ \A p \in Path : src[p].mtime <= 1
    <3>1. \A f \in {Missing} \cup {File(c, 1) : c \in Content} : f \in Files /\ f.mtime <= 1
      BY <2>1, MissingTyped
    <3> QED BY <3>1 DEF SyncInit
  <2>3. dest \in [Path -> Files] /\ \A p \in Path : dest[p].mtime <= 1
    <3>1. \A f \in {Missing} \cup {File(c, 0) : c \in Content} : f \in Files /\ f.mtime <= 1
      BY <2>1, MissingTyped
    <3> QED BY <3>1 DEF SyncInit
  <2>4. walk \in [Path -> Files] /\ clock \in 0..MaxTime /\ clock = 1
    BY MissingTyped, SyncAssumption DEF SyncInit
  <2> QED BY <2>2, <2>3, <2>4 DEF SyncInit, SyncTypeOK, InTime
<1> QED BY <1>1, SyncTypeNext, PTL DEF SyncSpec

-----------------------------------------------------------------------------
(* Mirrors: what is neither left to copy or delete nor changed is as it should be. *)

(* The quick check errs about risky paths only. *)
QuickIsRight(p) ==
  src[p] # Missing /\ dest[p] # Missing /\ src[p].size = dest[p].size /\ src[p].mtime <= dest[p].mtime
  => Same(p) \/ p \in risky

(* What was walked is there still, unless it has changed; so is what is being copied. *)
Walked ==
  /\ phase # "idle" => \A p \in Path \ changed : src[p] = walk[p]
  /\ copying # NoCopy => /\ phase = "copy"
                         /\ \/ src[copying.path] = copying.file
                            \/ copying.path \in changed \cap risky

Dealt(p) ==
  /\ src[p] # Missing => p \in todo \/ Same(p) \/ (~ opts.checksum /\ p \in risky)
  /\ opts.delete /\ src[p] = Missing => p \in extra \/ dest[p] = Missing
  /\ p \in extra => src[p] = Missing

Planned ==
  /\ phase \in {"copy", "delete"} => ~ opts.dry_run
  /\ phase \in {"copy", "delete"} => \A p \in Path \ (Excluded \cup changed) : Dealt(p)
  /\ phase = "delete" => todo = {}

Sound == (\A p \in Path : QuickIsRight(p)) /\ Walked /\ Planned /\ Mirrors

(* Someone else writes one path. *)
LEMMA SoundMeddled ==
  ASSUME InTime, Sound, NEW p \in Path, changed' = changed \cup {p}, QuickIsRight(p)',
         \A q \in Path : q # p => src'[q] = src[q] /\ dest'[q] = dest[q],
         risky' \in {risky, risky \cup {p}},
         src'[p] = src[p] \/ (copying.path = p => p \in risky'),
         UNCHANGED sync
  PROVE  Sound'
<1>1. UNCHANGED <<phase, opts, walk, todo, extra, copying>>
  BY DEF sync
<1>2. \A q \in Path : QuickIsRight(q)'
  BY <1>1 DEF Sound, QuickIsRight, Same
<1>3. Walked'
  <2>1. phase' # "idle" => \A q \in Path \ changed' : src'[q] = walk'[q]
    BY <1>1 DEF Sound, Walked
  <2>2. ASSUME copying' # NoCopy
        PROVE  \/ src'[copying'.path] = copying'.file
               \/ copying'.path \in changed' \cap risky'
    <3>1. CASE copying.path = p
      BY <1>1, <2>2, <3>1 DEF Sound, Walked
    <3>2. CASE copying.path # p /\ copying.path \in Path
      BY <1>1, <2>2, <3>2 DEF Sound, Walked
    <3> QED BY <1>1, <2>2, <3>1, <3>2 DEF InTime
  <2> QED BY <1>1, <2>1, <2>2 DEF Sound, Walked
<1>4. \A q \in Path \ (Excluded \cup changed') : q # p /\ q \in Path \ (Excluded \cup changed)
  OBVIOUS
<1>5. Planned'
  BY <1>1, <1>4 DEF Sound, Planned, Dealt, Same
<1>6. Mirrors'
  BY <1>1, <1>4 DEF Sound, Mirrors, Finished, Same
<1> QED BY <1>2, <1>3, <1>5, <1>6 DEF Sound

(* A file that is written now is dated later than anything at the destination. *)
LEMMA SoundEdited ==
  ASSUME SyncTypeOK, InTime, Sound, NEW p \in Path, Edit(p) PROVE Sound'
<1>1. PICK f \in {Missing} \cup {File(c, clock + 1) : c \in Content} : src' = [src EXCEPT ![p] = f]
  BY DEF Edit
<1>2. /\ clock < MaxTime /\ changed' = changed \cup {p} /\ UNCHANGED <<dest, sync>>
      /\ risky' = IF copying.path = p THEN risky \cup {p} ELSE risky
  BY DEF Edit
<1>3. src'[p] = f /\ \A q \in Path : q # p => src'[q] = src[q]
  BY <1>1 DEF SyncTypeOK
<1>4. QuickIsRight(p)'
  <2>1. CASE f = Missing
    BY <1>3, <2>1 DEF QuickIsRight
  <2>2. ASSUME NEW c \in Content, f = File(c, clock + 1) PROVE QuickIsRight(p)'
    <3>1. f.mtime = clock + 1
      BY <2>2 DEF File
    <3>2. dest[p].mtime <= clock /\ clock \in Nat /\ dest[p].mtime \in Nat
      BY DEF InTime, SyncTypeOK, Files, Missing
    <3> QED BY <1>2, <1>3, <3>1, <3>2 DEF QuickIsRight
  <2> QED BY <2>1, <2>2
<1> QED BY <1>2, <1>3, <1>4, SoundMeddled

LEMMA SoundLate ==
  ASSUME SyncTypeOK, InTime, Sound, NEW p \in Path, LateSlice(p) PROVE Sound'
<1>1. PICK f : dest' = [dest EXCEPT ![p] = f]
  BY DEF LateSlice
<1>2. changed' = changed \cup {p} /\ risky' = risky \cup {p} /\ UNCHANGED <<src, sync>>
  BY DEF LateSlice
<1>3. \A q \in Path : q # p => dest'[q] = dest[q]
  BY <1>1 DEF SyncTypeOK
<1>4. QuickIsRight(p)'
  BY <1>2 DEF QuickIsRight
<1> QED BY <1>2, <1>3, <1>4, SoundMeddled

(* What the plan leaves alone is right already, as far as the check can tell. *)
LEMMA SoundDiff ==
  ASSUME SyncTypeOK, InTime, Sound, Diff PROVE Sound'
<1>1. /\ phase = "walked" /\ todo' = ToTransfer /\ extra' = ToDelete
      /\ phase' = IF opts.dry_run THEN "done" ELSE "copy"
      /\ UNCHANGED <<opts, walk, copying, clock, src, dest, changed, risky>>
  BY DEF Diff, trees
<1>2. ASSUME NEW p \in Path \ (Excluded \cup changed) PROVE Dealt(p)'
  <2>1. src[p] = walk[p]
    BY <1>1 DEF Sound, Walked
  <2>2. p \in Manifest(walk) <=> src[p] # Missing
    BY <2>1 DEF Manifest
  <2>3. p \in DestManifest(dest) <=> dest[p] # Missing
    BY DEF DestManifest, Manifest
  <2>4. ASSUME src[p] # Missing, p \notin ToTransfer
        PROVE  Same(p) \/ (~ opts.checksum /\ p \in risky)
    <3>1. dest[p] # Missing /\ ~ Needs(walk[p], dest[p])
      BY <2>2, <2>3, <2>4 DEF ToTransfer
    <3>2. CASE opts.checksum
      BY <2>1, <3>1, <3>2 DEF Needs, Same
    <3>3. CASE ~ opts.checksum
      <4>1. src[p].size = dest[p].size /\ ~ (src[p].mtime > dest[p].mtime)
        BY <2>1, <3>1, <3>3 DEF Needs
      <4>2. src[p].mtime \in Nat /\ dest[p].mtime \in Nat
        BY DEF SyncTypeOK, Files, Missing
      <4>3. src[p].mtime <= dest[p].mtime
        BY <4>1, <4>2
      <4> QED BY <2>4, <3>1, <3>3, <4>1, <4>3 DEF Sound, QuickIsRight
    <3> QED BY <3>2, <3>3
  <2>5. p \in ToDelete => src[p] = Missing
    BY <2>2 DEF ToDelete, DestManifest, Manifest
  <2>6. ASSUME opts.delete, src[p] = Missing, dest[p] # Missing PROVE p \in ToDelete
    BY <2>2, <2>3, <2>6 DEF ToDelete
  <2> QED BY <1>1, <2>4, <2>5, <2>6 DEF Dealt, Same
<1>3. \A p \in Path : QuickIsRight(p)'
  BY <1>1 DEF Sound, QuickIsRight, Same
<1>4. Walked'
  BY <1>1 DEF Sound, Walked
<1>5. Planned'
  BY <1>1, <1>2 DEF Planned
<1>6. Mirrors'
  BY <1>1 DEF Mirrors, Finished
<1> QED BY <1>3, <1>4, <1>5, <1>6 DEF Sound

LEMMA SoundCopied ==
  ASSUME SyncTypeOK, InTime, Sound, CopyDone PROVE Sound'
<1>0. PICK p : p = copying.path
  OBVIOUS
<1> DEFINE f == [copying.file EXCEPT !.mtime = clock + 1]
<1>1. /\ copying # NoCopy /\ src' = src /\ dest' = [dest EXCEPT ![p] = f] /\ clock < MaxTime
      /\ risky' = (IF src[p] = copying.file THEN risky \ {p} ELSE risky)
      /\ todo' = todo \ {p} /\ copying' = NoCopy /\ UNCHANGED <<phase, opts, walk, extra, changed>>
  BY <1>0 DEF CopyDone
<1>2. p \in Path /\ copying.file \in Regular /\ phase = "copy"
  BY <1>0, <1>1 DEF InTime, Sound, Walked
<1>3. f.data = copying.file.data
  BY <1>2 DEF Regular
<1>4. src[p] # copying.file => p \in changed \cap risky
  BY <1>0, <1>1 DEF Sound, Walked
<1> HIDE DEF f
<1>5. dest'[p] = f /\ \A q \in Path : q # p => dest'[q] = dest[q]
  BY <1>1, <1>2 DEF SyncTypeOK
<1>6. src[p] = copying.file => Same(p)'
  BY <1>1, <1>3, <1>5 DEF Same
<1>7. ASSUME NEW q \in Path PROVE QuickIsRight(q)'
  <2>1. CASE q = p
    BY <1>1, <1>4, <1>6, <2>1 DEF QuickIsRight
  <2>2. CASE q # p
    BY <1>1, <1>5, <1>7, <2>2 DEF Sound, QuickIsRight, Same
  <2> QED BY <2>1, <2>2
<1>8. Walked'
  BY <1>1 DEF Sound, Walked
<1>9. ASSUME NEW q \in Path \ (Excluded \cup changed) PROVE Dealt(q)'
  <2>1. Dealt(q)
    BY <1>2, <1>9 DEF Sound, Planned
  <2>2. CASE q = p
    <3>1. Same(q)' /\ src'[q] # Missing
      BY <1>1, <1>2, <1>4, <1>6, <1>9, <2>2, RegularIsFile
    <3> QED BY <1>1, <2>1, <2>2, <3>1 DEF Dealt
  <2>3. CASE q # p
    BY <1>1, <1>5, <2>1, <2>3 DEF Dealt, Same
  <2> QED BY <2>2, <2>3
<1>10. Planned'
  BY <1>1, <1>2, <1>9 DEF Sound, Planned
<1>11. Mirrors'
  BY <1>1, <1>2 DEF Mirrors, Finished
<1> QED BY <1>7, <1>8, <1>10, <1>11 DEF Sound

LEMMA SoundFailed ==
  ASSUME SyncTypeOK, InTime, Sound, CopyFails PROVE Sound'
<1> DEFINE p == copying.path
<1>1. /\ copying # NoCopy /\ src' = src /\ phase' = "failed" /\ copying' = NoCopy
      /\ risky' = risky \cup {p} /\ UNCHANGED <<opts, walk, changed>>
  BY DEF CopyFails
<1>2. dest' = dest \/ \E f : dest' = [dest EXCEPT ![p] = f]
  BY DEF CopyFails
<1>3. \A q \in Path : q # p => dest'[q] = dest[q]
  BY <1>2 DEF SyncTypeOK
<1>4. phase = "copy"
  BY <1>1 DEF Sound, Walked
<1> HIDE DEF p
<1>5. \A q \in Path : QuickIsRight(q)'
  BY <1>1, <1>3 DEF Sound, QuickIsRight, Same
<1>6. Walked'
  BY <1>1, <1>4 DEF Sound, Walked
<1>7. Planned' /\ Mirrors'
  BY <1>1 DEF Planned, Mirrors, Finished
<1> QED BY <1>5, <1>6, <1>7 DEF Sound

LEMMA SoundDeleted ==
  ASSUME SyncTypeOK, InTime, Sound, Delete PROVE Sound'
<1>1. PICK gone \in SUBSET extra :
        /\ dest' = [p \in Path |-> IF p \in gone THEN Missing ELSE dest[p]]
        /\ phase' \in (IF gone = extra THEN {"done", "failed"} ELSE {"failed"})
  BY DEF Delete
<1>2. phase = "delete" /\ UNCHANGED <<opts, walk, todo, extra, copying, src, changed, risky>>
  BY DEF Delete
<1>3. \A q \in Path : dest'[q] = IF q \in gone THEN Missing ELSE dest[q]
  BY <1>1
<1>4. \A q \in Path : QuickIsRight(q)'
  BY <1>2, <1>3 DEF Sound, QuickIsRight, Same
<1>5. copying = NoCopy
  BY <1>2 DEF Sound, Walked
<1>6. Walked'
  BY <1>2, <1>5 DEF Sound, Walked
<1>7. phase' \in {"done", "failed"}
  BY <1>1
<1>8. Planned'
  BY <1>7 DEF Planned
<1>9. ASSUME phase' = "done", NEW q \in Path \ (Excluded \cup changed)
      PROVE  /\ src'[q] # Missing => Same(q)' \/ (~ opts'.checksum /\ q \in risky')
             /\ opts'.delete /\ src'[q] = Missing => dest'[q] = Missing
  <2>1. Dealt(q) /\ todo = {} /\ gone = extra
    BY <1>1, <1>2, <1>9 DEF Sound, Planned
  <2>2. opts.delete /\ src[q] = Missing => dest'[q] = Missing
    BY <1>3, <2>1 DEF Dealt
  <2>3. src[q] # Missing => dest'[q] = dest[q]
    BY <1>3, <2>1 DEF Dealt
  <2> QED BY <1>2, <2>1, <2>2, <2>3 DEF Dealt, Same
<1>10. Mirrors'
  BY <1>2, <1>9 DEF Mirrors, Finished
<1> QED BY <1>4, <1>6, <1>8, <1>10 DEF Sound

LEMMA SoundNext ==
  ASSUME SyncTypeOK, InTime, Sound, [SyncNext]_syncVars PROVE Sound'
<1>1. CASE BeginSyncDir
  <2>1. /\ walk' = src /\ changed' = {} /\ phase' = "walked" /\ copying' = NoCopy
        /\ UNCHANGED <<src, dest, risky>>
    BY <1>1 DEF BeginSyncDir, trees
  <2>2. \A p \in Path : QuickIsRight(p)'
    BY <2>1 DEF Sound, QuickIsRight, Same
  <2> QED BY <2>1, <2>2 DEF Sound, Walked, Planned, Mirrors, Finished
<1>2. ASSUME NEW p \in Path, CopyStart(p) PROVE Sound'
  <2>1. /\ phase = "copy" /\ copying' = [path |-> p, file |-> src[p]]
        /\ UNCHANGED <<phase, opts, walk, todo, extra, src, dest, changed, risky>>
    BY <1>2 DEF CopyStart, trees
  <2> QED BY <2>1 DEF Sound, QuickIsRight, Same, Walked, Planned, Dealt, Mirrors, Finished
<1>3. CASE Fail
  <2>1. /\ phase' = "failed" /\ copying' = copying
        /\ UNCHANGED <<walk, src, dest, changed, risky>>
    BY <1>3 DEF Fail, trees
  <2>2. copying = NoCopy /\ phase # "idle"
    BY <1>3 DEF Fail, Sound, Walked
  <2> QED BY <2>1, <2>2 DEF Sound, QuickIsRight, Same, Walked, Planned, Mirrors, Finished
<1>4. CASE Copied
  <2>1. /\ phase = "copy" /\ copying = NoCopy /\ todo = {} /\ phase' = (IF extra = {} THEN "done" ELSE "delete")
        /\ UNCHANGED <<opts, walk, todo, extra, copying, src, dest, changed, risky>>
    BY <1>4 DEF Copied, trees
  <2>2. \A p \in Path \ (Excluded \cup changed) : Dealt(p) /\ Dealt(p)'
    BY <2>1 DEF Sound, Planned, Dealt, Same
  <2>3. Planned'
    BY <2>1, <2>2 DEF Sound, Planned
  <2>4. Mirrors'
    BY <2>1, <2>2 DEF Mirrors, Finished, Dealt
  <2>5. Walked' /\ \A p \in Path : QuickIsRight(p)'
    BY <2>1 DEF Sound, Walked, QuickIsRight, Same
  <2> QED BY <2>3, <2>4, <2>5 DEF Sound
<1>5. CASE UNCHANGED syncVars
  BY <1>5 DEF syncVars, sync, trees, Sound, QuickIsRight, Same, Walked, Planned, Dealt, Mirrors,
              Finished
<1> QED BY <1>1, <1>2, <1>3, <1>4, <1>5, SoundEdited, SoundLate, SoundDiff, SoundCopied,
           SoundFailed, SoundDeleted DEF SyncNext

LEMMA SoundAlways == SyncSpec => []Sound
<1>1. SyncInit => Sound
  <2> SUFFICES ASSUME SyncInit PROVE Sound
    OBVIOUS
  <2>1. \A p \in Path : src[p] # Missing /\ dest[p] # Missing =>
                          src[p].mtime = 1 /\ dest[p].mtime = 0
    BY DEF SyncInit, File
  <2>2. ~ (1 <= 0)
    OBVIOUS
  <2>3. \A p \in Path : QuickIsRight(p)
    BY <2>1, <2>2 DEF QuickIsRight
  <2> QED BY <2>3 DEF SyncInit, Sound, Walked, Planned, Mirrors, Finished
<1> QED BY <1>1, SoundNext, SyncTypeCorrect, PTL DEF SyncSpec

(* A sync that reports success has made the destination equal to the source: whatever the
   trees, whoever writes to them meanwhile, and however often it was tried before. *)
THEOREM MirrorsHolds == SyncSpec => []Mirrors
<1>1. Sound => Mirrors
  BY DEF Sound
<1> QED BY <1>1, SoundAlways, PTL

-----------------------------------------------------------------------------
(* ExcludedKept: nothing excluded is planned, copied or given up. *)

Spared ==
  /\ todo \cap Excluded = {} /\ extra \cap Excluded = {} /\ late \cap Excluded = {}
  /\ copying # NoCopy => copying.path \notin Excluded

LEMMA SparedNext ==
  ASSUME SyncTypeOK, Spared, [SyncNext]_syncVars
  PROVE  Spared' /\ \A p \in Excluded \cap Path : dest'[p] = dest[p]
<1>1. CASE Diff
  <2>1. ToTransfer \cap Excluded = {} /\ ToDelete \cap Excluded = {}
    BY DEF ToTransfer, ToDelete, DestManifest, Manifest
  <2> QED BY <1>1, <2>1 DEF Diff, Spared, trees
<1>2. ASSUME NEW p \in Path, Edit(p) PROVE Spared' /\ dest' = dest
  BY <1>2 DEF Edit, sync, Spared
<1>3. ASSUME NEW p \in Path, LateSlice(p)
      PROVE  Spared' /\ \A q \in Excluded \cap Path : dest'[q] = dest[q]
  <2>1. p \notin Excluded /\ \E f : dest' = [dest EXCEPT ![p] = f]
    BY <1>3 DEF LateSlice, Spared
  <2>2. \A q \in Excluded \cap Path : dest'[q] = dest[q]
    BY <2>1 DEF SyncTypeOK
  <2> QED BY <1>3, <2>2 DEF LateSlice, sync, Spared
<1>4. ASSUME NEW p \in Path, CopyStart(p) PROVE Spared' /\ dest' = dest
  BY <1>4 DEF CopyStart, trees, Spared
<1>5. CASE CopyDone \/ CopyFails
  <2>1. copying # NoCopy /\ copying.path \notin Excluded
    BY <1>5 DEF CopyDone, CopyFails, Spared
  <2>2. dest' = dest \/ \E f : dest' = [dest EXCEPT ![copying.path] = f]
    BY <1>5 DEF CopyDone, CopyFails
  <2>3. \A q \in Excluded \cap Path : dest'[q] = dest[q]
    BY <2>1, <2>2 DEF SyncTypeOK
  <2> QED BY <1>5, <2>1, <2>3 DEF CopyDone, CopyFails, Spared
<1>6. CASE Delete
  <2>1. PICK gone \in SUBSET extra : dest' = [p \in Path |-> IF p \in gone THEN Missing ELSE dest[p]]
    BY <1>6 DEF Delete
  <2>2. \A q \in Excluded \cap Path : dest'[q] = dest[q]
    BY <2>1 DEF Spared
  <2> QED BY <1>6, <2>2 DEF Delete, Spared
<1>7. CASE BeginSyncDir \/ Fail \/ Copied
  BY <1>7 DEF BeginSyncDir, Fail, Copied, trees, Spared
<1>8. CASE UNCHANGED syncVars
  BY <1>8 DEF syncVars, sync, trees, Spared
<1> QED BY <1>1, <1>2, <1>3, <1>4, <1>5, <1>6, <1>7, <1>8 DEF SyncNext

(* Nothing is ever done to an excluded path, not even by a sync that deletes. *)
THEOREM ExcludedKeptHolds == SyncSpec => ExcludedKept
<1>1. SyncInit => Spared
  BY DEF SyncInit, Spared
<1>2. SyncTypeOK /\ Spared /\ [SyncNext]_syncVars => Spared'
  BY SparedNext
<1>3. SyncTypeOK /\ Spared /\ [SyncNext]_syncVars => \A p \in Excluded : dest'[p] = dest[p]
  BY SparedNext, SyncAssumption
<1> QED BY <1>1, <1>2, <1>3, SyncTypeCorrect, PTL DEF SyncSpec, ExcludedKept

-----------------------------------------------------------------------------
(* NotResent: what was copied and not written since passes either check. *)

(* Both ends of a path pass the check, by whichever options. *)
Equal(p) ==
  /\ src[p] # Missing /\ dest[p] # Missing
  /\ src[p].data = dest[p].data /\ src[p].size = dest[p].size /\ src[p].mtime <= dest[p].mtime

Settling ==
  /\ \A p \in clean : Equal(p)
  /\ phase = "walked" => clean \cap changed = {} /\ todo = {}
  /\ phase \in {"copy", "delete"} => (extra \cup todo) \cap clean = {} /\ extra \cap todo = {}
  /\ copying # NoCopy => copying.path \in todo

LEMMA DiffSpares ==
  ASSUME SyncTypeOK, InTime, Sound, Settling, Diff
  PROVE  ToTransfer \cap clean = {} /\ ToDelete \cap clean = {} /\ ToDelete \cap ToTransfer = {}
<1>1. ASSUME NEW p \in clean PROVE p \notin ToTransfer /\ p \notin ToDelete
  <2>1. p \in Path /\ p \notin changed /\ Equal(p)
    BY <1>1 DEF SyncTypeOK, Settling, Diff
  <2>2. walk[p] = src[p]
    BY <2>1 DEF Sound, Walked, Diff
  <2>3. src[p].mtime \in Nat /\ dest[p].mtime \in Nat
    BY <2>1 DEF SyncTypeOK, Files, Missing
  <2>4. ~ Needs(walk[p], dest[p])
    BY <2>1, <2>2, <2>3 DEF Needs, Equal
  <2>5. p \in Manifest(walk) => p \in DestManifest(dest)
    BY <2>1 DEF Manifest, DestManifest, Equal
  <2>6. p \in DestManifest(dest) => p \in Manifest(walk)
    BY <2>1, <2>2 DEF Manifest, DestManifest, Equal
  <2> QED BY <2>4, <2>5, <2>6 DEF ToTransfer, ToDelete
<1>2. ToDelete \cap ToTransfer = {}
  BY DEF ToTransfer, ToDelete
<1> QED BY <1>1, <1>2

LEMMA SettlingNext ==
  ASSUME SyncTypeOK, InTime, Sound, Settling, [SyncNext]_syncVars
  PROVE  Settling' /\ SendsOnlyNews
<1>1. ASSUME NEW p \in Path, clean' = clean \ {p}, changed' = changed \cup {p}, UNCHANGED sync,
             \A q \in Path : q # p => src'[q] = src[q] /\ dest'[q] = dest[q]
      PROVE  Settling' /\ SendsOnlyNews
  <2>1. UNCHANGED <<phase, opts, walk, todo, extra, copying>>
    BY <1>1 DEF sync
  <2>2. \A q \in clean' : Equal(q)'
    BY <1>1 DEF Settling, Equal, SyncTypeOK
  <2> QED BY <1>1, <2>1, <2>2 DEF Settling, SendsOnlyNews
<1>2. ASSUME NEW p \in Path, Edit(p) PROVE Settling' /\ SendsOnlyNews
  <2>1. \A q \in Path : q # p => src'[q] = src[q]
    BY <1>2 DEF Edit, SyncTypeOK
  <2> QED BY <1>1, <1>2, <2>1 DEF Edit
<1>3. ASSUME NEW p \in Path, LateSlice(p) PROVE Settling' /\ SendsOnlyNews
  <2>1. \A q \in Path : q # p => dest'[q] = dest[q]
    BY <1>3 DEF LateSlice, SyncTypeOK
  <2> QED BY <1>1, <1>3, <2>1 DEF LateSlice
<1>4. CASE BeginSyncDir
  BY <1>4 DEF BeginSyncDir, Running, trees, Settling, Equal, SendsOnlyNews
<1>5. CASE Diff
  <2>1. /\ phase = "walked" /\ todo' = ToTransfer /\ extra' = ToDelete /\ phase' # "walked"
        /\ UNCHANGED <<copying, src, dest, clean>>
    BY <1>5 DEF Diff, trees
  <2>2. copying = NoCopy
    BY <2>1 DEF Sound, Walked
  <2> QED BY <1>5, <2>1, <2>2, DiffSpares DEF Settling, Equal, SendsOnlyNews
<1>6. ASSUME NEW p \in Path, CopyStart(p) PROVE Settling' /\ SendsOnlyNews
  <2>1. copying'.path = p /\ p \in todo
    BY <1>6 DEF CopyStart
  <2> QED BY <1>6, <2>1 DEF CopyStart, trees, Settling, Equal, SendsOnlyNews
<1>7. CASE CopyDone
  <2>0. PICK p : p = copying.path
    OBVIOUS
  <2> DEFINE f == [copying.file EXCEPT !.mtime = clock + 1]
  <2>1. /\ copying # NoCopy /\ src' = src /\ dest' = [dest EXCEPT ![p] = f] /\ clock < MaxTime
        /\ clean' = (IF src[p] = copying.file THEN clean \cup {p} ELSE clean)
        /\ todo' = todo \ {p} /\ copying' = NoCopy /\ UNCHANGED <<phase, opts, walk, extra, changed>>
    BY <1>7, <2>0 DEF CopyDone
  <2>2. p \in Path /\ copying.file \in Regular /\ phase = "copy" /\ p \in todo
    BY <2>0, <2>1 DEF InTime, Sound, Walked, Settling
  <2>3. /\ f.data = copying.file.data /\ f.size = copying.file.size /\ f.mtime = clock + 1
        /\ f # Missing
    <3>1. clock + 1 \in 0..MaxTime
      BY <2>1, SyncAssumption DEF SyncTypeOK
    <3>2. f \in Regular
      BY <2>2, <3>1, TouchedTyped
    <3> QED BY <2>2, <3>1, <3>2, TouchedTyped, RegularIsFile
  <2> HIDE DEF f
  <2>4. dest'[p] = f /\ \A q \in Path : q # p => dest'[q] = dest[q]
    BY <2>1, <2>2 DEF SyncTypeOK
  <2>5. src[p].mtime <= clock /\ clock \in Nat /\ src[p].mtime \in Nat
    BY <2>2 DEF InTime, SyncTypeOK, Files, Missing
  <2>6. p \notin clean /\ p \notin extra
    BY <2>2 DEF Settling
  <2>7. ASSUME NEW q \in clean' PROVE Equal(q)'
    <3>1. CASE q = p
      <4>1. src[p] = copying.file
        BY <2>1, <2>6, <2>7, <3>1
      <4>2. src[p] # Missing
        BY <2>2, <4>1, RegularIsFile
      <4>3. src[p].mtime <= f.mtime
        BY <2>3, <2>5
      <4> QED BY <2>1, <2>3, <2>4, <3>1, <4>1, <4>2, <4>3 DEF Equal
    <3>2. CASE q # p
      <4>1. q \in clean /\ q \in Path
        BY <2>1, <2>7, <3>2 DEF SyncTypeOK
      <4> QED BY <2>1, <2>4, <3>2, <4>1 DEF Settling, Equal
    <3> QED BY <3>1, <3>2
  <2>8. (extra' \cup todo') \cap clean' = {} /\ extra' \cap todo' = {}
    BY <2>1, <2>2, <2>6 DEF Settling
  <2> QED BY <2>1, <2>2, <2>7, <2>8 DEF Settling, SendsOnlyNews
<1>8. CASE CopyFails
  <2>1. /\ copying # NoCopy /\ src' = src /\ phase' = "failed" /\ copying' = NoCopy
        /\ clean' = clean \ {copying.path} /\ UNCHANGED <<todo, extra, changed>>
        /\ dest' = dest \/ \E f : dest' = [dest EXCEPT ![copying.path] = f]
    BY <1>8 DEF CopyFails
  <2>2. \A q \in Path : q # copying.path => dest'[q] = dest[q]
    BY <2>1 DEF SyncTypeOK
  <2>3. \A q \in clean' : Equal(q)'
    BY <2>1, <2>2 DEF Settling, Equal, SyncTypeOK
  <2> QED BY <2>1, <2>3 DEF Settling, SendsOnlyNews
<1>9. CASE Delete
  <2>1. PICK gone \in SUBSET extra : dest' = [p \in Path |-> IF p \in gone THEN Missing ELSE dest[p]]
    BY <1>9 DEF Delete
  <2>2. /\ phase = "delete" /\ phase' \in {"done", "failed"}
        /\ UNCHANGED <<todo, extra, copying, src, changed, clean>>
    BY <1>9 DEF Delete
  <2>3. \A q \in clean : dest'[q] = dest[q]
    BY <2>1, <2>2 DEF Settling, SyncTypeOK
  <2> QED BY <2>2, <2>3 DEF Settling, Equal, SendsOnlyNews, Sound, Walked
<1>10. CASE Fail \/ Copied
  BY <1>10 DEF Fail, Copied, trees, Settling, Equal, SendsOnlyNews
<1>11. CASE UNCHANGED syncVars
  BY <1>11 DEF syncVars, sync, trees, Settling, Equal, SendsOnlyNews
<1> QED BY <1>2, <1>3, <1>4, <1>5, <1>6, <1>7, <1>8, <1>9, <1>10, <1>11 DEF SyncNext

(* A file that was copied and not written since is not sent again, by whichever check. *)
THEOREM NotResentHolds == SyncSpec => NotResent
<1>1. SyncInit => Settling
  BY DEF SyncInit, Settling
<1>2. SyncTypeOK /\ InTime /\ Sound /\ Settling /\ [SyncNext]_syncVars => Settling'
  BY SettlingNext
<1>3. SyncTypeOK /\ InTime /\ Sound /\ Settling /\ [SyncNext]_syncVars => SendsOnlyNews
  BY SettlingNext
<1> QED BY <1>1, <1>2, <1>3, SoundAlways, SyncTypeCorrect, PTL DEF SyncSpec, NotResent
=============================================================================
