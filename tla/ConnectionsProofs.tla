----------------------------- MODULE ConnectionsProofs -----------------------------
(***************************************************************************)
(* What holds of the processes of a machine and the channels between two: a  *)
(* process that was not killed leaves no cloudflared behind, and knows       *)
(* whatever its own tools have started (Processes); no receive loop takes    *)
(* the packets of a punch (Punch).                                           *)
(***************************************************************************)
EXTENDS Processes, Punch, TLAPS

(***************************************************************************)
(* Processes, for any number of processes, transfers and tunnels             *)
(***************************************************************************)

(* A child that lives is one whose start still waits for its URL, or is registered where *)
(* it was started, or its process was killed.                                            *)
Kept ==
  \A c \in Call : Alive(c) =>
    home[c] # None /\ (start[c] = "waiting" \/ c \in tunnels[home[c]] \/ phase[home[c]] = "killed")

(* A start that waits is that of a tunnel and has a process that waits for it; no child *)
(* comes before.                                                                        *)
Awaited ==
  \A c \in Call : /\ start[c] # "none" => home[c] \in Proc
                  /\ start[c] = "waiting" => phase[home[c]] # "over"
                  /\ start[c] \in {"none", "asked"} => child[c] = "none"
                  /\ start[c] \in {"asked", "waiting"} => c \in Tunnel

(* A tool without an agent_id has acted in the process it was called in. *)
ActedHere ==
  \A c \in Call : /\ issuer[c] # None => home[c] = issuer[c]
                  /\ start[c] = "ok" /\ c \notin Tunnel => c \in transfers[home[c]]

(* A process that has ended has nothing registered. *)
Emptied == \A p \in Proc : phase[p] = "over" => tunnels[p] = {}

IInv == TypeOK /\ Kept /\ Awaited /\ ActedHere /\ Emptied

(* Killing children revives none and leaves the others as they are. *)
LEMMA KilledType ==
  ASSUME TypeOK, NEW S \in SUBSET Call
  PROVE  /\ Killed(S) \in [Call -> {"none", "quiet", "open", "failed", "closed"}]
         /\ \A c \in S : Killed(S)[c] \notin {"quiet", "open"}
         /\ \A c \in Call : Killed(S)[c] # child[c] => child[c] # "none" /\ c \in S
         /\ \A c \in Call : child[c] = "none" => Killed(S)[c] = "none"
  BY DEF TypeOK, Killed, Alive

LEMMA InitHolds == Init => IInv
  BY ProcessesAssumption DEF Init, IInv, TypeOK, Kept, Awaited, ActedHere, Emptied, Alive

LEMMA ToolHolds ==
  ASSUME IInv, NEW p \in Proc, NEW c \in Call, Tool(p, c)
  PROVE  IInv'
<1> USE ProcessesAssumption DEF IInv
<1>1. PICK q \in Proc : /\ home' = [home EXCEPT ![c] = q]
                        /\ \/ issuer' = [issuer EXCEPT ![c] = p] /\ q = p
                           \/ UNCHANGED issuer
  BY DEF Tool, Locally, ByRelay
<1>2. start[c] = "none" /\ child[c] = "none"
  BY DEF Tool, TypeOK, Awaited
<1>3. issuer[c] = None
  BY DEF Tool, TypeOK, ActedHere
<1>4. /\ start' \in [Call -> {"none", "asked", "waiting", "ok", "failed"}]
      /\ start'[c] \in {"asked", "ok"} /\ \A d \in Call \ {c} : start'[d] = start[d]
      /\ start'[c] = "ok" => c \notin Tunnel /\ transfers' = [transfers EXCEPT ![q] = @ \cup {c}]
      /\ start'[c] # "ok" => c \in Tunnel /\ UNCHANGED transfers
  BY <1>1 DEF Tool, TypeOK
<1>5. TypeOK'
  BY <1>1, <1>4 DEF Tool, TypeOK
<1>6. /\ \A d \in Call \ {c} : home'[d] = home[d] /\ issuer'[d] = issuer[d]
      /\ home'[c] = q /\ (issuer'[c] = q \/ issuer'[c] = None)
      /\ \A r \in Proc : transfers[r] \subseteq transfers'[r]
  BY <1>1, <1>3, <1>4 DEF TypeOK
<1>7. Kept'
  BY <1>2, <1>4, <1>6 DEF Tool, Kept, Alive
<1>8. Awaited'
  <2> SUFFICES ASSUME NEW d \in Call
               PROVE  /\ start'[d] # "none" => home'[d] \in Proc
                      /\ start'[d] = "waiting" => phase'[home'[d]] # "over"
                      /\ start'[d] \in {"none", "asked"} => child'[d] = "none"
                      /\ start'[d] \in {"asked", "waiting"} => d \in Tunnel
    BY DEF Awaited
  <2>1. CASE d = c
    BY <2>1, <1>2, <1>4, <1>6 DEF Tool
  <2>2. CASE d # c
    BY <2>2, <1>4, <1>6 DEF Tool, Awaited
  <2> QED BY <2>1, <2>2
<1>9. ActedHere'
  <2> SUFFICES ASSUME NEW d \in Call
               PROVE  /\ issuer'[d] # None => home'[d] = issuer'[d]
                      /\ start'[d] = "ok" /\ d \notin Tunnel => d \in transfers'[home'[d]]
    BY DEF ActedHere
  <2>1. CASE d = c
    BY <2>1, <1>4, <1>6 DEF TypeOK
  <2>2. CASE d # c
    <3>1. start'[d] = "ok" /\ d \notin Tunnel => home[d] \in Proc /\ d \in transfers[home[d]]
      BY <2>2, <1>4 DEF Awaited, ActedHere
    <3> QED BY <2>2, <3>1, <1>4, <1>6 DEF ActedHere
  <2> QED BY <2>1, <2>2
<1>10. Emptied'
  BY DEF Tool, Emptied
<1> QED BY <1>5, <1>7, <1>8, <1>9, <1>10

(* Steps that leave the calls' homes and issuers alone. *)
LEMMA StartHolds ==
  ASSUME IInv, NEW c \in Call, Spawn(c) \/ Opened(c) \/ StartFails(c) \/ Child(c)
  PROVE  IInv'
<1> USE ProcessesAssumption DEF IInv, called
<1>0. Emptied'
  <2>1. CASE Opened(c)
    <3>1. home[c] \in Proc /\ phase[home[c]] # "over"
      BY <2>1 DEF Opened, Awaited
    <3> QED BY <2>1, <3>1 DEF Opened, Emptied, TypeOK
  <2>2. CASE ~ Opened(c)
    BY <2>2 DEF Spawn, StartFails, Child, Emptied
  <2> QED BY <2>1, <2>2
<1>1. CASE Spawn(c)
  <2>1. TypeOK'
    BY <1>1 DEF Spawn, TypeOK
  <2>2. Kept'
    BY <1>1 DEF Spawn, TypeOK, Kept, Awaited, Alive
  <2>3. Awaited'
    BY <1>1 DEF Spawn, TypeOK, Awaited
  <2>4. ActedHere'
    BY <1>1 DEF Spawn, TypeOK, ActedHere
  <2> QED BY <1>0, <2>1, <2>2, <2>3, <2>4
<1>2. CASE Opened(c)
  <2>1. home[c] \in Proc /\ c \in Tunnel
    BY <1>2 DEF Opened, Awaited, TypeOK
  <2>2. TypeOK'
    BY <1>2, <2>1 DEF Opened, TypeOK
  <2>3. Kept'
    BY <1>2, <2>1 DEF Opened, TypeOK, Kept, Alive
  <2>4. Awaited'
    BY <1>2 DEF Opened, TypeOK, Awaited
  <2>5. ActedHere'
    BY <1>2, <2>1 DEF Opened, TypeOK, ActedHere
  <2> QED BY <1>0, <2>2, <2>3, <2>4, <2>5
<1>3. CASE StartFails(c)
  <2>1. /\ TypeOK' /\ ~ Alive(c)'
        /\ \A d \in Call \ {c} : child'[d] = child[d] /\ start'[d] = start[d]
        /\ start'[c] = "failed"
    BY <1>3, KilledType DEF StartFails, TypeOK, Alive
  <2>2. Kept'
    BY <1>3, <2>1 DEF StartFails, Kept, Alive
  <2>3. Awaited'
    <3>1. start[c] = "waiting" /\ UNCHANGED <<phase, home>>
      BY <1>3 DEF StartFails
    <3> QED BY <2>1, <3>1 DEF Awaited
  <2>4. ActedHere'
    BY <1>3, <2>1 DEF StartFails, ActedHere
  <2> QED BY <1>0, <2>1, <2>2, <2>3, <2>4
<1>4. CASE Child(c)
  <2>1. /\ TypeOK' /\ \A d \in Call : Alive(d)' => Alive(d)
        /\ \A d \in Call : child[d] = "none" => child'[d] = "none"
    BY <1>4, KilledType DEF Child, TypeOK, Alive
  <2>2. Kept' /\ Awaited' /\ ActedHere'
    BY <1>4, <2>1 DEF Child, Kept, Awaited, ActedHere
  <2> QED BY <1>0, <2>1, <2>2
<1> QED BY <1>0, <1>1, <1>2, <1>3, <1>4

(* Steps of a process that kill what they take from its registry. *)
LEMMA ReapHolds ==
  ASSUME IInv, NEW p \in Proc, NEW S \in SUBSET Call,
         UNCHANGED <<called, start, transfers>>,
         child' = Killed(S) \/ (UNCHANGED child /\ \A c \in S : ~ Alive(c)),
         tunnels' \in [Proc -> SUBSET Tunnel],
         \A q \in Proc : tunnels[q] \ S \subseteq tunnels'[q],
         phase' \in [Proc -> {"up", "stopping", "ending", "over", "killed"}],
         \A q \in Proc : phase'[q] = "over" => tunnels'[q] = {},
         \A q \in Proc : /\ phase[q] = "killed" => phase'[q] = "killed"
                         /\ phase'[q] = "over" => phase[q] = "over"
                                \/ \A c \in Here(q) : start[c] # "waiting"
  PROVE  IInv'
<1> USE DEF IInv
<1>1. /\ child' \in [Call -> {"none", "quiet", "open", "failed", "closed"}]
      /\ \A c \in Call : Alive(c)' => Alive(c) /\ c \notin S
      /\ \A c \in Call : child[c] = "none" => child'[c] = "none"
  BY KilledType DEF Alive, TypeOK
<1>2. TypeOK'
  BY <1>1 DEF TypeOK, called
<1>3. Kept'
  <2> SUFFICES ASSUME NEW c \in Call, Alive(c)'
               PROVE  /\ home[c] # None
                      /\ start[c] = "waiting" \/ c \in tunnels'[home[c]] \/ phase'[home[c]] = "killed"
    BY DEF Kept, called
  <2>1. /\ home[c] \in Proc
        /\ start[c] = "waiting" \/ c \in tunnels[home[c]] \/ phase[home[c]] = "killed"
    BY <1>1 DEF Kept, TypeOK
  <2> QED BY <1>1, <2>1, ProcessesAssumption
<1>4. Awaited'
  BY <1>1 DEF Awaited, called, Here
<1>5. ActedHere'
  BY DEF ActedHere, called
<1> QED BY <1>2, <1>3, <1>4, <1>5 DEF Emptied

LEMMA ProcessHolds ==
  ASSUME IInv, NEW p \in Proc,
         \/ List(p) \/ Ends(p) \/ Shutdown(p) \/ Exit(p) \/ Kill(p)
         \/ \E c \in Call : StopTunnel(p, c)
  PROVE  IInv'
<1>0. TypeOK /\ Emptied
  BY DEF IInv
<1> USE DEF Emptied
<1>1. CASE List(p)
  <2> DEFINE S == {c \in tunnels[p] : ~ Alive(c)}
  <2>1. S \in SUBSET Call
    BY <1>0, ProcessesAssumption DEF TypeOK
  <2> QED BY <1>0, <1>1, <2>1, ReapHolds, ProcessesAssumption DEF List, TypeOK
<1>2. CASE Ends(p)
  BY <1>0, <1>2, ReapHolds DEF Ends, Goto, TypeOK
<1>3. CASE Shutdown(p)
  <2>1. tunnels[p] \in SUBSET Call
    BY <1>0, ProcessesAssumption DEF TypeOK
  <2> QED BY <1>0, <1>3, <2>1, ReapHolds DEF Shutdown, Goto, TypeOK
<1>4. CASE Exit(p)
  <2>1. tunnels[p] \in SUBSET Call
    BY <1>0, ProcessesAssumption DEF TypeOK
  <2> QED BY <1>0, <1>4, <2>1, ReapHolds DEF Exit, Dropped, Goto, TypeOK
<1>5. CASE Kill(p)
  BY <1>0, <1>5, ReapHolds DEF Kill, Goto, TypeOK
<1>6. ASSUME NEW c \in Call, StopTunnel(p, c) PROVE IInv'
  <2>1. {c} \in SUBSET Call
    OBVIOUS
  <2> QED BY <1>0, <1>6, <2>1, ReapHolds DEF StopTunnel, TypeOK
<1> QED BY <1>1, <1>2, <1>3, <1>4, <1>5, <1>6

LEMMA StutterHolds == IInv /\ UNCHANGED vars => IInv'
  BY DEF IInv, TypeOK, Kept, Awaited, ActedHere, Emptied, Alive, vars, called

(* The inductive invariant holds in every state. *)
THEOREM Invariance == Spec => []IInv
<1>1. Init => IInv
  BY InitHolds
<1>2. IInv /\ [Next]_vars => IInv'
  <2> SUFFICES ASSUME IInv, [Next]_vars PROVE IInv'
    OBVIOUS
  <2> QED BY ToolHolds, StartHolds, ProcessHolds, StutterHolds DEF Next
<1> QED BY <1>1, <1>2, PTL DEF Spec

(* No cloudflared outlives a process that was not killed, whatever the interleaving of *)
(* starts, stops, signals and the exit (tunnel.rs, connection::run).                   *)
THEOREM NoneLingerHolds == Spec => []NoneLinger
<1>1. IInv => NoneLinger
  <2> SUFFICES ASSUME IInv, NEW p \in Proc, phase[p] = "over", NEW c \in Call, home[c] = p,
                      Alive(c)
               PROVE  FALSE
    BY DEF NoneLinger, Here
  <2> QED BY DEF IInv, Kept, Awaited, Emptied
<1> QED BY <1>1, Invariance, PTL

(* Whatever the tools of a process have started is known to it while it is up. *)
THEOREM KnownHereHolds == Spec => []KnownHere
<1>1. IInv => KnownHere
  BY DEF IInv, TypeOK, KnownHere, Kept, ActedHere, Alive
<1> QED BY <1>1, Invariance, PTL

-----------------------------------------------------------------------------
(***************************************************************************)
(* Punch, for any number of channels                                         *)
(***************************************************************************)

(* What the arguments below need of the types. *)
PunchTyped ==
  /\ made \in 0..MaxChannels
  /\ dialer \in [Channel -> End]
  /\ entry \in [End -> 0..MaxChannels]
  /\ signal \subseteq {"offer", "answer"} \X Channel
  /\ tasks \subseteq Task
  /\ loops \in [Object -> Nat]
  /\ dialing \in [End -> Nat]
  /\ \A e \in End : dialing[e] > 0 => e \in Dialer
  /\ \A s \in signal : s[2] \in 1..made
  /\ \A c \in 1..made : entry[dialer[c]] # 0

(* Whoever keeps its channel offers one; as long as nobody else does, that is the only one. *)
OneOffer ==
  ~ Crossed =>
    /\ made <= 1
    /\ made = 0 => signal = {} /\ tasks = {} /\ \A o \in Object : loops[o] = 0
    /\ made = 1 => entry[dialer[1]] = 1
    /\ \A s \in signal : s[2] = 1

(* What is still to come for the only channel: an object starts to punch once, and reads once
   that is over. *)
Started(e) == \E t \in tasks : t.at = <<1, e>>
OncePunched ==
  ~ Crossed /\ made = 1 =>
    LET d == dialer[1]
        o == Other(d)
    IN
    /\ ~ (<<"offer", 1>> \in signal /\ <<"answer", 1>> \in signal)
    /\ <<"offer", 1>> \in signal => ~ Started(o) /\ loops[<<1, o>>] = 0
    /\ <<"offer", 1>> \in signal \/ <<"answer", 1>> \in signal =>
         ~ Started(d) /\ loops[<<1, d>>] = 0
    /\ \A t \in tasks : t.at \in {<<1, d>>, <<1, o>>}
    /\ \A t, u \in tasks : t.at = u.at => t = u

PunchAlone == PunchTyped /\ OneOffer /\ OncePunched /\ ReadersApart

(* What is dialed stays dialed. *)
LEMMA CrossedStays ==
  ASSUME PunchTyped, UNCHANGED <<made, dialer>> PROVE Crossed' <=> Crossed
BY DEF Crossed

(* One task goes on, or ends and may leave a loop behind. *)
LEMMA TaskMoves ==
  ASSUME PunchAlone, NEW t \in tasks,
         \A u \in tasks' : u \in Task /\ (u \in tasks \/ u.at = t.at),
         ~ Crossed => \A u, v \in tasks' :
           u.at = t.at /\ v.at = t.at /\ u \notin tasks => v \notin tasks /\ u = v,
         \/ loops' = loops
         \/ loops' = [loops EXCEPT ![t.at] = @ + 1] /\ tasks' = tasks \ {t},
         UNCHANGED <<made, dialer, dialing, entry, signal>>
  PROVE  PunchAlone'
<1>1. t \in Task /\ t.at \in Object
  BY DEF PunchAlone, PunchTyped, Task
<1>2. PunchTyped'
  <2>1. tasks' \subseteq Task
    OBVIOUS
  <2>2. loops' \in [Object -> Nat]
    BY <1>1 DEF PunchAlone, PunchTyped
  <2> QED BY <2>1, <2>2 DEF PunchAlone, PunchTyped
<1>3. Crossed' <=> Crossed
  BY CrossedStays DEF PunchAlone
<1>4. \A u \in tasks' : \E v \in tasks : v.at = u.at
  OBVIOUS
<1>5. \A o \in Object : loops'[o] = loops[o] \/ o = t.at
  BY DEF PunchAlone, PunchTyped
<1>6. ASSUME ~ Crossed PROVE made = 1
  BY <1>1, <1>6 DEF PunchAlone, OneOffer, PunchTyped
<1>7. OneOffer'
  BY <1>3, <1>4, <1>6 DEF PunchAlone, OneOffer
<1>8. ASSUME ~ Crossed, NEW u \in tasks', NEW v \in tasks', u.at = v.at PROVE u = v
  <2>1. \A x, y \in tasks : x.at = y.at => x = y
    BY <1>6, <1>8 DEF PunchAlone, OncePunched
  <2> QED BY <1>8, <2>1
<1>9. \A e \in End : Started(e)' => Started(e)
  BY <1>4 DEF Started
<1>10. (dialer[1] \in End /\ Other(dialer[1]) \in End) \/ Crossed
  BY <1>6 DEF PunchAlone, PunchTyped, Channel, End, Other
<1>11. \A e \in End : ~ Started(e) /\ made = 1 => loops'[<<1, e>>] = loops[<<1, e>>]
  <2> SUFFICES ASSUME NEW e \in End, ~ Started(e), made = 1 PROVE loops'[<<1, e>>] = loops[<<1, e>>]
    OBVIOUS
  <2>1. <<1, e>> \in Object /\ t.at # <<1, e>>
    BY DEF Started, Object, Channel, PunchAlone, PunchTyped
  <2> QED BY <1>5, <2>1
<1>12. OncePunched'
  <2> SUFFICES ASSUME ~ Crossed, made = 1 PROVE OncePunched'
    BY <1>3 DEF OncePunched
  <2> DEFINE d == dialer[1]
             o == Other(d)
  <2>1. /\ ~ (<<"offer", 1>> \in signal /\ <<"answer", 1>> \in signal)
        /\ <<"offer", 1>> \in signal => ~ Started(o) /\ loops[<<1, o>>] = 0
        /\ <<"offer", 1>> \in signal \/ <<"answer", 1>> \in signal =>
             ~ Started(d) /\ loops[<<1, d>>] = 0
        /\ \A u \in tasks : u.at \in {<<1, d>>, <<1, o>>}
    BY DEF PunchAlone, OncePunched
  <2>2. /\ <<"offer", 1>> \in signal => ~ Started(o)' /\ loops'[<<1, o>>] = 0
        /\ <<"offer", 1>> \in signal \/ <<"answer", 1>> \in signal =>
             ~ Started(d)' /\ loops'[<<1, d>>] = 0
    BY <1>9, <1>10, <1>11, <2>1
  <2>3. \A u \in tasks' : u.at \in {<<1, d>>, <<1, o>>}
    BY <1>4, <2>1
  <2> QED BY <1>8, <2>1, <2>2, <2>3 DEF OncePunched
<1>13. ReadersApart'
  <2> SUFFICES ASSUME ~ Crossed, NEW u \in tasks' PROVE loops'[u.at] = 0
    BY <1>3 DEF ReadersApart
  <2>1. PICK v \in tasks : v.at = u.at
    BY <1>4
  <2>2. v \in Task /\ v.at \in Object /\ loops[v.at] = 0
    BY <2>1 DEF PunchAlone, ReadersApart, PunchTyped, Task
  <2>3. CASE loops' = loops
    BY <2>1, <2>2, <2>3
  <2>4. CASE loops' # loops
    <3>1. u \in tasks /\ u # t
      BY <2>4
    <3>2. u.at # t.at
      BY <1>6, <3>1 DEF PunchAlone, OncePunched
    <3> QED BY <1>5, <2>1, <2>2, <3>2
  <2> QED BY <2>3, <2>4
<1> QED BY <1>2, <1>7, <1>12, <1>13 DEF PunchAlone

LEMMA TaskStepAlone ==
  ASSUME PunchAlone, NEW t \in tasks, TaskStep(t) PROVE PunchAlone'
<1>1. t \in Task
  BY DEF PunchAlone, PunchTyped
<1>2. ASSUME NEW p \in {"punched", "quic"}, Move(t, p), UNCHANGED <<lists, loops>>
      PROVE  PunchAlone'
  <2> DEFINE m == [t EXCEPT !.pc = p]
  <2>1. m \in Task /\ m.at = t.at
    BY <1>1 DEF Task
  <2>2. tasks' = (tasks \ {t}) \cup {m} /\ UNCHANGED <<made, dialer, dialing, entry, signal, loops>>
    BY <1>2 DEF Move, lists
  <2> HIDE DEF m
  <2>3. \A u \in tasks' : u \in Task /\ (u \in tasks \/ u.at = t.at)
    BY <2>1, <2>2 DEF PunchAlone, PunchTyped
  <2>4. ASSUME ~ Crossed, NEW u \in tasks', NEW v \in tasks', u.at = t.at, v.at = t.at, u \notin tasks
        PROVE  v \notin tasks /\ u = v
    <3>1. made = 1
      BY <2>4 DEF PunchAlone, OneOffer, PunchTyped
    <3>2. \A x, y \in tasks : x.at = y.at => x = y
      BY <2>4, <3>1 DEF PunchAlone, OncePunched
    <3> QED BY <2>2, <2>4, <3>2
  <2> QED BY <2>2, <2>3, <2>4, TaskMoves
<1>3. ASSUME tasks' = tasks \ {t}, UNCHANGED lists,
             loops' = loops \/ loops' = [loops EXCEPT ![t.at] = @ + 1]
      PROVE  PunchAlone'
  <2>1. UNCHANGED <<made, dialer, dialing, entry, signal>> /\ tasks' \subseteq tasks
    BY <1>3 DEF lists
  <2>2. \A u \in tasks' : u \in Task /\ (u \in tasks \/ u.at = t.at)
    BY <2>1 DEF PunchAlone, PunchTyped
  <2> QED BY <1>3, <2>1, <2>2, TaskMoves
<1>4. ASSUME NEW p \in Object, Hear(t, p) PROVE PunchAlone'
  BY <1>2, <1>4 DEF Hear, quic
<1>5. ASSUME NEW p \in Object, AckKnown(t, p) PROVE PunchAlone'
  <2>1. UNCHANGED <<made, dialer, dialing, entry, signal, tasks, loops>>
    BY <1>5 DEF AckKnown, lists, quic
  <2> QED BY <2>1 DEF PunchAlone, PunchTyped, OneOffer, OncePunched, ReadersApart, Crossed, Started
<1>6. CASE PunchFails(t)
  BY <1>3, <1>6 DEF PunchFails, quic
<1>7. CASE StartQuic(t)
  BY <1>2, <1>7 DEF StartQuic
<1>8. CASE Connect(t)
  BY <1>3, <1>8 DEF Connect
<1>9. CASE QuicFails(t)
  BY <1>3, <1>9 DEF QuicFails
<1>10. ASSUME NEW p \in Object, Accept(t, p) PROVE PunchAlone'
  BY <1>3, <1>10 DEF Accept
<1> QED BY <1>4, <1>5, <1>6, <1>7, <1>8, <1>9, <1>10 DEF TaskStep

LEMMA StartAlone ==
  ASSUME PunchAlone, NEW o \in Object, NEW role \in Role, NEW to \in Object, Start(o, role, to)
  PROVE  /\ tasks' \subseteq Task
         /\ \A u \in tasks' : u \in tasks \/ u.at = o
         /\ \A u, v \in tasks' : u \notin tasks /\ v \notin tasks => u = v
<1> DEFINE n == [at |-> o, role |-> role, to |-> to, pc |-> "punch"]
<1>1. n \in Task /\ n.at = o /\ tasks' = tasks \cup {n}
  BY DEF Start, Task
<1> HIDE DEF n
<1> QED BY <1>1 DEF PunchAlone, PunchTyped

LEMMA OfferAlone ==
  ASSUME PunchAlone, Dialer \subseteq Idempotent, NEW e \in End, Offer(e) PROVE PunchAlone'
<1>1. dialing[e] > 0 /\ dialing' = [dialing EXCEPT ![e] = @ - 1] /\ UNCHANGED <<tasks, loops>>
  BY DEF Offer, quic
<1>2. dialing' \in [End -> Nat] /\ \A f \in End : dialing'[f] > 0 => f \in Dialer
  BY <1>1 DEF PunchAlone, PunchTyped
<1>3. e \in Idempotent
  BY <1>1 DEF PunchAlone, PunchTyped
<1>4. CASE UNCHANGED <<made, dialer, entry, signal>>
  BY <1>1, <1>2, <1>4 DEF PunchAlone, PunchTyped, OneOffer, OncePunched, ReadersApart, Crossed,
                          Started
<1>5. CASE ~ UNCHANGED <<made, dialer, entry, signal>>
  <2>1. /\ ~ Keeps(e) /\ made # MaxChannels /\ made' = made + 1
        /\ dialer' = [dialer EXCEPT ![made + 1] = e]
        /\ entry' = [entry EXCEPT ![e] = made + 1]
        /\ signal' = signal \cup {<<"offer", made + 1>>}
    BY <1>5 DEF Offer
  <2>2. made \in Nat /\ made + 1 \in Channel /\ made + 1 \in 0..MaxChannels
    BY <2>1, PunchAssumption DEF PunchAlone, PunchTyped, Channel
  <2>3. /\ dialer' \in [Channel -> End] /\ dialer'[made + 1] = e
        /\ \A c \in 1..made : dialer'[c] = dialer[c]
    BY <2>1, <2>2 DEF PunchAlone, PunchTyped, Channel
  <2>12. \A s \in signal' : s[2] \in 1..made'
    BY <2>1, <2>2 DEF PunchAlone, PunchTyped
  <2>13. \A c \in 1..made' : entry'[dialer'[c]] # 0
    <3> SUFFICES ASSUME NEW c \in 1..made' PROVE entry'[dialer'[c]] # 0
      OBVIOUS
    <3>1. /\ c \in Channel /\ dialer'[c] \in End
          /\ c = made + 1 \/ (c \in 1..made /\ dialer'[c] = dialer[c])
      <4>1. c \in 1..(made + 1) /\ made + 1 <= MaxChannels
        BY <2>1, <2>2 DEF Channel
      <4>2. c \in Channel
        BY <2>2, <4>1, PunchAssumption DEF Channel
      <4>3. c = made + 1 \/ c \in 1..made
        BY <2>2, <4>1
      <4> QED BY <2>3, <4>2, <4>3
    <3>2. \A f \in End : entry'[f] = IF f = e THEN made + 1 ELSE entry[f]
      BY <2>1 DEF PunchAlone, PunchTyped
    <3>3. c \in 1..made => entry[dialer[c]] # 0
      BY DEF PunchAlone, PunchTyped
    <3> QED BY <2>2, <2>3, <3>1, <3>2, <3>3
  <2>4. <<"offer", made + 1>> \in {"offer", "answer"} \X Channel
    BY <2>2
  <2>5. signal' \subseteq {"offer", "answer"} \X Channel
    BY <2>1, <2>4 DEF PunchAlone, PunchTyped
  <2>6. PunchTyped'
    BY <1>1, <1>2, <2>1, <2>2, <2>3, <2>5, <2>12, <2>13 DEF PunchAlone, PunchTyped
  <2>7. ~ Crossed' => ~ Crossed
    BY <2>1, <2>2, <2>3 DEF Crossed
  <2>8. ASSUME ~ Crossed' PROVE made = 0
    <3>1. made = 1 => dialer[1] = e
      BY <2>1, <2>2, <2>3, <2>8 DEF Crossed
    <3>2. made <= 1 /\ (made = 1 => entry[dialer[1]] = 1)
      BY <2>7, <2>8 DEF PunchAlone, OneOffer
    <3> QED BY <1>3, <2>1, <2>2, <3>1, <3>2 DEF Keeps
  <2>9. ASSUME ~ Crossed'
        PROVE  /\ made' = 1 /\ signal' = {<<"offer", 1>>} /\ tasks' = {}
               /\ entry'[dialer'[1]] = 1 /\ dialer'[1] = e
               /\ \A o \in Object : loops'[o] = 0
    <3>1. signal = {} /\ tasks = {} /\ made = 0 /\ \A o \in Object : loops[o] = 0
      BY <2>7, <2>8, <2>9 DEF PunchAlone, OneOffer
    <3>2. entry'[e] = made + 1
      BY <2>1 DEF PunchAlone, PunchTyped
    <3> QED BY <1>1, <2>1, <2>3, <3>1, <3>2
  <2>10. OneOffer' /\ ReadersApart'
    BY <2>9 DEF OneOffer, ReadersApart
  <2>11. OncePunched'
    <3> SUFFICES ASSUME ~ Crossed' PROVE OncePunched'
      BY DEF OncePunched
    <3>1. made + 1 = 1 /\ 1 \in Channel /\ Other(e) \in End
      BY <2>1, <2>2, <2>9 DEF Other, End
    <3>2. <<1, e>> \in Object /\ <<1, Other(e)>> \in Object
      BY <3>1 DEF Object
    <3> QED BY <2>9, <3>2 DEF OncePunched, Started
  <2> QED BY <2>6, <2>10, <2>11 DEF PunchAlone
<1> QED BY <1>4, <1>5

(* A channel waits for its offer or for its answer, and the first of the two tasks to come is
   the one of the end that gets it. *)
LEMMA HandleOfferAlone ==
  ASSUME PunchAlone, NEW c \in Channel, HandleOffer(c) PROVE PunchAlone'
<1> DEFINE e == Other(dialer[c])
<1>1. e \in End /\ dialer[c] \in End /\ <<c, e>> \in Object /\ <<c, dialer[c]>> \in Object
  BY DEF PunchAlone, PunchTyped, Other, End, Object
<1>2. /\ <<"offer", c>> \in signal
      /\ signal' = (signal \ {<<"offer", c>>}) \cup {<<"answer", c>>}
      /\ entry' = [entry EXCEPT ![e] = c]
      /\ UNCHANGED <<made, dialer, dialing, loops>>
  BY DEF HandleOffer, quic
<1>3. c \in 1..made /\ made \in Nat
  BY <1>2, PunchAssumption DEF PunchAlone, PunchTyped
<1>4. Start(<<c, e>>, "server", <<c, dialer[c]>>)
  BY DEF HandleOffer
<1>5. /\ tasks' \subseteq Task
      /\ \A u \in tasks' : u \in tasks \/ u.at = <<c, e>>
      /\ \A u, v \in tasks' : u \notin tasks /\ v \notin tasks => u = v
  BY <1>1, <1>4, StartAlone DEF Role
<1>6. PunchTyped'
  <2>1. c \in 0..MaxChannels /\ c # 0
    BY PunchAssumption DEF Channel
  <2>2. entry' \in [End -> 0..MaxChannels] /\ \A d \in 1..made : entry'[dialer[d]] # 0
    <3>1. entry \in [End -> 0..MaxChannels] /\ \A d \in 1..made : entry[dialer[d]] # 0
      BY DEF PunchAlone, PunchTyped
    <3>2. \A f \in End : entry'[f] = IF f = e THEN c ELSE entry[f]
      BY <1>2, <3>1
    <3>3. \A d \in 1..made : dialer[d] \in End
      BY PunchAssumption DEF PunchAlone, PunchTyped, Channel
    <3> QED BY <1>2, <2>1, <3>1, <3>2, <3>3
  <2>3. signal' \subseteq {"offer", "answer"} \X Channel /\ \A s \in signal' : s[2] \in 1..made
    BY <1>2, <1>3 DEF PunchAlone, PunchTyped
  <2> HIDE DEF e
  <2> QED BY <1>2, <1>5, <2>2, <2>3 DEF PunchAlone, PunchTyped
<1>7. Crossed' <=> Crossed
  BY <1>2, CrossedStays DEF PunchAlone
<1>8. ASSUME ~ Crossed PROVE made = 1 /\ c = 1
  BY <1>2, <1>3, <1>8 DEF PunchAlone, OneOffer
<1>9. OneOffer'
  <2> SUFFICES ASSUME ~ Crossed PROVE OneOffer'
    BY <1>7 DEF OneOffer
  <2>1. entry[dialer[1]] = 1 /\ \A s \in signal : s[2] = 1
    BY <1>8 DEF PunchAlone, OneOffer
  <2>2. entry'[dialer[1]] = 1
    BY <1>1, <1>2, <1>8, <2>1 DEF PunchAlone, PunchTyped
  <2> QED BY <1>2, <1>8, <2>1, <2>2 DEF OneOffer
<1>10. ASSUME ~ Crossed
       PROVE  /\ ~ Started(e) /\ loops[<<1, e>>] = 0
              /\ ~ Started(dialer[1]) /\ loops[<<1, dialer[1]>>] = 0
              /\ <<"answer", 1>> \notin signal
              /\ \A t \in tasks : t.at \in {<<1, dialer[1]>>, <<1, e>>}
              /\ \A t, u \in tasks : t.at = u.at => t = u
  BY <1>2, <1>8, <1>10 DEF PunchAlone, OncePunched
<1>11. OncePunched'
  <2> SUFFICES ASSUME ~ Crossed PROVE OncePunched'
    BY <1>7 DEF OncePunched
  <2>1. dialer[1] # e
    BY <1>8 DEF Other
  <2>2. \A t, u \in tasks' : t.at = u.at => t = u
    BY <1>5, <1>8, <1>10 DEF Started
  <2>3. \A t \in tasks' : t.at \in {<<1, dialer[1]>>, <<1, e>>}
    BY <1>5, <1>8, <1>10
  <2>4. <<"offer", 1>> \notin signal'
    BY <1>2, <1>8
  <2>5. \A t \in tasks' : t.at # <<1, dialer[1]>>
    BY <1>5, <1>8, <1>10, <2>1 DEF Started
  <2> QED BY <1>2, <1>8, <1>10, <2>2, <2>3, <2>4, <2>5 DEF OncePunched, Started
<1>12. ReadersApart'
  <2> SUFFICES ASSUME ~ Crossed, NEW t \in tasks' PROVE loops[t.at] = 0
    BY <1>2, <1>7 DEF ReadersApart
  <2> QED BY <1>5, <1>8, <1>10 DEF PunchAlone, ReadersApart
<1> QED BY <1>6, <1>9, <1>11, <1>12 DEF PunchAlone

LEMMA HandleAnswerAlone ==
  ASSUME PunchAlone, NEW c \in Channel, HandleAnswer(c) PROVE PunchAlone'
<1> DEFINE e == dialer[c]
           o == <<entry[e], e>>
<1>1. /\ <<"answer", c>> \in signal
      /\ signal' = signal \ {<<"answer", c>>}
      /\ UNCHANGED <<made, dialer, dialing, entry, loops>>
  BY DEF HandleAnswer, quic
<1>2. e \in End /\ c \in 1..made /\ made \in Nat /\ Other(e) \in End
  BY <1>1, PunchAssumption DEF PunchAlone, PunchTyped, Other, End
<1>3. o \in Object /\ <<c, Other(e)>> \in Object
  <2>1. entry[e] \in 0..MaxChannels /\ entry[e] # 0
    BY <1>2 DEF PunchAlone, PunchTyped
  <2> QED BY <1>2, <2>1, PunchAssumption DEF Object, Channel
<1>4. Start(o, "client", <<c, Other(e)>>)
  BY DEF HandleAnswer
<1>5. /\ tasks' \subseteq Task
      /\ \A u \in tasks' : u \in tasks \/ u.at = o
      /\ \A u, v \in tasks' : u \notin tasks /\ v \notin tasks => u = v
  BY <1>3, <1>4, StartAlone DEF Role
<1>6. PunchTyped'
  BY <1>1, <1>5 DEF PunchAlone, PunchTyped
<1>7. Crossed' <=> Crossed
  BY <1>1, CrossedStays DEF PunchAlone
<1>8. ASSUME ~ Crossed PROVE made = 1 /\ c = 1 /\ o = <<1, e>>
  BY <1>1, <1>2, <1>8 DEF PunchAlone, OneOffer
<1>9. OneOffer'
  BY <1>1, <1>7, <1>8 DEF PunchAlone, OneOffer
<1>10. ASSUME ~ Crossed
       PROVE  /\ ~ Started(e) /\ loops[<<1, e>>] = 0
              /\ <<"offer", 1>> \notin signal
              /\ \A t \in tasks : t.at \in {<<1, e>>, <<1, Other(e)>>}
              /\ \A t, u \in tasks : t.at = u.at => t = u
  BY <1>1, <1>8, <1>10 DEF PunchAlone, OncePunched
<1>11. OncePunched'
  <2> SUFFICES ASSUME ~ Crossed PROVE OncePunched'
    BY <1>7 DEF OncePunched
  <2>1. \A t, u \in tasks' : t.at = u.at => t = u
    BY <1>5, <1>8, <1>10 DEF Started
  <2>2. \A t \in tasks' : t.at \in {<<1, e>>, <<1, Other(e)>>}
    BY <1>5, <1>8, <1>10
  <2>3. <<"offer", 1>> \notin signal' /\ <<"answer", 1>> \notin signal'
    BY <1>1, <1>8, <1>10
  <2> QED BY <1>1, <1>8, <2>1, <2>2, <2>3 DEF OncePunched
<1>12. ReadersApart'
  <2> SUFFICES ASSUME ~ Crossed, NEW t \in tasks' PROVE loops[t.at] = 0
    BY <1>1, <1>7 DEF ReadersApart
  <2> QED BY <1>5, <1>8, <1>10 DEF PunchAlone, ReadersApart
<1> QED BY <1>6, <1>9, <1>11, <1>12 DEF PunchAlone

LEMMA PunchAloneInductive ==
  ASSUME Dialer \subseteq Idempotent
  PROVE  /\ PunchInit => PunchAlone
         /\ PunchAlone /\ [PunchNext]_punchVars => PunchAlone'
<1>1. PunchInit => PunchAlone
  <2> SUFFICES ASSUME PunchInit PROVE PunchAlone
    OBVIOUS
  <2>1. /\ made = 0 /\ signal = {} /\ tasks = {} /\ dialer = [c \in Channel |-> "a"]
        /\ entry = [e \in End |-> 0] /\ dialing = [e \in End |-> 0]
        /\ loops = [o \in Object |-> 0]
    BY DEF PunchInit
  <2>2. PunchTyped
    BY <2>1, PunchAssumption DEF PunchTyped, End
  <2>3. OneOffer /\ OncePunched /\ ReadersApart
    BY <2>1 DEF OneOffer, OncePunched, ReadersApart
  <2> QED BY <2>2, <2>3 DEF PunchAlone
<1>2. ASSUME PunchAlone, [PunchNext]_punchVars PROVE PunchAlone'
  <2>1. ASSUME UNCHANGED <<made, dialer, entry, tasks, loops>>, signal' \subseteq signal,
               dialing' \in [End -> Nat], \A e \in End : dialing'[e] > 0 => e \in Dialer
        PROVE  PunchAlone'
    <3>1. Crossed' <=> Crossed
      BY <2>1, CrossedStays, <1>2 DEF PunchAlone
    <3>2. PunchTyped' /\ OneOffer' /\ ReadersApart'
      BY <1>2, <2>1, <3>1 DEF PunchAlone, PunchTyped, OneOffer, ReadersApart
    <3>3. OncePunched'
      BY <1>2, <2>1, <3>1 DEF PunchAlone, OncePunched, Started
    <3> QED BY <3>2, <3>3 DEF PunchAlone
  <2>2. dialing \in [End -> Nat] /\ \A e \in End : dialing[e] > 0 => e \in Dialer
    BY <1>2 DEF PunchAlone, PunchTyped
  <2>3. ASSUME NEW e \in End, Dial(e) PROVE PunchAlone'
    <3>1. e \in Dialer /\ dialing' = [dialing EXCEPT ![e] = @ + 1]
          /\ UNCHANGED <<made, dialer, entry, tasks, loops, signal>>
      BY <2>3 DEF Dial, quic
    <3> QED BY <2>1, <2>2, <3>1
  <2>4. ASSUME NEW e \in End, Offer(e) PROVE PunchAlone'
    BY <1>2, <2>4, OfferAlone
  <2>5. CASE Signal
    BY <1>2, <2>5, HandleOfferAlone, HandleAnswerAlone DEF Signal
  <2>6. CASE LoseSignal
    <3>1. UNCHANGED <<made, dialer, entry, tasks, loops, dialing>> /\ signal' \subseteq signal
      BY <2>6 DEF LoseSignal, quic
    <3> QED BY <2>1, <2>2, <3>1
  <2>7. ASSUME NEW t \in tasks, TaskStep(t) PROVE PunchAlone'
    BY <1>2, <2>7, TaskStepAlone
  <2>8. ASSUME NEW o \in Object, LinkEnds(o) PROVE PunchAlone'
    <3>1. UNCHANGED <<made, dialer, entry, tasks, loops, dialing, signal>>
      BY <2>8 DEF LinkEnds, quic, lists
    <3> QED BY <2>1, <2>2, <3>1
  <2>9. CASE UNCHANGED punchVars
    <3>1. UNCHANGED <<made, dialer, entry, tasks, loops, dialing, signal>>
      BY <2>9 DEF punchVars
    <3> QED BY <2>1, <2>2, <3>1
  <2> QED BY <1>2, <2>3, <2>4, <2>5, <2>6, <2>7, <2>8, <2>9 DEF PunchNext
<1> QED BY <1>1, <1>2

(* Controllers, which look again before they put a channel into their map, may dial as often *)
(* and as many at a time as they like: while only one end dials, no receive loop takes a     *)
(* packet a task still punches for.                                                          *)
THEOREM ReadersApartHolds ==
  ASSUME Dialer \subseteq Idempotent PROVE PunchSpec => []ReadersApart
<1>1. PunchInit => PunchAlone
  BY PunchAloneInductive
<1>2. PunchAlone /\ [PunchNext]_punchVars => PunchAlone'
  BY PunchAloneInductive
<1>3. PunchAlone => ReadersApart
  BY DEF PunchAlone
<1> QED BY <1>1, <1>2, <1>3, PTL DEF PunchSpec
=============================================================================
