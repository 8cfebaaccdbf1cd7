-------------------------------- MODULE Punch --------------------------------
(***************************************************************************)
(* How two ends get a direct channel (UdpTransport in                       *)
(* crates/mcp-server/src/relay_udp.rs and udp_transport.rs; punch_hole,     *)
(* start_quic and is_ready in crates/shared/src/udp_channel.rs): an offer   *)
(* and an answer through the relay, a hole punched from both ends, and QUIC *)
(* over it or the loops of UdpChannel.                                      *)
(*                                                                         *)
(* A channel id has up to two UdpChannel objects, one at each end.  The     *)
(* nonce and the addresses of an object stand for the object: they name the *)
(* one they belong to.  Any packet may be lost; a probe arrives as long as  *)
(* the object it was sent to reads.                                         *)
(*                                                                         *)
(* A controller looks at its map again when it has the lock; an agent's     *)
(* offer_channel (udp_transport.rs) does not, and belongs to no Idempotent. *)
(* close_channel and close_all have no callers outside the tests: an entry  *)
(* is only ever replaced.                                                   *)
(***************************************************************************)
EXTENDS Naturals, FiniteSets

CONSTANTS
  Dialer,      \* the ends that dial: "a", "b" or both
  Idempotent,  \* those that keep the channel they have: controllers
  MaxChannels  \* bound of the channels offered

ASSUME PunchAssumption ==
  Dialer \subseteq {"a", "b"} /\ Idempotent \subseteq Dialer /\ MaxChannels \in Nat

VARIABLES
  made,      \* channels offered so far
  dialer,    \* who offered each
  dialing,   \* offer_channel calls between their check and their insert
  entry,     \* UdpTransport.channels of each end: its channel with the other
  signal,    \* offers and answers on their way
  aim,       \* remote_nonce and peer_candidates of an object
  peer,      \* peer_endpoint: confirmed by the punch
  state,     \* ChannelState
  tasks,     \* the tasks of spawn_punch_then_loops
  probed,    \* probes and their acks: from, to
  active,    \* the objects with quic_active
  linked,    \* quic_send and quic_conn: the object at the other end of the connection
  loops      \* the recv_loops of an object

punchVars == <<made, dialer, dialing, entry, signal, aim, peer, state, tasks, probed,
          active, linked, loops>>
lists == <<made, dialer, dialing, entry, signal>>
quic  == <<active, linked, loops>>

End     == {"a", "b"}
Other(e) == IF e = "a" THEN "b" ELSE "a"
Channel == 1..MaxChannels
Object  == Channel \X End
Nobody  == <<0, "a">>
Role    == {"server", "client"}
Task    == [at: Object, role: Role, to: Object, pc: {"punch", "punched", "quic"}]

PunchTypeOK ==
  /\ made \in 0..MaxChannels
  /\ dialer \in [Channel -> End]
  /\ dialing \in [End -> 0..2]
  /\ entry \in [End -> 0..MaxChannels]
  /\ signal \subseteq {"offer", "answer"} \X Channel
  /\ aim \in [Object -> Object \cup {Nobody}] /\ peer \in [Object -> Object \cup {Nobody}]
  /\ state \in [Object -> {"new", "probing", "connected", "fallback", "disconnected"}]
  /\ tasks \subseteq Task
  /\ probed \subseteq Object \X Object
  /\ active \subseteq Object
  /\ linked \in [Object -> Object \cup {Nobody}]
  /\ loops \in [Object -> 0..2 * MaxChannels]

PunchInit ==
  /\ made = 0 /\ dialer = [c \in Channel |-> "a"]
  /\ dialing = [e \in End |-> 0] /\ entry = [e \in End |-> 0] /\ signal = {}
  /\ aim = [o \in Object |-> Nobody] /\ peer = [o \in Object |-> Nobody]
  /\ state = [o \in Object |-> "new"]
  /\ tasks = {} /\ probed = {} /\ active = {}
  /\ linked = [o \in Object |-> Nobody] /\ loops = [o \in Object |-> 0]

(* is_ready of an object, and has_udp_channel of an end. *)
Ready(o) == state[o] = "connected" /\ (o \in active => linked[o] # Nobody)
HasUdp(e) == entry[e] # 0 /\ Ready(<<entry[e], e>>)

-----------------------------------------------------------------------------
(* Signaling *)

(* spawn_udp_dial looks for a channel of any state; a host that sends a file looks for *)
(* one that is ready.                                                                  *)
Dial(e) ==
  /\ e \in Dialer /\ dialing[e] < 2 /\ made < MaxChannels
  /\ IF e \in Idempotent THEN entry[e] = 0 ELSE ~ HasUdp(e)
  /\ dialing' = [dialing EXCEPT ![e] = @ + 1]
  /\ UNCHANGED <<made, dialer, entry, signal, aim, peer, state, tasks, probed, quic>>

(* Mutant: the second look at the map is missing. *)
KeepsNone(e) == FALSE

(* A controller looks again when it has the lock, and drops its own channel. *)
Keeps(e) == e \in Idempotent /\ entry[e] # 0

(* offer_channel after STUN: the channel is put into the map and offered. *)
Offer(e) ==
  /\ dialing[e] > 0 /\ dialing' = [dialing EXCEPT ![e] = @ - 1]
  /\ IF Keeps(e) \/ made = MaxChannels THEN UNCHANGED <<made, dialer, entry, signal>>
     ELSE /\ made' = made + 1
          /\ dialer' = [dialer EXCEPT ![made + 1] = e]
          /\ entry' = [entry EXCEPT ![e] = made + 1]
          /\ signal' = signal \cup {<<"offer", made + 1>>}
  /\ UNCHANGED <<aim, peer, state, tasks, probed, quic>>

(* spawn_punch_then_loops: punch_hole copies the candidates. *)
Start(o, role, to) ==
  /\ aim' = [aim EXCEPT ![o] = to]
  /\ tasks' = tasks \cup {[at |-> o, role |-> role, to |-> to, pc |-> "punch"]}
  /\ state' = [state EXCEPT ![o] = "probing"]
  /\ probed' = probed \cup {<<o, to>>}

(* handle_offer: a channel object of the offered id takes the place of what the map has.
   Nothing shows before its STUN answers, which counts as the offer's time on its way. *)
HandleOffer(c) ==
  LET e == Other(dialer[c]) IN
  /\ <<"offer", c>> \in signal
  /\ signal' = (signal \ {<<"offer", c>>}) \cup {<<"answer", c>>}
  /\ entry' = [entry EXCEPT ![e] = c]
  /\ Start(<<c, e>>, "server", <<c, dialer[c]>>)
  /\ UNCHANGED <<made, dialer, dialing, peer, quic>>

(* handle_answer: for whatever channel the map has with that end. *)
HandleAnswer(c) ==
  LET e == dialer[c] IN
  /\ <<"answer", c>> \in signal
  /\ signal' = signal \ {<<"answer", c>>}
  /\ Start(<<entry[e], e>>, "client", <<c, Other(e)>>)
  /\ UNCHANGED <<made, dialer, dialing, entry, peer, quic>>

(* The relay or a full queue drops it. *)
LoseSignal ==
  /\ \E s \in signal : signal' = signal \ {s}
  /\ UNCHANGED <<made, dialer, dialing, entry, aim, peer, state, tasks, probed, quic>>

-----------------------------------------------------------------------------
(* punch_hole *)

Move(t, pc) == tasks' = (tasks \ {t}) \cup {[t EXCEPT !.pc = pc]}

(* A probe of the expected peer is acked, and is as good as an ack. *)
Hear(t, p) ==
  /\ t.pc = "punch" /\ <<p, t.at>> \in probed /\ aim[t.at] = p
  /\ Move(t, "punched")
  /\ peer' = [peer EXCEPT ![t.at] = p]
  /\ state' = [state EXCEPT ![t.at] = "connected"]
  /\ probed' = probed \cup {<<t.at, p>>}
  /\ UNCHANGED <<lists, aim, quic>>

(* A probe of another known address is acked, no more. *)
AckKnown(t, p) ==
  /\ t.pc = "punch" /\ <<p, t.at>> \in probed /\ t.to = p /\ aim[t.at] # p
  /\ probed' = probed \cup {<<t.at, p>>}
  /\ UNCHANGED <<lists, aim, peer, state, tasks, quic>>

(* Out of time or attempts; an error of the socket leaves the state as it is. *)
PunchFails(t) ==
  /\ t.pc = "punch"
  /\ tasks' = tasks \ {t}
  /\ state' \in {state, [state EXCEPT ![t.at] = "fallback"]}
  /\ UNCHANGED <<lists, aim, peer, probed, quic>>

-----------------------------------------------------------------------------
(* start_quic *)

StartQuic(t) ==
  /\ t.pc = "punched"
  /\ Move(t, "quic")
  /\ active' = active \cup {t.at}
  /\ UNCHANGED <<lists, aim, peer, state, probed, linked, loops>>

Serving(o) == \E t \in tasks : t.at = o /\ t.role = "server" /\ t.pc = "quic"

(* The handshake with a server that is ready for it; the client primes the stream. *)
Connect(t) ==
  /\ t.pc = "quic" /\ t.role = "client" /\ Serving(peer[t.at])
  /\ tasks' = tasks \ {t}
  /\ linked' = [linked EXCEPT ![t.at] = peer[t.at]]
  /\ state' = [state EXCEPT ![t.at] = "connected"]
  /\ UNCHANGED <<lists, aim, peer, probed, active, loops>>

(* The server has the client's first frame. *)
Accept(t, p) ==
  /\ t.pc = "quic" /\ t.role = "server" /\ linked[p] = t.at /\ state[p] = "connected"
  /\ tasks' = tasks \ {t}
  /\ linked' = [linked EXCEPT ![t.at] = p]
  /\ state' = [state EXCEPT ![t.at] = "connected"]
  /\ UNCHANGED <<lists, aim, peer, probed, active, loops>>

(* An error or five seconds: unwind, and the loops start. *)
QuicFails(t) ==
  /\ t.pc = "quic"
  /\ tasks' = tasks \ {t}
  /\ active' = active \ {t.at}
  /\ loops' = [loops EXCEPT ![t.at] = @ + 1]
  /\ UNCHANGED <<lists, aim, peer, state, probed, linked>>

(* Mutant: the reader ends and leaves the state as it is. *)
LinkEndsUnseen(o) ==
  /\ linked[o] # Nobody /\ state[o] = "connected"
  /\ UNCHANGED punchVars

(* The connection has ended: the other end gave it up, or the network did. *)
LinkEnds(o) ==
  /\ linked[o] # Nobody /\ state[o] = "connected"
  /\ state' = [state EXCEPT ![o] = "disconnected"]
  /\ UNCHANGED <<lists, aim, peer, tasks, probed, quic>>

(* Nobody holds the other end of a connection any more. *)
Orphaned(o) ==
  /\ linked[o] # Nobody /\ ~ Serving(linked[o])
  /\ linked[linked[o]] # o \/ state[linked[o]] = "disconnected"

-----------------------------------------------------------------------------
TaskStep(t) ==
  \/ PunchFails(t) \/ StartQuic(t) \/ Connect(t) \/ QuicFails(t)
  \/ \E p \in Object : Hear(t, p) \/ AckKnown(t, p) \/ Accept(t, p)

Signal == \E c \in Channel : HandleOffer(c) \/ HandleAnswer(c)
Orphan == \E o \in Object : Orphaned(o) /\ LinkEnds(o)
Ended  == \E t \in tasks : PunchFails(t) \/ StartQuic(t) \/ QuicFails(t)

PunchNext ==
  \/ \E e \in End : Dial(e) \/ Offer(e)
  \/ Signal \/ LoseSignal
  \/ \E t \in tasks : TaskStep(t)
  \/ \E o \in Object : LinkEnds(o)

(* The tasks run, attempts and handshakes have deadlines, and a connection without its *)
(* other end is closed by it or goes idle.                                             *)
PunchFairness ==
  /\ WF_punchVars(\E e \in End : Offer(e)) /\ WF_punchVars(Signal) /\ WF_punchVars(Ended) /\ WF_punchVars(Orphan)
PunchSpec == PunchInit /\ [][PunchNext]_punchVars /\ PunchFairness

-----------------------------------------------------------------------------
(* Both ends have dialed each other. *)
Crossed == \E c, d \in 1..made : dialer[c] # dialer[d]

(* Every punching task ends before a receive loop takes the socket, however many tasks of *)
(* one end dial at once, if that end looks twice (Idempotent): an agent that sends two    *)
(* files at once may offer twice, and an answer starts a second task on the same object.  *)
(* Not so either when both ends dial each other.                                          *)
ReadersApart == ~ Crossed => \A t \in tasks : loops[t.at] = 0

(* As documented (relay_udp.rs): the loops start when the punch has ended, so that they do *)
(* not take its packets.                                                                  *)
PunchedAlone == \A t \in tasks : loops[t.at] = 0

(* In the end both ends of a channel that is ready at both use the same transport, *)
(* whichever step of either failed; again unless both dialed.                      *)
Mode(e) == IF <<entry[e], e>> \in active THEN "quic" ELSE "loops"
ModesAgree ==
  <>[](HasUdp("a") /\ HasUdp("b") /\ ~ Crossed =>
         entry["a"] = entry["b"] /\ Mode("a") = Mode("b"))

(* A channel that is ready has somebody at the other end. *)
Settled == tasks = {} /\ signal = {} /\ \A e \in End : dialing[e] = 0
NotHalfOpen ==
  Settled => \A e \in End : HasUdp(e) =>
    LET o == <<entry[e], e>> IN
    IF o \in active THEN state[linked[o]] = "connected" ELSE loops[peer[o]] > 0
=============================================================================
