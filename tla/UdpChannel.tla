----------------------------- MODULE UdpChannel -----------------------------
(***************************************************************************)
(* The reliable data path of a direct UDP channel, without QUIC             *)
(* (crates/shared/src/udp_channel.rs: send_reliable, recv_loop,             *)
(* retransmit_loop; crates/shared/src/udp.rs: FragmentReassembler).         *)
(*                                                                         *)
(* One direction of a connected channel: concurrent send_reliable calls, the*)
(* receive and retransmit loops of the sending end, the receive loop of the *)
(* other end, and a network that loses, duplicates and reorders packets: a   *)
(* packet once sent may arrive at any later time, any number of times, or    *)
(* never.                                                                   *)
(* Each locked section is a step.  Time is abstract: the RTO of a packet may*)
(* have elapsed whenever the retransmit loop looks.                         *)
(***************************************************************************)
EXTENDS Naturals, Sequences, FiniteSets, SequencesExt, Absent

CONSTANTS
  Msg,         \* the send_reliable calls, each with one message
  Frags,       \* packets per message: 1 is a Data packet, more are fragments
  MaxPackets,  \* bound of the sequence numbers, which do not wrap here
  MinCwnd, InitCwnd, MaxCwnd,  \* MIN_CWND, INIT_CWND, MAX_CWND
  DupAck,      \* DUPACK_THRESHOLD
  MaxRetx,     \* UdpConfig.max_retransmissions
  MaxPartial,  \* MAX_PARTIAL_MESSAGES
  Faults       \* what may go wrong here: "send_error", "close"

ASSUME MsgType == IsFiniteSet(Msg)
ASSUME FragsType == Frags \in [Msg -> Nat \ {0}]
ASSUME CwndType == /\ {MinCwnd, InitCwnd, MaxCwnd} \subseteq Nat \ {0}
                   /\ MinCwnd <= InitCwnd /\ InitCwnd <= MaxCwnd
ASSUME LimitType == {DupAck, MaxRetx, MaxPackets} \subseteq Nat /\ MaxPartial \in Nat \ {0}
ASSUME NoneFresh == None \notin Nat \cup [msg: Msg, index: Nat]

VARIABLES
  open,       \* state of each end is not Closed
  listening,  \* its recv_loop runs
  call,       \* each send_reliable call: where it is, the packet it is at and
              \* the sequence number it has claimed
  sendSeq,    \* send_seq
  packet,     \* what a sequence number carries: message and index
  pending,    \* pending: the sequence numbers awaiting an acknowledgment
  retries,    \* PendingPacket.retries
  fastRtx,    \* the pending packets whose fast_rtx is set
  cwnd,
  adjust,     \* an ack handled, its window update still to come
  backoff,    \* a retransmit tick had a loss, its window update to come
  data, acks, \* the packets and the acknowledgments sent so far
  closes,     \* the ends a Close packet was sent to
  lru,        \* reassembler: partial messages, least recently touched first
  parts,      \* reassembler: the fragments of each seen so far
  delivered,  \* times a message reached recv_tx, up to 2
  arrived,    \* times a packet reached the receiver, up to 2 (ghost)
  abandoned,  \* packets given up by the retransmit loop (ghost)
  evicted     \* messages the reassembler has evicted (ghost)

sending   == <<call, sendSeq, packet>>
tracking  == <<pending, retries, fastRtx>>
window    == <<cwnd, adjust, backoff>>
network   == <<data, acks, closes>>
receiving == <<lru, parts, delivered, arrived, evicted>>
vars == <<open, listening, sending, tracking, window, network, receiving, abandoned>>

End == {"sender", "receiver"}
SeqNo == 0..MaxPackets
Place == [msg: Msg, index: Nat]

TypeOK ==
  /\ open \in [End -> BOOLEAN]
  /\ listening \in [End -> BOOLEAN]
  /\ call \in [Msg -> [pc: {"new", "pace", "claim", "insert", "send", "ok", "failed"},
                       index: Nat, seq: SeqNo \cup {None}]]
  /\ sendSeq \in SeqNo
  /\ packet \in [SeqNo -> Place \cup {None}]
  /\ pending \subseteq SeqNo
  /\ retries \in [SeqNo -> Nat]
  /\ fastRtx \subseteq SeqNo
  /\ cwnd \in MinCwnd..MaxCwnd
  /\ adjust \in {"none", "grow", "shrink"}
  /\ backoff \in BOOLEAN
  /\ data \subseteq SeqNo /\ acks \subseteq SeqNo /\ closes \subseteq End
  /\ lru \in Seq(Msg)
  /\ parts \in [Msg -> SUBSET Nat]
  /\ delivered \in [Msg -> 0..2]
  /\ arrived \in [SeqNo -> 0..2]
  /\ abandoned \subseteq SeqNo
  /\ evicted \subseteq Msg

Init ==
  /\ open = [e \in End |-> TRUE]
  /\ listening = [e \in End |-> TRUE]
  /\ call = [m \in Msg |-> [pc |-> "new", index |-> 0, seq |-> None]]
  /\ sendSeq = 0
  /\ packet = [q \in SeqNo |-> None]
  /\ pending = {} /\ retries = [q \in SeqNo |-> 0] /\ fastRtx = {}
  /\ cwnd = InitCwnd /\ adjust = "none" /\ backoff = FALSE
  /\ data = {} /\ acks = {} /\ closes = {}
  /\ lru = <<>> /\ parts = [m \in Msg |-> {}]
  /\ delivered = [m \in Msg |-> 0] /\ arrived = [q \in SeqNo |-> 0]
  /\ abandoned = {} /\ evicted = {}

Goto(m, from, to) == call[m].pc = from /\ call' = [call EXCEPT ![m].pc = to]

-----------------------------------------------------------------------------
(* send_reliable and send_reliable_packet *)

Begin(m) ==
  /\ Goto(m, "new", IF open["sender"] THEN "pace" ELSE "failed")
  /\ UNCHANGED <<open, listening, sendSeq, packet, tracking, window, network, receiving, abandoned>>

(* Mutant: the window is not consulted. *)
PaceAlways(m) ==
  /\ Goto(m, "pace", "claim")
  /\ UNCHANGED <<open, listening, sendSeq, packet, tracking, window, network, receiving, abandoned>>

(* The pacing loop: go on as soon as the window has room ... *)
Pace(m) ==
  /\ Cardinality(pending) < cwnd
  /\ Goto(m, "pace", "claim")
  /\ UNCHANGED <<open, listening, sendSeq, packet, tracking, window, network, receiving, abandoned>>

(* ... or fail once the channel is closed. *)
PaceClosed(m) ==
  /\ ~ open["sender"]
  /\ Cardinality(pending) >= cwnd
  /\ Goto(m, "pace", "failed")
  /\ UNCHANGED <<open, listening, sendSeq, packet, tracking, window, network, receiving, abandoned>>

(* The next sequence number, ... *)
Claim(m) ==
  /\ call[m].pc = "claim"
  /\ sendSeq < MaxPackets
  /\ call' = [call EXCEPT ![m].pc = "insert", ![m].seq = sendSeq]
  /\ packet' = [packet EXCEPT ![sendSeq] = [msg |-> m, index |-> call[m].index]]
  /\ sendSeq' = sendSeq + 1
  /\ UNCHANGED <<open, listening, tracking, window, network, receiving, abandoned>>

(* ... registered for retransmission, ... *)
Track(m) ==
  /\ Goto(m, "insert", "send")
  /\ pending' = pending \cup {call[m].seq}
  /\ UNCHANGED <<open, listening, sendSeq, packet, retries, fastRtx, window, network, receiving,
                 abandoned>>

(* ... and sent.  A socket error fails the call and leaves the packet pending. *)
Transmit(m) ==
  LET last == call[m].index + 1 = Frags[m] IN
  /\ call[m].pc = "send"
  /\ data' = data \cup {call[m].seq}
  /\ call' = [call EXCEPT ![m] = [pc |-> IF last THEN "ok" ELSE "pace",
                                  index |-> IF last THEN @.index ELSE @.index + 1,
                                  seq |-> None]]
  /\ UNCHANGED <<open, listening, sendSeq, packet, tracking, window, acks, closes, receiving,
                 abandoned>>

TransmitFails(m) ==
  /\ "send_error" \in Faults
  /\ Goto(m, "send", "failed")
  /\ UNCHANGED <<open, listening, sendSeq, packet, tracking, window, network, receiving, abandoned>>

Call(m) == \/ Begin(m) \/ Pace(m) \/ PaceClosed(m) \/ Claim(m) \/ Track(m)
           \/ Transmit(m) \/ TransmitFails(m)

-----------------------------------------------------------------------------
(* recv_loop of the receiver *)

(* One datagram is read; the loop looks at the channel's state before it reads
   the next. *)
ReadBy(e) == listening[e] /\ listening' = [listening EXCEPT ![e] = open[e]]

AtMost2(n) == IF n < 2 THEN n + 1 ELSE 2

Complete(m, i) == parts[m] \cup {i} = 0..(Frags[m] - 1)
Opens(m) == \A k \in DOMAIN lru : lru[k] # m
Evicts(m) == Opens(m) /\ Len(lru) >= MaxPartial
Others(m, L) ==
  IF \A k \in DOMAIN L : L[k] # m THEN L
  ELSE RemoveAt(L, CHOOSE k \in DOMAIN L : L[k] = m)

(* Mutant: a completed message keeps its fragments. *)
ReassembleKeeps(m, i) ==
  LET kept == IF Evicts(m) THEN Tail(lru) ELSE lru
      gone == IF Evicts(m) THEN {Head(lru)} ELSE {}
  IN  /\ lru' = Append(Others(m, kept), m)
      /\ parts' = [x \in Msg |-> IF x \in gone THEN {}
                                 ELSE IF x = m THEN parts[x] \cup {i} ELSE parts[x]]
      /\ evicted' = evicted \cup gone
      /\ delivered' = IF Complete(m, i) THEN [delivered EXCEPT ![m] = AtMost2(@)] ELSE delivered

(* FragmentReassembler::insert: a new message evicts the stalest partial one
   when the map is full; the last missing fragment completes the message. *)
Reassemble(m, i) ==
  LET kept == IF Evicts(m) THEN Tail(lru) ELSE lru
      gone == IF Evicts(m) THEN {Head(lru)} ELSE {}
  IN  /\ lru' = IF Complete(m, i) THEN Others(m, kept) ELSE Append(Others(m, kept), m)
      /\ parts' = [x \in Msg |-> IF x \in gone \/ (x = m /\ Complete(m, i)) THEN {}
                                 ELSE IF x = m THEN parts[x] \cup {i} ELSE parts[x]]
      /\ evicted' = evicted \cup gone
      /\ delivered' = IF Complete(m, i) THEN [delivered EXCEPT ![m] = AtMost2(@)] ELSE delivered

(* Data and DataFragment: acknowledged, then delivered or reassembled. *)
RecvData(q) ==
  LET m == packet[q].msg IN
  /\ q \in data
  /\ ReadBy("receiver")
  /\ acks' = acks \cup {q}
  /\ arrived' = [arrived EXCEPT ![q] = AtMost2(@)]
  /\ IF Frags[m] = 1
       THEN /\ delivered' = [delivered EXCEPT ![m] = AtMost2(@)]
            /\ UNCHANGED <<lru, parts, evicted>>
       ELSE Reassemble(m, packet[q].index)
  /\ UNCHANGED <<open, sending, tracking, window, data, closes, abandoned>>

-----------------------------------------------------------------------------
(* recv_loop of the sender *)

(* The packets an ack for q resends at once: those more than the threshold
   behind it that no earlier ack has resent. *)
Lagging(q) == {x \in pending \ ({q} \cup fastRtx) : x + DupAck < q}

(* Mutant: an ack is taken for every packet before it. *)
RecvAckCumulative(q) ==
  /\ q \in acks
  /\ adjust = "none"
  /\ ReadBy("sender")
  /\ pending' = pending \ (0..q)
  /\ fastRtx' = fastRtx \cup Lagging(q)
  /\ retries' = [x \in SeqNo |-> IF x \in Lagging(q) THEN retries[x] + 1 ELSE retries[x]]
  /\ data' = data \cup Lagging(q)
  /\ adjust' = IF Lagging(q) = {} THEN "grow" ELSE "shrink"
  /\ UNCHANGED <<open, sending, cwnd, backoff, acks, closes, receiving, abandoned>>

(* DataAck: the entry is removed and the lagging packets are marked; ... *)
RecvAck(q) ==
  /\ q \in acks
  /\ adjust = "none"
  /\ ReadBy("sender")
  /\ pending' = pending \ {q}
  /\ fastRtx' = fastRtx \cup Lagging(q)
  /\ retries' = [x \in SeqNo |-> IF x \in Lagging(q) THEN retries[x] + 1 ELSE retries[x]]
  /\ data' = data \cup Lagging(q)
  /\ adjust' = IF Lagging(q) = {} THEN "grow" ELSE "shrink"
  /\ UNCHANGED <<open, sending, cwnd, backoff, acks, closes, receiving, abandoned>>

Larger(x, y)  == IF x > y THEN x ELSE y
Smaller(x, y) == IF x < y THEN x ELSE y
Grown(c)  == Smaller(c + 1, MaxCwnd)

Halved(c) == Larger(c \div 2, MinCwnd)

(* ... then the window grows by one, and halves if anything was resent. *)
AdjustWindow ==
  /\ adjust # "none"
  /\ cwnd' = IF adjust = "grow" THEN Grown(cwnd) ELSE Halved(Grown(cwnd))
  /\ adjust' = "none"
  /\ UNCHANGED <<open, listening, sending, tracking, backoff, network, receiving, abandoned>>

-----------------------------------------------------------------------------
(* Mutant: a packet out of retries stays pending. *)
TickKeeps(X) ==
  LET again == {q \in X : retries[q] < MaxRetx} IN
  /\ open["sender"] /\ ~ backoff
  /\ data' = data \cup again
  /\ retries' = [q \in SeqNo |-> IF q \in again THEN retries[q] + 1 ELSE retries[q]]
  /\ fastRtx' = fastRtx \ again
  /\ backoff' = (again # {})
  /\ UNCHANGED <<open, listening, sending, pending, cwnd, adjust, acks, closes, receiving,
                 abandoned>>

(* retransmit_loop: one tick finds the RTO of the packets X elapsed.  Those out
   of retries are abandoned, the others are sent again; ... *)
Exhausted(X) == {q \in X : retries[q] >= MaxRetx}
Tick(X) ==
  LET again == X \ Exhausted(X) IN
  /\ open["sender"] /\ ~ backoff
  /\ pending' = pending \ Exhausted(X)
  /\ abandoned' = abandoned \cup Exhausted(X)
  /\ data' = data \cup again
  /\ retries' = [q \in SeqNo |-> IF q \in again THEN retries[q] + 1 ELSE retries[q]]
  /\ fastRtx' = fastRtx \ again
  /\ backoff' = (again # {})
  /\ UNCHANGED <<open, listening, sending, cwnd, adjust, acks, closes, receiving>>

(* ... after a loss the window halves. *)
BackOff ==
  /\ backoff
  /\ cwnd' = Halved(cwnd)
  /\ backoff' = FALSE
  /\ UNCHANGED <<open, listening, sending, tracking, adjust, network, receiving, abandoned>>

-----------------------------------------------------------------------------
(* close, and a Close packet from the other end *)

Other(e) == IF e = "sender" THEN "receiver" ELSE "sender"
Close(e) ==
  /\ "close" \in Faults
  /\ open[e]
  /\ open' = [open EXCEPT ![e] = FALSE]
  /\ closes' = closes \cup {Other(e)}
  /\ UNCHANGED <<listening, sending, tracking, window, data, acks, receiving, abandoned>>

RecvClose(e) ==
  /\ e \in closes
  /\ listening[e]
  /\ e = "sender" => adjust = "none"
  /\ open' = [open EXCEPT ![e] = FALSE]
  /\ listening' = [listening EXCEPT ![e] = FALSE]
  /\ UNCHANGED <<sending, tracking, window, network, receiving, abandoned>>

-----------------------------------------------------------------------------
Receive == \/ \E q \in data : RecvData(q)
           \/ \E q \in acks : RecvAck(q)
           \/ \E e \in End : RecvClose(e)
Retransmit == BackOff \/ \E X \in (SUBSET pending) \ {{}} : Tick(X)

(* Every call has returned. *)
Returned == \A m \in Msg : call[m].pc \in {"ok", "failed"}
Idle == Returned /\ UNCHANGED vars

Next == \/ \E m \in Msg : Call(m)
        \/ Receive \/ AdjustWindow \/ Retransmit
        \/ \E e \in End : Close(e)
        \/ Idle

Spec == Init /\ [][Next]_vars

(* The tasks of the sending end run on, and the RTO of a packet that stays
   pending elapses.  Nothing is assumed of the network or of the other end:
   every packet and every acknowledgment may be lost. *)
Expires(q) == \E X \in SUBSET pending : q \in X /\ Tick(X)
Fairness ==
  /\ \A m \in Msg : WF_vars(Call(m))
  /\ WF_vars(AdjustWindow)
  /\ WF_vars(BackOff)
  /\ \A q \in SeqNo : WF_vars(Expires(q))

FairSpec == Spec /\ Fairness

-----------------------------------------------------------------------------
(* Properties *)

(* The window is checked under one lock and the packet registered under
   another, so concurrent senders overshoot it: by one packet each, never by
   more, whatever the window does meanwhile. *)
Cleared == {m \in Msg : call[m].pc \in {"claim", "insert"}}
WindowBound == Cardinality(pending) <= MaxCwnd + Cardinality(Msg) - 1

(* A reliable message is not lost in silence: once a call has returned Ok and
   nothing is pending any more, the message was delivered, unless one of its
   packets was abandoned or the reassembler evicted it. *)
PacketsOf(m) == {q \in SeqNo : packet[q] # None /\ packet[q].msg = m}
NotLost ==
  \A m \in Msg :
    call[m].pc = "ok" /\ PacketsOf(m) \cap (pending \cup abandoned) = {} =>
      delivered[m] > 0 \/ m \in evicted

(* A message is delivered a second time only if each of its packets reached the
   receiver a second time: a late duplicate does not complete it alone. *)
RedeliveryNeedsAll ==
  \A m \in Msg : delivered[m] = 2 => \A q \in PacketsOf(m) : arrived[q] = 2

(* A packet is retried at most once more than max_retransmissions: fast
   retransmits count as retries but do not look at the limit. *)
RetryBound == \A q \in SeqNo : retries[q] <= MaxRetx + 1

(* A sender waiting for the window does not wait for good, even if the network
   loses everything or either end closes the channel. *)
PacedEnds == \A m \in Msg : (call[m].pc = "pace") ~> (call[m].pc # "pace")
=============================================================================
