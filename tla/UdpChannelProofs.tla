-------------------------- MODULE UdpChannelProofs --------------------------
(***************************************************************************)
(* Proofs about the reliable data path of the UDP channel, for any number of*)
(* concurrent senders, any fragmentation and any window bounds.              *)
(***************************************************************************)
EXTENDS UdpChannel, FiniteSetTheorems, SequenceTheorems, TLAPS

(* A call that has claimed a sequence number holds one that carries a packet. *)
Claimed ==
  \A m \in Msg : call[m].pc \in {"insert", "send"} =>
     call[m].seq \in SeqNo /\ packet[call[m].seq] # None

(* Whatever is tracked or on the wire carries a packet of some message. *)
Carried == \A q \in data \cup pending : packet[q] # None

Shape == TypeOK /\ Claimed /\ Carried

LEMMA PlaceIsNotNone == None \notin Place /\ \A q \in SeqNo : q # None
  BY NoneFresh, LimitType DEF Place, SeqNo

-----------------------------------------------------------------------------
(* Facts about the operators *)

(* Removing a message from the reassembler's order leaves an order. *)
LEMMA OthersType ==
  ASSUME NEW m \in Msg, NEW L \in Seq(Msg)
  PROVE  Others(m, L) \in Seq(Msg)
<1>1. CASE \A k \in DOMAIN L : L[k] # m
  BY <1>1 DEF Others
<1>2. CASE ~ \A k \in DOMAIN L : L[k] # m
  <2> DEFINE k == CHOOSE k \in DOMAIN L : L[k] = m
  <2>1. k \in 1..Len(L)
    BY <1>2, LenProperties
  <2>2. SubSeq(L, 1, k - 1) \in Seq(Msg)
    <3>1. \A i \in 1..(k - 1) : L[i] \in Msg
      BY <2>1, ElementOfSeq
    <3> QED BY <2>1, <3>1, SubSeqProperties
  <2>3. SubSeq(L, k + 1, Len(L)) \in Seq(Msg)
    <3>1. \A i \in (k + 1)..Len(L) : L[i] \in Msg
      BY <2>1, ElementOfSeq
    <3> QED BY <2>1, <3>1, SubSeqProperties
  <2> QED BY <1>2, <2>2, <2>3, ConcatProperties DEF Others, RemoveAt
<1> QED BY <1>1, <1>2

(* The window stays within its bounds when it grows and when it halves. *)
LEMMA WindowType ==
  ASSUME NEW c \in MinCwnd..MaxCwnd
  PROVE  Grown(c) \in MinCwnd..MaxCwnd /\ Halved(c) \in MinCwnd..MaxCwnd
  BY CwndType DEF Grown, Halved, Larger, Smaller

LEMMA AtMost2Type == \A n \in 0..2 : AtMost2(n) \in 0..2
  BY DEF AtMost2

(* The reassembler keeps an order of messages and the fragments of each. *)
LEMMA ReassembleType ==
  ASSUME Shape, NEW m \in Msg, NEW i \in Nat, Reassemble(m, i)
  PROVE  /\ lru' \in Seq(Msg) /\ parts' \in [Msg -> SUBSET Nat]
         /\ evicted' \subseteq Msg /\ delivered' \in [Msg -> 0..2]
<1> DEFINE kept == IF Evicts(m) THEN Tail(lru) ELSE lru
           gone == IF Evicts(m) THEN {Head(lru)} ELSE {}
<1>1. kept \in Seq(Msg) /\ gone \subseteq Msg
  <2>1. lru \in Seq(Msg) BY DEF Shape, TypeOK
  <2>2. Evicts(m) => lru # <<>> BY <2>1, LimitType, EmptySeq, LenProperties DEF Evicts
  <2> QED BY <2>1, <2>2, HeadTailProperties
<1>2. lru' \in Seq(Msg)
  BY <1>1, OthersType, AppendProperties DEF Reassemble
<1>3. parts' \in [Msg -> SUBSET Nat] /\ evicted' \subseteq Msg
  BY <1>1 DEF Reassemble, Shape, TypeOK
<1>4. delivered' \in [Msg -> 0..2]
  BY AtMost2Type DEF Reassemble, Shape, TypeOK
<1> QED BY <1>2, <1>3, <1>4

-----------------------------------------------------------------------------
(* Type correctness *)

LEMMA InitShape == Init => Shape
<1> SUFFICES ASSUME Init PROVE Shape
  OBVIOUS
<1>1. 0 \in SeqNo /\ InitCwnd \in MinCwnd..MaxCwnd
  BY CwndType, LimitType DEF SeqNo
<1>2. lru \in Seq(Msg) /\ {} \in SUBSET Nat
  BY EmptySeq DEF Init
<1>3. call \in [Msg -> [pc: {"new", "pace", "claim", "insert", "send", "ok", "failed"},
                       index: Nat, seq: SeqNo \cup {None}]]
  BY DEF Init
<1>4. TypeOK BY <1>1, <1>2, <1>3 DEF Init, TypeOK
<1>5. Claimed /\ Carried BY DEF Init, Claimed, Carried
<1> QED BY <1>4, <1>5 DEF Shape

(* The record of a call. *)
CallState == [pc: {"new", "pace", "claim", "insert", "send", "ok", "failed"},
              index: Nat, seq: SeqNo \cup {None}]

(* A call that only moves on keeps the record of every call. *)
LEMMA CallMoves ==
  ASSUME call \in [Msg -> CallState], NEW m \in Msg,
         NEW to \in {"pace", "claim", "send", "failed"}, call' = [call EXCEPT ![m].pc = to]
  PROVE  call' \in [Msg -> CallState]
<1>1. [call[m] EXCEPT !.pc = to] \in CallState
  BY DEF CallState
<1> QED BY <1>1

(* The steps of a send_reliable call. *)
LEMMA CallShape ==
  ASSUME Shape, NEW m \in Msg, Call(m)
  PROVE  Shape'
<1> USE DEF network, window, tracking, sending, receiving
<1>5. call \in [Msg -> CallState]
  BY DEF Shape, TypeOK, CallState
<1>1. CASE Begin(m) \/ Pace(m) \/ PaceClosed(m) \/ TransmitFails(m)
  <2>1. PICK to \in {"pace", "claim", "failed"} : call' = [call EXCEPT ![m].pc = to]
    BY <1>1 DEF Begin, Pace, PaceClosed, TransmitFails, Goto
  <2>2. UNCHANGED <<open, listening, sendSeq, packet, tracking, window, network, receiving,
                    abandoned>>
    BY <1>1 DEF Begin, Pace, PaceClosed, TransmitFails
  <2>3. TypeOK'
    <3>1. call' \in [Msg -> CallState]
      BY <1>5, <2>1, CallMoves
    <3> QED BY <2>2, <3>1 DEF Shape, TypeOK, CallState
  <2>4. Claimed' /\ Carried'
    BY <2>1, <2>2 DEF Shape, TypeOK, Claimed, Carried
  <2> QED BY <2>3, <2>4 DEF Shape
<1>2. CASE Claim(m)
  <2>1. sendSeq \in SeqNo /\ sendSeq + 1 \in SeqNo
    BY <1>2, LimitType DEF Claim, Shape, TypeOK, SeqNo
  <2>2. [msg |-> m, index |-> call[m].index] \in Place
    BY DEF Place, Shape, TypeOK
  <2>3. TypeOK'
    <3>1. [call[m] EXCEPT !.pc = "insert", !.seq = sendSeq] \in CallState
      BY <1>5, <2>1 DEF CallState
    <3>2. call' \in [Msg -> CallState]
      BY <1>2, <1>5, <3>1 DEF Claim
    <3>3. packet' \in [SeqNo -> Place \cup {None}] /\ sendSeq' \in SeqNo
      BY <1>2, <2>1, <2>2 DEF Claim, Shape, TypeOK
    <3> QED BY <1>2, <3>2, <3>3 DEF Claim, Shape, TypeOK, CallState
  <2>4. Claimed' /\ Carried'
    BY <1>2, <2>1, <2>2, PlaceIsNotNone DEF Claim, Shape, TypeOK, Claimed, Carried
  <2> QED BY <2>3, <2>4 DEF Shape
<1>3. CASE Track(m)
  <2>1. TypeOK'
    <3>1. call' \in [Msg -> CallState]
      BY <1>3, <1>5, CallMoves DEF Track, Goto
    <3>2. pending' \subseteq SeqNo
      BY <1>3 DEF Track, Goto, Shape, TypeOK, Claimed
    <3> QED BY <1>3, <3>1, <3>2 DEF Track, Shape, TypeOK, CallState
  <2>2. Claimed' /\ Carried' BY <1>3 DEF Track, Goto, Shape, TypeOK, Claimed, Carried
  <2> QED BY <2>1, <2>2 DEF Shape
<1>4. CASE Transmit(m)
  <2>1. TypeOK' BY <1>4, FragsType DEF Transmit, Shape, TypeOK, Claimed
  <2>2. Claimed' /\ Carried' BY <1>4 DEF Transmit, Shape, TypeOK, Claimed, Carried
  <2> QED BY <2>1, <2>2 DEF Shape
<1> QED BY <1>1, <1>2, <1>3, <1>4 DEF Call

(* A data packet or fragment at the receiver. *)
LEMMA RecvDataShape ==
  ASSUME Shape, NEW q \in data, RecvData(q)
  PROVE  Shape'
<1> USE DEF network, window, tracking, sending, receiving
<1>1. q \in SeqNo /\ packet[q] \in Place
  BY DEF Shape, TypeOK, Carried
<1>2. packet[q].msg \in Msg /\ packet[q].index \in Nat
  BY <1>1 DEF Place
<1>3. arrived' \in [SeqNo -> 0..2]
  BY <1>1, AtMost2Type DEF RecvData, Shape, TypeOK
<1>4. /\ lru' \in Seq(Msg) /\ parts' \in [Msg -> SUBSET Nat]
      /\ evicted' \subseteq Msg /\ delivered' \in [Msg -> 0..2]
  <2>1. CASE Frags[packet[q].msg] = 1
    <3>1. /\ UNCHANGED <<lru, parts, evicted>>
          /\ delivered' = [delivered EXCEPT ![packet[q].msg] = AtMost2(@)]
      BY <2>1 DEF RecvData
    <3> QED BY <3>1, <1>2, AtMost2Type DEF Shape, TypeOK
  <2>2. CASE Frags[packet[q].msg] # 1
    BY <2>2, <1>2, ReassembleType DEF RecvData
  <2> QED BY <2>1, <2>2
<1>5. listening' \in [End -> BOOLEAN]
  BY DEF RecvData, ReadBy, End, Shape, TypeOK
<1>6. TypeOK'
  BY <1>1, <1>3, <1>4, <1>5 DEF RecvData, Shape, TypeOK
<1>7. Claimed' /\ Carried'
  BY DEF RecvData, Shape, Claimed, Carried
<1> QED BY <1>6, <1>7 DEF Shape

(* An acknowledgment at the sender. *)
LEMMA RecvAckShape ==
  ASSUME Shape, NEW q \in acks, RecvAck(q)
  PROVE  Shape'
<1> USE DEF network, window, tracking, sending, receiving
<1>1. Lagging(q) \subseteq pending
  BY DEF Lagging
<1>2. listening' \in [End -> BOOLEAN]
  BY DEF RecvAck, ReadBy, End, Shape, TypeOK
<1>3. retries' \in [SeqNo -> Nat]
  BY DEF RecvAck, Shape, TypeOK
<1>4. TypeOK'
  BY <1>1, <1>2, <1>3 DEF RecvAck, Shape, TypeOK
<1>5. Claimed' /\ Carried'
  BY <1>1 DEF RecvAck, Shape, Claimed, Carried
<1> QED BY <1>4, <1>5 DEF Shape

(* A tick of the retransmit loop. *)
LEMMA TickShape ==
  ASSUME Shape, NEW X \in SUBSET pending, Tick(X)
  PROVE  Shape'
<1> USE DEF network, window, tracking, sending, receiving
<1>1. X \subseteq SeqNo /\ Exhausted(X) \subseteq X
  BY DEF Exhausted, Shape, TypeOK
<1>2. retries' \in [SeqNo -> Nat]
  BY DEF Tick, Shape, TypeOK
<1>3. TypeOK'
  BY <1>1, <1>2 DEF Tick, Shape, TypeOK
<1>4. Claimed' /\ Carried'
  BY <1>1 DEF Tick, Shape, Claimed, Carried
<1> QED BY <1>3, <1>4 DEF Shape

(* The window updates, and the ends closing. *)
LEMMA RestShape ==
  ASSUME Shape, AdjustWindow \/ BackOff \/ \E e \in End : Close(e) \/ RecvClose(e)
  PROVE  Shape'
<1> USE DEF network, window, tracking, sending, receiving
<1>1. CASE AdjustWindow \/ BackOff
  <2>1. cwnd' \in MinCwnd..MaxCwnd
    BY <1>1, WindowType DEF AdjustWindow, BackOff, Shape, TypeOK
  <2>2. TypeOK' BY <1>1, <2>1 DEF AdjustWindow, BackOff, Shape, TypeOK
  <2>3. Claimed' /\ Carried' BY <1>1 DEF AdjustWindow, BackOff, Shape, Claimed, Carried
  <2> QED BY <2>2, <2>3 DEF Shape
<1>2. CASE \E e \in End : Close(e) \/ RecvClose(e)
  <2>0. open' \in [End -> BOOLEAN] /\ listening' \in [End -> BOOLEAN] /\ closes' \subseteq End
    <3>1. PICK e \in End : Close(e) \/ RecvClose(e)
      BY <1>2
    <3>2. CASE Close(e)
      BY <3>2 DEF Close, Other, End, Shape, TypeOK
    <3>3. CASE RecvClose(e)
      BY <3>3 DEF RecvClose, Shape, TypeOK
    <3> QED BY <3>1, <3>2, <3>3
  <2>1. TypeOK' BY <1>2, <2>0 DEF Close, RecvClose, Shape, TypeOK
  <2>2. Claimed' /\ Carried' BY <1>2 DEF Close, RecvClose, Shape, Claimed, Carried
  <2> QED BY <2>1, <2>2 DEF Shape
<1> QED BY <1>1, <1>2

LEMMA NextShape == Shape /\ [Next]_vars => Shape'
<1> SUFFICES ASSUME Shape, [Next]_vars PROVE Shape'
  OBVIOUS
<1>1. CASE UNCHANGED vars
  BY <1>1 DEF vars, network, window, tracking, sending, receiving, Shape, TypeOK, Claimed, Carried
<1>2. CASE \E m \in Msg : Call(m)
  BY <1>2, CallShape
<1>3. CASE Receive
  BY <1>3, RecvDataShape, RecvAckShape, RestShape DEF Receive
<1>4. CASE Retransmit
  BY <1>4, TickShape, RestShape DEF Retransmit
<1>5. CASE AdjustWindow \/ \E e \in End : Close(e)
  BY <1>5, RestShape
<1> QED BY <1>1, <1>2, <1>3, <1>4, <1>5 DEF Next, Idle

LEMMA ShapeInvariant == Spec => []Shape
<1> QED BY InitShape, NextShape, PTL DEF Spec

(* Every reachable state is well typed; in particular the congestion window
   stays between MIN_CWND and MAX_CWND. *)
THEOREM TypeCorrect == Spec => []TypeOK
<1>1. Shape => TypeOK BY DEF Shape
<1> QED BY <1>1, ShapeInvariant, PTL

-----------------------------------------------------------------------------
(* The window. *)

(* The packets in flight and the senders already let through, together. *)
Room == Cardinality(pending) + Cardinality(Cleared) <= MaxCwnd + Cardinality(Msg) - 1

(* Both sets are finite, and no more senders are let through than there are. *)
LEMMA Finite ==
  ASSUME Shape
  PROVE  /\ IsFiniteSet(pending) /\ Cardinality(pending) \in Nat
         /\ IsFiniteSet(Cleared) /\ Cardinality(Cleared) \in Nat
         /\ Cardinality(Msg) \in Nat /\ Cardinality(Cleared) <= Cardinality(Msg)
<1>1. IsFiniteSet(SeqNo)
  BY LimitType, FS_Interval DEF SeqNo
<1>2. IsFiniteSet(pending) /\ Cardinality(pending) \in Nat
  BY <1>1, FS_Subset, FS_CardinalityType DEF Shape, TypeOK
<1>3. IsFiniteSet(Cleared) /\ Cardinality(Cleared) <= Cardinality(Msg)
  BY MsgType, FS_Subset DEF Cleared
<1> QED BY <1>2, <1>3, MsgType, FS_CardinalityType

(* A step that lets nobody through and registers nothing keeps the room. *)
LEMMA RoomKept ==
  ASSUME Shape, Room, pending' \subseteq pending, Cleared' = Cleared
  PROVE  Room'
<1>1. Cardinality(pending') \in Nat /\ Cardinality(pending') <= Cardinality(pending)
  BY Finite, FS_Subset, FS_CardinalityType
<1> QED BY <1>1, Finite, CwndType DEF Room

LEMMA RoomStep == Shape /\ Room /\ [Next]_vars => Room'
<1> SUFFICES ASSUME Shape, Room, [Next]_vars PROVE Room'
  OBVIOUS
<1> USE DEF network, window, tracking, sending, receiving
<1>1. ASSUME NEW m \in Msg, Pace(m) PROVE Room'
  <2>1. pending' = pending /\ Cardinality(pending) < MaxCwnd
    BY <1>1, Finite, CwndType DEF Pace, Shape, TypeOK
  <2>2. Cardinality(Cleared') \in Nat /\ Cardinality(Cleared') <= Cardinality(Msg)
    BY MsgType, FS_Subset, FS_CardinalityType DEF Cleared
  <2> QED BY <2>1, <2>2, Finite, CwndType DEF Room
<1>2. ASSUME NEW m \in Msg, Track(m) PROVE Room'
  <2>1. /\ IsFiniteSet(pending') /\ Cardinality(pending') \in Nat
        /\ Cardinality(pending') <= Cardinality(pending) + 1
    <3> DEFINE S == pending
               x == call[m].seq
    <3>1. pending' = S \cup {x}
      BY <1>2 DEF Track
    <3>2. /\ IsFiniteSet(S \cup {x})
          /\ Cardinality(S \cup {x}) = IF x \in S THEN Cardinality(S) ELSE Cardinality(S) + 1
      BY Finite, FS_AddElement
    <3> HIDE DEF S, x
    <3>3. Cardinality(S) \in Nat
      BY Finite DEF S
    <3> QED BY <3>1, <3>2, <3>3 DEF S
  <2>2. m \in Cleared /\ Cleared' = Cleared \ {m}
    BY <1>2 DEF Track, Goto, Cleared, Shape, TypeOK
  <2>3. Cardinality(Cleared') = Cardinality(Cleared) - 1
    BY <2>2, Finite, FS_RemoveElement
  <2> QED BY <2>1, <2>3, Finite, CwndType DEF Room
<1>3. ASSUME NEW m \in Msg, Begin(m) \/ PaceClosed(m) \/ Claim(m) \/ Transmit(m) \/ TransmitFails(m)
      PROVE  Room'
  <2>1. pending' = pending
    BY <1>3 DEF Begin, PaceClosed, Claim, Transmit, TransmitFails
  <2>2. /\ m \in Cleared <=> call'[m].pc \in {"claim", "insert"}
        /\ \A x \in Msg \ {m} : call'[x] = call[x]
    BY <1>3 DEF Begin, PaceClosed, Claim, Transmit, TransmitFails, Goto, Cleared, Shape, TypeOK
  <2>3. Cleared' = Cleared
    BY <2>2 DEF Cleared
  <2> QED BY <2>1, <2>3, RoomKept
<1>4. CASE Receive \/ Retransmit \/ AdjustWindow \/ (\E e \in End : Close(e)) \/ Idle
  <2>1. pending' \subseteq pending /\ call' = call
    BY <1>4 DEF Receive, RecvData, RecvAck, RecvClose, Retransmit, Tick, BackOff, AdjustWindow,
                Close, Idle, vars
  <2> QED BY <2>1, RoomKept DEF Cleared
<1>5. CASE UNCHANGED vars
  BY <1>5, RoomKept DEF vars, Cleared
<1> QED BY <1>1, <1>2, <1>3, <1>4, <1>5 DEF Next, Call

(* Concurrent senders overshoot the largest window by at most one packet each
   but the first, for any number of senders and any loss. *)
THEOREM WindowBoundHolds == Spec => []WindowBound
<1>1. Init => Room
  <2> SUFFICES ASSUME Init PROVE Room
    OBVIOUS
  <2>1. pending = {} /\ Cleared = {}
    BY DEF Init, Cleared
  <2> QED BY <2>1, MsgType, FS_EmptySet, FS_CardinalityType, CwndType DEF Room
<1>2. Shape /\ Room => WindowBound
  BY Finite, CwndType DEF Room, WindowBound
<1> QED BY <1>1, <1>2, RoomStep, ShapeInvariant, PTL DEF Spec

-----------------------------------------------------------------------------
(* Sequence numbers and what they carry. *)

Slot(m, i) == [msg |-> m, index |-> i]
Packed(m, i) == \E q \in SeqNo : packet[q] = Slot(m, i)

(* A sequence number carries something once it is claimed, and no two carry the
   same fragment. *)
Numbered ==
  /\ \A q \in SeqNo : q >= sendSeq => packet[q] = None
  /\ \A q, r \in SeqNo : packet[q] # None /\ packet[q] = packet[r] => q = r

(* A call has packed the fragments before the one it is at and none after, and
   that one once it has claimed a number; a call that returned Ok has packed all. *)
Stage(m) ==
  /\ call[m].index < Frags[m]
  /\ \A i \in 0..(call[m].index - 1) : Packed(m, i)
  /\ call[m].pc \in {"new", "pace", "claim"} => ~ Packed(m, call[m].index)
  /\ call[m].pc \in {"insert", "send"} => packet[call[m].seq] = Slot(m, call[m].index)
  /\ call[m].pc = "ok" => Packed(m, call[m].index) /\ call[m].index = Frags[m] - 1

Within ==
  \A q \in SeqNo : packet[q] # None => packet[q].index <= call[packet[q].msg].index

Packing == Numbered /\ Within /\ \A m \in Msg : Stage(m)

LEMMA SlotFacts ==
  /\ \A m, x \in Msg : \A i, j \in Nat : Slot(m, i) = Slot(x, j) <=> m = x /\ i = j
  /\ \A m \in Msg : \A i \in Nat : /\ Slot(m, i) \in Place /\ Slot(m, i) # None
                                   /\ Slot(m, i).msg = m /\ Slot(m, i).index = i
  /\ \A p \in Place : p = Slot(p.msg, p.index)
  BY NoneFresh DEF Slot, Place

(* Only the senders claim numbers and fill them. *)
LEMMA OnlyCallsPack ==
  ASSUME [Next]_vars, ~ \E m \in Msg : Call(m)
  PROVE  UNCHANGED sending
  BY DEF Next, Receive, RecvData, RecvAck, RecvClose, Retransmit, BackOff, Tick, AdjustWindow,
         Close, Idle, vars, sending

LEMMA ClaimPacks ==
  ASSUME Shape, Packing, NEW m \in Msg, Claim(m)
  PROVE  /\ Packing'
         /\ sendSeq \in SeqNo /\ packet[sendSeq] = None
         /\ packet'[sendSeq] = Slot(m, call[m].index)
         /\ \A q \in SeqNo \ {sendSeq} : packet'[q] = packet[q]
<1> DEFINE c == call[m].index
<1>1. /\ sendSeq \in SeqNo /\ sendSeq \in Nat /\ sendSeq' = sendSeq + 1 /\ c \in Nat
      /\ call[m].pc = "claim"
      /\ packet' = [packet EXCEPT ![sendSeq] = Slot(m, c)]
      /\ \A x \in Msg \ {m} : call'[x] = call[x]
      /\ call'[m].pc = "insert" /\ call'[m].seq = sendSeq /\ call'[m].index = c
  BY LimitType DEF Claim, Shape, TypeOK, SeqNo, Slot
<1>2. /\ packet[sendSeq] = None
      /\ packet'[sendSeq] = Slot(m, c)
      /\ \A q \in SeqNo \ {sendSeq} : packet'[q] = packet[q]
  BY <1>1 DEF Packing, Numbered, Shape, TypeOK
<1>3. \A x \in Msg : \A i \in Nat : Packed(x, i)' <=> Packed(x, i) \/ (x = m /\ i = c)
  BY <1>1, <1>2, SlotFacts DEF Packed
<1>4. Numbered'
  <2>1. \A q \in SeqNo : q >= sendSeq' => packet'[q] = None
    BY <1>1, <1>2 DEF Packing, Numbered, SeqNo
  <2>2. \A q \in SeqNo : packet[q] # Slot(m, c)
    BY <1>1 DEF Packing, Stage, Packed
  <2>3. \A q, r \in SeqNo : packet'[q] # None /\ packet'[q] = packet'[r] => q = r
    BY <1>1, <1>2, <2>2 DEF Packing, Numbered
  <2> QED BY <2>1, <2>3 DEF Numbered
<1>5. Within'
  <2> SUFFICES ASSUME NEW q \in SeqNo, packet'[q] # None
               PROVE  packet'[q].index <= call'[packet'[q].msg].index
    BY DEF Within
  <2>1. CASE q = sendSeq
    BY <1>1, <1>2, <2>1, SlotFacts
  <2>2. CASE q # sendSeq
    <3>1. packet'[q] = packet[q] /\ packet[q] \in Place
      BY <1>2, <2>2 DEF Shape, TypeOK
    <3>2. call'[packet[q].msg].index = call[packet[q].msg].index
      BY <1>1, <3>1 DEF Place
    <3> QED BY <3>1, <3>2 DEF Packing, Within
  <2> QED BY <2>1, <2>2
<1>6. ASSUME NEW x \in Msg PROVE Stage(x)'
  <2>1. call[x].index \in Nat /\ call[x].index \in Int
    BY DEF Shape, TypeOK
  <2>2. \A i \in 0..(call[x].index - 1) : i \in Nat
    BY <2>1
  <2>3. CASE x = m
    BY <1>1, <1>2, <1>3, <2>1, <2>2, <2>3 DEF Packing, Stage
  <2>4. CASE x # m
    <3>1. call[x].pc \in {"insert", "send"} => packet'[call[x].seq] = packet[call[x].seq]
      BY <1>2 DEF Shape, Claimed
    <3> QED BY <1>1, <1>3, <2>1, <2>2, <2>4, <3>1 DEF Packing, Stage
  <2> QED BY <2>3, <2>4
<1> QED BY <1>1, <1>2, <1>4, <1>5, <1>6 DEF Packing

LEMMA PackingStep == Shape /\ Packing /\ [Next]_vars => Packing'
<1> SUFFICES ASSUME Shape, Packing, [Next]_vars PROVE Packing'
  OBVIOUS
<1>1. CASE UNCHANGED sending
  BY <1>1 DEF sending, Packing, Numbered, Within, Stage, Packed
<1>2. ASSUME NEW m \in Msg, Begin(m) \/ Pace(m) \/ PaceClosed(m) \/ Track(m) \/ TransmitFails(m)
      PROVE  Packing'
  <2>1. PICK to \in {"pace", "claim", "send", "failed"} :
           /\ call' = [call EXCEPT ![m].pc = to] /\ sendSeq' = sendSeq /\ packet' = packet
           /\ to \in {"pace", "claim"} => call[m].pc \in {"new", "pace", "claim"}
           /\ to = "send" => call[m].pc = "insert"
    BY <1>2 DEF Begin, Pace, PaceClosed, Track, TransmitFails, Goto
  <2>2. \A x \in Msg : /\ call'[x].index = call[x].index /\ call'[x].seq = call[x].seq
                       /\ x # m => call'[x] = call[x]
    BY <2>1 DEF Shape, TypeOK
  <2>3. call'[m].pc = to
    BY <2>1 DEF Shape, TypeOK
  <2>4. Numbered'
    BY <2>1 DEF Packing, Numbered
  <2>5. Within'
    BY <2>1, <2>2 DEF Packing, Within, Shape, TypeOK, Place
  <2>6. \A x \in Msg : Stage(x)'
    BY <2>1, <2>2, <2>3 DEF Packing, Stage, Packed
  <2> QED BY <2>4, <2>5, <2>6 DEF Packing
<1>3. ASSUME NEW m \in Msg, Claim(m) PROVE Packing'
  BY <1>3, ClaimPacks
<1>4. ASSUME NEW m \in Msg, Transmit(m) PROVE Packing'
  <2> DEFINE c == call[m].index
             last == c + 1 = Frags[m]
  <2>1. /\ sendSeq' = sendSeq /\ packet' = packet /\ c \in Nat
        /\ \A x \in Msg \ {m} : call'[x] = call[x]
        /\ call'[m].pc = IF last THEN "ok" ELSE "pace"
        /\ call'[m].index = IF last THEN c ELSE c + 1
    BY <1>4 DEF Transmit, Shape, TypeOK
  <2>2. Numbered'
    BY <2>1 DEF Packing, Numbered
  <2>3. \A x \in Msg : /\ call[x].index \in Nat /\ call'[x].index \in Nat
                       /\ call[x].index <= call'[x].index
    <3>1. \A x \in Msg : call[x].index \in Nat
      BY DEF Shape, TypeOK
    <3>2. call'[m].index \in Nat /\ call[m].index <= call'[m].index
      BY <2>1, <3>1
    <3> QED BY <2>1, <3>1, <3>2
  <2>4. Within'
    <3> SUFFICES ASSUME NEW q \in SeqNo, packet[q] # None
                 PROVE  packet[q].index <= call'[packet[q].msg].index
      BY <2>1 DEF Within
    <3>1. packet[q].msg \in Msg /\ packet[q].index \in Nat
      BY DEF Shape, TypeOK, Place
    <3>2. /\ packet[q].index <= call[packet[q].msg].index
          /\ call[packet[q].msg].index \in Nat /\ call'[packet[q].msg].index \in Nat
      BY <2>3, <3>1 DEF Packing, Within
    <3> QED BY <2>3, <3>1, <3>2
  <2>5. Stage(m)'
    <3>1. Packed(m, c) /\ Frags[m] \in Nat /\ c < Frags[m] /\ \A i \in 0..(c - 1) : Packed(m, i)
      BY <1>4, FragsType DEF Transmit, Shape, Claimed, Packing, Stage, Packed
    <3>2. ~ Packed(m, c + 1)
      BY <2>1, SlotFacts DEF Packing, Within, Packed
    <3>3. \A i : Packed(m, i)' <=> Packed(m, i)
      BY <2>1 DEF Packed
    <3>4. CASE last
      BY <2>1, <3>1, <3>3, <3>4 DEF Stage
    <3>5. CASE ~ last
      BY <2>1, <3>1, <3>2, <3>3, <3>5 DEF Stage
    <3> QED BY <3>4, <3>5
  <2>6. \A x \in Msg \ {m} : Stage(x)'
    BY <2>1 DEF Packing, Stage, Packed
  <2> QED BY <2>2, <2>4, <2>5, <2>6 DEF Packing
<1> QED BY <1>1, <1>2, <1>3, <1>4, OnlyCallsPack DEF Call

-----------------------------------------------------------------------------
(* From a claimed number to a fragment at the receiver. *)

(* A claimed packet is awaiting its registration, pending, abandoned or
   acknowledged. *)
Tracked ==
  \A q \in SeqNo : packet[q] # None =>
     \/ q \in pending \cup abandoned \cup acks
     \/ \E m \in Msg : call[m].pc = "insert" /\ call[m].seq = q

(* What is acknowledged has arrived, and what has arrived was packed. *)
Received ==
  \A q \in SeqNo : /\ q \in acks => arrived[q] > 0
                   /\ arrived[q] > 0 => packet[q] # None

(* The fragments a message has at the receiver were packed, and are never all
   of them: the last one completes the message and clears the set. *)
Partial ==
  \A m \in Msg :
     /\ parts[m] \subseteq 0..(Frags[m] - 1)
     /\ parts[m] # 0..(Frags[m] - 1)
     /\ \A i \in parts[m] : Packed(m, i)
     /\ delivered[m] > 0 => \A i \in 0..(Frags[m] - 1) : Packed(m, i)

(* A packet that arrived is in a delivered message, in an evicted one or still
   held; and it arrived as often as its message was delivered, once more if the
   receiver holds it for the next time. *)
Accounted(q) ==
  LET m == packet[q].msg
  IN  /\ arrived[q] > 0 => delivered[m] > 0 \/ m \in evicted \/ packet[q].index \in parts[m]
      /\ arrived[q] >= delivered[m]
      /\ packet[q].index \in parts[m] => arrived[q] >= AtMost2(delivered[m])
Held == \A q \in SeqNo : packet[q] # None => Accounted(q)

Delivery == Tracked /\ Received /\ Partial /\ Held

LEMMA TrackedStep == Shape /\ Tracked /\ [Next]_vars => Tracked'
<1> SUFFICES ASSUME Shape, Tracked, [Next]_vars PROVE Tracked'
  OBVIOUS
<1> USE DEF network, window, tracking, sending, receiving
<1>1. ASSUME NEW m \in Msg, Claim(m) PROVE Tracked'
  BY <1>1 DEF Claim, Shape, TypeOK, Tracked
<1>2. ASSUME NEW m \in Msg, Track(m) PROVE Tracked'
  BY <1>2 DEF Track, Goto, Shape, TypeOK, Tracked
<1>3. ASSUME NEW m \in Msg,
             Begin(m) \/ Pace(m) \/ PaceClosed(m) \/ Transmit(m) \/ TransmitFails(m)
      PROVE  Tracked'
  <2>1. /\ UNCHANGED <<pending, abandoned, acks, packet>>
        /\ call[m].pc # "insert" /\ \A x \in Msg \ {m} : call'[x] = call[x]
    BY <1>3 DEF Begin, Pace, PaceClosed, Transmit, TransmitFails, Goto, Shape, TypeOK
  <2> QED BY <2>1 DEF Tracked
<1>4. CASE Receive
  BY <1>4 DEF Receive, RecvData, RecvAck, RecvClose, Tracked
<1>5. CASE Retransmit
  BY <1>5 DEF Retransmit, BackOff, Tick, Exhausted, Tracked
<1>6. CASE AdjustWindow \/ (\E e \in End : Close(e)) \/ Idle \/ UNCHANGED vars
  BY <1>6 DEF AdjustWindow, Close, Idle, vars, Tracked
<1> QED BY <1>1, <1>2, <1>3, <1>4, <1>5, <1>6 DEF Next, Call

(* Only a datagram changes what the receiver has, and only a claim what the
   numbers carry. *)
LEMMA OnlyDataArrives ==
  ASSUME [Next]_vars, ~ \E q \in data : RecvData(q)
  PROVE  UNCHANGED <<acks, receiving>>
  BY DEF Next, Call, Begin, Pace, PaceClosed, Claim, Track, Transmit, TransmitFails, Receive,
         RecvAck, RecvClose, Retransmit, BackOff, Tick, AdjustWindow, Close, Idle, vars, sending,
         network, receiving

LEMMA OnlyClaimPacks ==
  ASSUME [Next]_vars, ~ \E m \in Msg : Claim(m)
  PROVE  packet' = packet
  BY OnlyCallsPack DEF Call, Begin, Pace, PaceClosed, Track, Transmit, TransmitFails, sending

(* What the reassembler does with a fragment: it may clear other messages, and
   clears this one if the fragment completes it. *)
LEMMA ReassembleEffect ==
  ASSUME Shape, NEW m \in Msg, NEW i \in Nat, Reassemble(m, i)
  PROVE  /\ evicted \subseteq evicted'
         /\ parts'[m] = IF Complete(m, i) THEN {} ELSE parts[m] \cup {i}
         /\ \A x \in Msg \ {m} : \/ parts'[x] = parts[x]
                                 \/ parts'[x] = {} /\ x \in evicted'
         /\ delivered' = IF Complete(m, i) THEN [delivered EXCEPT ![m] = AtMost2(@)]
                                           ELSE delivered
<1> DEFINE gone == IF Evicts(m) THEN {Head(lru)} ELSE {}
<1>1. m \notin gone
  <2>1. lru \in Seq(Msg) BY DEF Shape, TypeOK
  <2>2. Evicts(m) => lru # <<>> BY <2>1, LimitType, EmptySeq, LenProperties DEF Evicts
  <2>3. Evicts(m) => Head(lru) = lru[1] /\ 1 \in DOMAIN lru
    BY <2>1, <2>2, HeadTailProperties, EmptySeq, LenProperties
  <2> QED BY <2>3 DEF Evicts, Opens
<1>2. /\ parts' = [x \in Msg |-> IF x \in gone \/ (x = m /\ Complete(m, i)) THEN {}
                                 ELSE IF x = m THEN parts[x] \cup {i} ELSE parts[x]]
      /\ evicted' = evicted \cup gone
  BY DEF Reassemble
<1>3. delivered' = IF Complete(m, i) THEN [delivered EXCEPT ![m] = AtMost2(@)] ELSE delivered
  BY DEF Reassemble
<1> HIDE DEF gone
<1> QED BY <1>1, <1>2, <1>3

(* A claimed number has not arrived, and the receiver has nothing of it. *)
LEMMA ClaimDelivery ==
  ASSUME Shape, Packing, Received, Partial, Held, NEW m \in Msg, Claim(m)
  PROVE  Received' /\ Partial' /\ Held'
<1> DEFINE c == call[m].index
<1>1. UNCHANGED <<acks, parts, delivered, arrived, evicted>>
  BY DEF Claim, network, receiving
<1>2. /\ sendSeq \in SeqNo /\ packet[sendSeq] = None /\ packet'[sendSeq] = Slot(m, c)
      /\ \A q \in SeqNo \ {sendSeq} : packet'[q] = packet[q]
  BY ClaimPacks
<1>3. c \in Nat /\ c < Frags[m] /\ ~ Packed(m, c)
  BY DEF Claim, Packing, Stage, Shape, TypeOK
<1>4. arrived[sendSeq] = 0 /\ delivered[m] = 0 /\ c \notin parts[m]
  <2>1. arrived[sendSeq] \in 0..2 /\ delivered[m] \in 0..2
    BY <1>2 DEF Shape, TypeOK
  <2>2. Frags[m] \in Nat
    BY FragsType
  <2> QED BY <1>2, <1>3, <2>1, <2>2 DEF Received, Partial
<1>5. \A x \in Msg, i \in Nat : Packed(x, i) => Packed(x, i)'
  BY <1>2, SlotFacts DEF Packed
<1>6. Received'
  BY <1>1, <1>2, SlotFacts, <1>3 DEF Received
<1>7. Partial'
  BY <1>1, <1>5, FragsType DEF Partial
<1>8. Held'
  <2> SUFFICES ASSUME NEW q \in SeqNo, packet'[q] # None PROVE Accounted(q)'
    BY DEF Held
  <2>1. CASE q = sendSeq
    BY <1>1, <1>2, <1>3, <1>4, <2>1, SlotFacts DEF Accounted, AtMost2
  <2>2. CASE q # sendSeq
    BY <1>1, <1>2, <2>2 DEF Held, Accounted
  <2> QED BY <2>1, <2>2
<1> QED BY <1>6, <1>7, <1>8

(* Every packed fragment is one of its message's. *)
LEMMA PackedInRange ==
  ASSUME Shape, Packing, NEW q \in SeqNo, packet[q] # None
  PROVE  /\ packet[q].msg \in Msg /\ packet[q].index \in Nat
         /\ packet[q] = Slot(packet[q].msg, packet[q].index)
         /\ packet[q].index < Frags[packet[q].msg]
<1>1. packet[q] \in Place
  BY DEF Shape, TypeOK
<1>2. packet[q].msg \in Msg /\ packet[q].index \in Nat
  BY <1>1 DEF Place
<1>3. /\ packet[q].index <= call[packet[q].msg].index
      /\ call[packet[q].msg].index < Frags[packet[q].msg]
      /\ call[packet[q].msg].index \in Nat /\ Frags[packet[q].msg] \in Nat
  BY <1>2, FragsType DEF Packing, Within, Stage, Shape, TypeOK
<1> QED BY <1>1, <1>2, <1>3, SlotFacts

LEMMA DataDelivery ==
  ASSUME Shape, Packing, Received, Partial, Held, NEW q \in data, RecvData(q)
  PROVE  Received' /\ Partial' /\ Held'
<1> DEFINE m == packet[q].msg
           i == packet[q].index
<1>1. q \in SeqNo /\ packet[q] # None
  BY DEF Shape, TypeOK, Carried
<1>2. /\ m \in Msg /\ i \in Nat /\ i < Frags[m] /\ packet[q] = Slot(m, i)
      /\ Frags[m] \in Nat \ {0}
  BY <1>1, PackedInRange, FragsType
<1>3. /\ packet' = packet /\ acks' = acks \cup {q}
      /\ arrived'[q] = AtMost2(arrived[q])
      /\ \A r \in SeqNo \ {q} : arrived'[r] = arrived[r]
      /\ arrived[q] \in 0..2
  BY <1>1 DEF RecvData, sending, Shape, TypeOK
<1>4. delivered \in [Msg -> 0..2] /\ parts \in [Msg -> SUBSET Nat]
  BY DEF Shape, TypeOK
<1>5. /\ evicted \subseteq evicted'
      /\ parts'[m] = IF Complete(m, i) THEN {} ELSE parts[m] \cup {i}
      /\ \A x \in Msg \ {m} : \/ parts'[x] = parts[x]
                              \/ parts'[x] = {} /\ x \in evicted'
      /\ delivered' = IF Complete(m, i) THEN [delivered EXCEPT ![m] = AtMost2(@)] ELSE delivered
  <2>1. CASE Frags[m] = 1
    <3>1. i = 0 /\ 0..(Frags[m] - 1) = {0}
      BY <1>2, <2>1
    <3>2. parts[m] = {}
      <4>1. parts[m] \subseteq 0..(Frags[m] - 1) /\ parts[m] # 0..(Frags[m] - 1)
        BY <1>2 DEF Partial
      <4> QED BY <3>1, <4>1
    <3>3. Complete(m, i)
      BY <3>1, <3>2 DEF Complete
    <3> QED BY <2>1, <3>2, <3>3 DEF RecvData
  <2>2. CASE Frags[m] # 1
    BY <1>2, <2>2, ReassembleEffect DEF RecvData
  <2> QED BY <2>1, <2>2
<1>6. \A x, j : Packed(x, j)' <=> Packed(x, j)
  BY <1>3 DEF Packed
<1>7. Packed(m, i)
  BY <1>1, <1>2 DEF Packed
<1>8. Received'
  BY <1>1, <1>3 DEF Received, AtMost2
<1>9. \A x \in Msg : delivered'[x] \in 0..2
                     /\ (x # m \/ ~ Complete(m, i) => delivered'[x] = delivered[x])
  BY <1>2, <1>4, <1>5, AtMost2Type
<1>10. Complete(m, i) => delivered'[m] = AtMost2(delivered[m]) /\ delivered'[m] > 0
  BY <1>2, <1>4, <1>5 DEF AtMost2
<1>11. Partial'
  <2> SUFFICES ASSUME NEW x \in Msg
               PROVE  /\ parts'[x] \subseteq 0..(Frags[x] - 1)
                      /\ parts'[x] # 0..(Frags[x] - 1)
                      /\ \A j \in parts'[x] : Packed(x, j)
                      /\ delivered'[x] > 0 => \A j \in 0..(Frags[x] - 1) : Packed(x, j)
    BY <1>6 DEF Partial
  <2>1. Frags[x] \in Nat \ {0} /\ 0 \in 0..(Frags[x] - 1)
    BY FragsType
  <2>2. CASE x # m
    BY <1>5, <1>9, <2>1, <2>2 DEF Partial
  <2>3. CASE x = m /\ Complete(m, i)
    BY <1>5, <1>7, <2>1, <2>3 DEF Partial, Complete
  <2>4. CASE x = m /\ ~ Complete(m, i)
    <3>1. i \in 0..(Frags[m] - 1)
      BY <1>2
    <3>2. parts'[m] = parts[m] \cup {i} /\ delivered'[m] = delivered[m]
      BY <1>2, <1>5, <1>9, <2>4
    <3>3. parts'[m] # 0..(Frags[m] - 1)
      BY <2>4, <3>2 DEF Complete
    <3>4. parts'[m] \subseteq 0..(Frags[m] - 1) /\ \A j \in parts'[m] : Packed(m, j)
      BY <1>2, <1>7, <3>1, <3>2 DEF Partial
    <3>5. delivered'[m] > 0 => \A j \in 0..(Frags[m] - 1) : Packed(m, j)
      BY <1>2, <3>2 DEF Partial
    <3> QED BY <2>4, <3>3, <3>4, <3>5
  <2> QED BY <2>2, <2>3, <2>4
<1>12. Held'
  <2> SUFFICES ASSUME NEW r \in SeqNo, packet[r] # None PROVE Accounted(r)'
    BY <1>3 DEF Held
  <2> DEFINE x == packet[r].msg
             j == packet[r].index
  <2>1. x \in Msg /\ j \in 0..(Frags[x] - 1) /\ packet[r] = Slot(x, j)
    BY PackedInRange, FragsType
  <2>2. /\ arrived[r] > 0 => delivered[x] > 0 \/ x \in evicted \/ j \in parts[x]
        /\ arrived[r] >= delivered[x]
        /\ j \in parts[x] => arrived[r] >= AtMost2(delivered[x])
    BY DEF Held, Accounted
  <2>3. arrived[r] \in 0..2 /\ delivered[x] \in 0..2
    BY <1>4, <2>1 DEF Shape, TypeOK
  <2>4. x = m /\ j = i => r = q
    BY <1>1, <1>2, <2>1 DEF Packing, Numbered
  <2> SUFFICES /\ arrived'[r] > 0 => delivered'[x] > 0 \/ x \in evicted' \/ j \in parts'[x]
               /\ arrived'[r] >= delivered'[x]
               /\ j \in parts'[x] => arrived'[r] >= AtMost2(delivered'[x])
    BY <1>3 DEF Accounted
  <2>5. CASE x # m
    <3>1. arrived'[r] = arrived[r] /\ delivered'[x] = delivered[x]
      BY <1>3, <1>9, <2>1, <2>5
    <3> QED BY <1>5, <2>1, <2>2, <2>5, <3>1
  <2>6. CASE x = m /\ Complete(m, i)
    <3>1. j = i \/ j \in parts[m]
      BY <2>1, <2>6 DEF Complete
    <3>2. parts'[x] = {} /\ delivered'[x] = AtMost2(delivered[x]) /\ delivered'[x] > 0
      BY <1>5, <1>10, <2>6
    <3>3. CASE r = q
      BY <1>3, <2>2, <2>3, <3>2, <3>3 DEF AtMost2
    <3>4. CASE r # q
      BY <1>3, <2>2, <2>4, <2>6, <3>1, <3>2, <3>4
    <3> QED BY <3>3, <3>4
  <2>7. CASE x = m /\ ~ Complete(m, i)
    <3>1. parts'[x] = parts[x] \cup {i} /\ delivered'[x] = delivered[x]
      BY <1>5, <1>9, <2>1, <2>7
    <3>2. CASE r = q
      <4>1. j = i /\ arrived'[r] = AtMost2(arrived[r])
        BY <1>3, <3>2
      <4> QED BY <2>2, <2>3, <3>1, <4>1 DEF AtMost2
    <3>3. CASE r # q
      <4>1. j # i /\ arrived'[r] = arrived[r]
        BY <1>3, <2>4, <2>7, <3>3
      <4> QED BY <1>5, <2>2, <3>1, <4>1
    <3> QED BY <3>2, <3>3
  <2> QED BY <2>5, <2>6, <2>7
<1> QED BY <1>8, <1>11, <1>12

LEMMA DeliveryStep ==
  Shape /\ Packing /\ Delivery /\ [Next]_vars => Delivery'
<1> SUFFICES ASSUME Shape, Packing, Delivery, [Next]_vars PROVE Delivery'
  OBVIOUS
<1>1. Tracked'
  BY TrackedStep DEF Delivery
<1>2. CASE \E q \in data : RecvData(q)
  BY <1>1, <1>2, DataDelivery DEF Delivery
<1>3. CASE \E m \in Msg : Claim(m)
  BY <1>1, <1>3, ClaimDelivery DEF Delivery
<1>4. CASE ~ (\E q \in data : RecvData(q)) /\ ~ (\E m \in Msg : Claim(m))
  <2>1. UNCHANGED <<acks, parts, delivered, arrived, evicted, packet>>
    BY <1>4, OnlyDataArrives, OnlyClaimPacks DEF receiving
  <2> QED BY <1>1, <2>1 DEF Delivery, Received, Partial, Held, Accounted, Packed
<1> QED BY <1>2, <1>3, <1>4

LEMMA DeliveryInvariant == Spec => [](Shape /\ Packing /\ Delivery)
<1>1. Init => Packing /\ Delivery
  <2> SUFFICES ASSUME Init PROVE Packing /\ Delivery
    OBVIOUS
  <2>1. \A q \in SeqNo : packet[q] = None /\ arrived[q] = 0
    BY DEF Init
  <2>2. \A m \in Msg : /\ call[m].pc = "new" /\ call[m].index = 0
                       /\ parts[m] = {} /\ delivered[m] = 0
    BY DEF Init
  <2>3. \A m \in Msg : \A i \in Nat : ~ Packed(m, i)
    BY <2>1, SlotFacts DEF Packed
  <2>4. Numbered /\ Within /\ Tracked /\ Received /\ Held
    BY <2>1 DEF Init, Numbered, Within, Tracked, Received, Held
  <2>5. \A m \in Msg : Frags[m] \in Nat \ {0} /\ 0 \in 0..(Frags[m] - 1)
    BY FragsType
  <2>6. 0..(0 - 1) = {}
    OBVIOUS
  <2>7. \A m \in Msg : Stage(m)
    BY <2>2, <2>3, <2>5, <2>6 DEF Stage
  <2>8. Partial
    <3>1. \A m \in Msg : {} \subseteq 0..(Frags[m] - 1) /\ {} # 0..(Frags[m] - 1)
      BY <2>5
    <3>2. \A m \in Msg : ~ delivered[m] > 0
      BY <2>2
    <3> QED BY <2>2, <3>1, <3>2, Zenon DEF Partial
  <2> QED BY <2>4, <2>7, <2>8 DEF Packing, Delivery
<1> QED BY <1>1, InitShape, NextShape, PackingStep, DeliveryStep, PTL DEF Spec

(* A reliable message is not lost in silence: once a call has returned Ok and
   none of its packets is pending or was abandoned, the message was delivered,
   unless the reassembler evicted it -- whatever the network loses, duplicates
   or reorders, and however many calls share the channel. *)
THEOREM NotLostHolds == Spec => []NotLost
<1>1. Shape /\ Packing /\ Delivery => NotLost
  <2> SUFFICES ASSUME Shape, Packing, Delivery, NEW m \in Msg, call[m].pc = "ok",
                      PacketsOf(m) \cap (pending \cup abandoned) = {},
                      ~ delivered[m] > 0, m \notin evicted
               PROVE  FALSE
    BY DEF NotLost
  <2>1. Frags[m] \in Nat \ {0} /\ call[m].index = Frags[m] - 1
    BY FragsType DEF Packing, Stage
  <2>2. \A i \in 0..(Frags[m] - 1) : Packed(m, i)
    BY <2>1 DEF Packing, Stage
  <2>3. ASSUME NEW i \in 0..(Frags[m] - 1) PROVE i \in parts[m]
    <3>1. PICK q \in SeqNo : packet[q] = Slot(m, i)
      BY <2>2 DEF Packed
    <3>2. packet[q] # None /\ packet[q].msg = m /\ packet[q].index = i
      BY <3>1, SlotFacts
    <3>3. ~ \E x \in Msg : call[x].pc = "insert" /\ call[x].seq = q
      BY <3>1, SlotFacts DEF Packing, Stage, Shape, TypeOK
    <3>4. q \in acks
      BY <3>2, <3>3 DEF Delivery, Tracked, PacketsOf
    <3> QED BY <3>2, <3>4 DEF Delivery, Received, Held, Accounted
  <2> QED BY <2>3 DEF Delivery, Partial
<1> QED BY <1>1, DeliveryInvariant, PTL

(* A message is delivered again only if every one of its packets arrived again:
   a fragment that survives the message it completed would break this. *)
THEOREM RedeliveryHolds == Spec => []RedeliveryNeedsAll
<1>1. Shape /\ Packing /\ Delivery => RedeliveryNeedsAll
  <2> SUFFICES ASSUME Shape, Delivery, NEW m \in Msg, delivered[m] = 2, NEW q \in PacketsOf(m)
               PROVE  arrived[q] = 2
    BY DEF RedeliveryNeedsAll
  <2>1. arrived[q] \in 0..2 /\ arrived[q] >= delivered[m]
    BY DEF PacketsOf, Shape, TypeOK, Delivery, Held, Accounted
  <2> QED BY <2>1
<1> QED BY <1>1, DeliveryInvariant, PTL

-----------------------------------------------------------------------------
(* Retries. *)

Retried == \A q \in SeqNo : retries[q] <= IF q \in fastRtx THEN MaxRetx + 1 ELSE MaxRetx

LEMMA RetriedStep == Shape /\ Retried /\ [Next]_vars => Retried'
<1> SUFFICES ASSUME Shape, Retried, [Next]_vars PROVE Retried'
  OBVIOUS
<1>0. retries \in [SeqNo -> Nat] /\ MaxRetx \in Nat
  BY LimitType DEF Shape, TypeOK
<1>1. ASSUME NEW q \in acks, RecvAck(q) PROVE Retried'
  BY <1>0, <1>1 DEF RecvAck, Lagging, Retried
<1>2. ASSUME NEW X \in SUBSET pending, Tick(X) PROVE Retried'
  BY <1>0, <1>2 DEF Tick, Exhausted, Retried
<1>3. CASE UNCHANGED tracking \/ \E m \in Msg : Track(m)
  BY <1>3 DEF Track, tracking, Retried
<1> QED BY <1>1, <1>2, <1>3 DEF Next, Call, Begin, Pace, PaceClosed, Claim, Transmit,
        TransmitFails, Receive, RecvData, RecvClose, Retransmit, BackOff, AdjustWindow, Close, Idle,
        vars, tracking

(* Fast retransmits do not look at max_retransmissions, and still no packet is
   sent again more than once beyond it. *)
THEOREM RetryBoundHolds == Spec => []RetryBound
<1>1. Init => Retried
  BY LimitType DEF Init, Retried
<1>2. Shape /\ Retried => RetryBound
  BY LimitType DEF Shape, TypeOK, Retried, RetryBound
<1> QED BY <1>1, <1>2, RetriedStep, ShapeInvariant, PTL DEF Spec
=============================================================================
