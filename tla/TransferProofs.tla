--------------------------- MODULE TransferProofs ---------------------------
(***************************************************************************)
(* Proofs about file transfers, for any number of transfers, any files, any *)
(* window and any loss, repetition and reordering of slices.                 *)
(*                                                                         *)
(* Two results: a transfer fails only for a reason, and every step is one of *)
(* FileCopy or changes nothing FileCopy sees.  Both rest on what the slices  *)
(* of one transfer are (Sliced), and on which of them the destination file   *)
(* holds while no other transfer writes (Landed, JobsLand, Settles).         *)
(***************************************************************************)
EXTENDS Transfer, FiniteSetTheorems, SequenceTheorems, TLAPS

(* A file holds a slice: its block is where the slice belongs. *)
HoldsSlice(f, m) == m.data = <<>> \/ (m.off < Len(f) /\ f[m.off + 1] = m.data[1])
EndOf(m) == m.off + Len(m.data)

-----------------------------------------------------------------------------
(* Facts about the operators *)

(* A slice carries at most one block. *)
LEMMA SliceFacts ==
  ASSUME NEW m \in Slice
  PROVE  /\ m.xfer \in Transfer /\ m.off \in Nat /\ m.eof \in BOOLEAN
         /\ \/ m.data = <<>> /\ Len(m.data) = 0
            \/ m.data # <<>> /\ Len(m.data) = 1 /\ m.data[1] \in Block
         /\ EndOf(m) \in Nat
<1>1. m.xfer \in Transfer /\ m.off \in Nat /\ m.eof \in BOOLEAN
      /\ m.data \in {<<>>} \cup {<<b>> : b \in Block}
  BY DEF Slice
<1>2. CASE m.data = <<>>
  BY <1>1, <1>2, EmptySeq DEF EndOf
<1>3. CASE \E b \in Block : m.data = <<b>>
  BY <1>1, <1>3 DEF EndOf
<1> QED BY <1>1, <1>2, <1>3

(* set_len cuts a file or fills it up, and keeps what is before the new end. *)
LEMMA ResizeFacts ==
  ASSUME NEW f \in File, NEW n \in Nat
  PROVE  /\ Resize(f, n) \in File
         /\ Len(Resize(f, n)) = n
         /\ \A i \in 1..n : Resize(f, n)[i] = IF i <= Len(f) THEN f[i] ELSE Hole
         /\ Len(f) = n => Resize(f, n) = f
<1>1. /\ Len(f) \in Nat /\ f \in Seq(Block \cup {Hole})
      /\ \A i \in 1..Len(f) : f[i] \in Block \cup {Hole}
  BY LenProperties, ElementOfSeq DEF File
<1>2. \A i \in 1..n : Resize(f, n)[i] = IF i <= Len(f) THEN f[i] ELSE Hole
  BY DEF Resize
<1>3. Resize(f, n) \in [1..n -> Block \cup {Hole}]
  BY <1>1 DEF Resize
<1>4. Resize(f, n) \in Seq(Block \cup {Hole})
  BY <1>3, SeqDef
<1>5. Len(Resize(f, n)) = n
  <2>1. 1..Len(Resize(f, n)) = 1..n /\ Len(Resize(f, n)) \in Nat
    BY <1>3, <1>4, LenProperties
  <2> QED BY <2>1
<1>6. Len(f) = n => Resize(f, n) = f
  BY <1>1, <1>2, <1>4, <1>5, SeqEqual
<1> QED BY <1>2, <1>4, <1>5, <1>6 DEF File

(* A write puts its slice in the file, keeps the others there, and changes
   nothing if the slice was there already. *)
LEMMA WriteFacts ==
  ASSUME NEW f \in File, NEW m \in Slice
  PROVE  LET g == WriteAt(f, m.off, m.data)
         IN  /\ g \in File
             /\ HoldsSlice(g, m)
             /\ \A n \in Slice : n.off # m.off /\ HoldsSlice(f, n) => HoldsSlice(g, n)
             /\ HoldsSlice(f, m) => g = f
<1> DEFINE g == WriteAt(f, m.off, m.data)
<1>1. CASE m.data = <<>>
  BY <1>1 DEF WriteAt, HoldsSlice
<1>2. CASE m.data # <<>>
  <2> DEFINE len == IF m.off + 1 > Len(f) THEN m.off + 1 ELSE Len(f)
             h == Resize(f, len)
  <2>1. m.off \in Nat /\ m.data[1] \in Block /\ Len(f) \in Nat
    BY <1>2, SliceFacts, LenProperties DEF File
  <2>2. len \in Nat /\ Len(f) <= len /\ m.off + 1 \in 1..len
    BY <2>1
  <2>3. h \in File /\ Len(h) = len /\ \A i \in 1..Len(f) : h[i] = f[i]
    <3>1. h \in File /\ Len(h) = len /\ \A i \in 1..len : i <= Len(f) => h[i] = f[i]
      BY <2>2, ResizeFacts
    <3>2. \A i \in 1..Len(f) : i \in 1..len /\ i <= Len(f)
      BY <2>1, <2>2
    <3> QED BY <3>1, <3>2
  <2>4. g = [h EXCEPT ![m.off + 1] = m.data[1]]
    BY <1>2 DEF WriteAt
  <2>5. /\ g \in File /\ Len(g) = len
        /\ \A i \in 1..len : g[i] = IF i = m.off + 1 THEN m.data[1] ELSE h[i]
    <3> HIDE DEF h, len, g
    <3>1. h \in Seq(Block \cup {Hole}) /\ m.off + 1 \in 1..Len(h) /\ m.data[1] \in Block \cup {Hole}
      BY <2>1, <2>2, <2>3 DEF File
    <3> QED BY <2>3, <2>4, <3>1, ExceptSeq DEF File
  <2> HIDE DEF g, h
  <2>6. HoldsSlice(g, m)
    BY <2>1, <2>2, <2>5 DEF HoldsSlice
  <2>7. ASSUME NEW n \in Slice, n.off # m.off, HoldsSlice(f, n) PROVE HoldsSlice(g, n)
    BY <2>1, <2>2, <2>3, <2>5, <2>7, SliceFacts DEF HoldsSlice
  <2>8. ASSUME HoldsSlice(f, m) PROVE g = f
    <3>1. m.off < Len(f) /\ f[m.off + 1] = m.data[1]
      BY <1>2, <2>8 DEF HoldsSlice
    <3>2. len = Len(f)
      BY <2>1, <3>1
    <3>3. \A i \in 1..Len(f) : g[i] = f[i]
      BY <2>1, <2>3, <2>5, <3>1, <3>2
    <3>4. f \in Seq(Block \cup {Hole}) /\ g \in Seq(Block \cup {Hole}) /\ Len(g) = Len(f)
      BY <2>5, <3>2 DEF File
    <3> QED BY <3>3, <3>4, SeqEqual
  <2> QED BY <2>5, <2>6, <2>7, <2>8 DEF g
<1> QED BY <1>1, <1>2

(* Cutting a file at the end of its last slice keeps the slices before it. *)
LEMMA CutFacts ==
  ASSUME NEW f \in File, NEW n \in Nat, NEW m \in Slice, HoldsSlice(f, m),
         m.data = <<>> \/ m.off < n
  PROVE  HoldsSlice(Resize(f, n), m)
  BY ResizeFacts, SliceFacts, LenProperties DEF HoldsSlice, File

-----------------------------------------------------------------------------
(* Types *)

FiniteWindows == \A t \in Transfer : IsFiniteSet(inflight[t])
Typed == TypeOK /\ FiniteWindows

(* The slice that is read next. *)
NextSlice(t, eof) == [xfer |-> t, off |-> offset[t], eof |-> eof,
                      data |-> IF size[t] = 0 THEN <<>> ELSE DataAt(offset[t])]

LEMMA NextSliceType ==
  ASSUME Typed, NEW t \in Transfer, NEW eof \in BOOLEAN
  PROVE  NextSlice(t, eof) \in Slice
<1>1. src \in Seq(Block) /\ Len(src) \in Nat /\ offset[t] \in Nat
  BY VersionType, LenProperties DEF Typed, TypeOK
<1>2. offset[t] < Len(src) => src[offset[t] + 1] \in Block
  BY <1>1, ElementOfSeq
<1>3. DataAt(offset[t]) \in {<<>>} \cup {<<b>> : b \in Block}
  BY <1>2 DEF DataAt
<1> QED BY <1>1, <1>3 DEF NextSlice, Slice

(* Reading either fails the transfer or adds the slice to the window. *)
LEMMA ReadEffect ==
  ASSUME Typed, NEW t \in Transfer, NEW to \in {"stream", "final"}, NEW eof \in BOOLEAN,
         ReadSlice(t, to, eof)
  PROVE  \/ /\ offset[t] > Len(src)
            /\ phase' = [phase EXCEPT ![t] = "failed"]
            /\ inflight' = [inflight EXCEPT ![t] = {}]
            /\ acks' = {r \in acks : r.slice \notin inflight[t]}
         \/ /\ ~ offset[t] > Len(src)
            /\ phase' = [phase EXCEPT ![t] = to]
            /\ inflight' = [inflight EXCEPT ![t] = @ \cup {NextSlice(t, eof)}]
            /\ acks' = acks
<1>1. CASE offset[t] > Len(src)
  BY <1>1 DEF ReadSlice, Goto, GiveUp, Typed, TypeOK
<1>2. CASE ~ offset[t] > Len(src)
  BY <1>2 DEF ReadSlice, Goto, NextSlice
<1> QED BY <1>1, <1>2

(* A window of the sender that loses slices, or gains one while it has room, is
   within its bound. *)
WindowOK(S) == S \in SUBSET Slice /\ IsFiniteSet(S) /\ Cardinality(S) <= Window

LEMMA WindowFacts ==
  /\ WindowOK({})
  /\ \A S, R : WindowOK(S) => WindowOK(S \ R)
  /\ \A S : \A m \in Slice : WindowOK(S) /\ Cardinality(S) < Window => WindowOK(S \cup {m})
<1>1. WindowOK({})
  BY FS_EmptySet, BoundsType DEF WindowOK
<1>2. ASSUME NEW S, NEW R, WindowOK(S) PROVE WindowOK(S \ R)
  <2>1. IsFiniteSet(S \ R) /\ Cardinality(S \ R) <= Cardinality(S)
        /\ Cardinality(S \ R) \in Nat /\ Cardinality(S) \in Nat
    BY <1>2, FS_Subset, FS_CardinalityType DEF WindowOK
  <2> QED BY <1>2, <2>1, BoundsType DEF WindowOK
<1>3. ASSUME NEW S, NEW m \in Slice, WindowOK(S), Cardinality(S) < Window
      PROVE  WindowOK(S \cup {m})
  <2>1. IsFiniteSet(S) /\ Cardinality(S) \in Nat /\ Window \in Nat
    BY <1>3, FS_CardinalityType, BoundsType DEF WindowOK
  <2>2. /\ IsFiniteSet(S \cup {m})
        /\ Cardinality(S \cup {m}) = IF m \in S THEN Cardinality(S) ELSE Cardinality(S) + 1
    BY <2>1, FS_AddElement
  <2>3. Cardinality(S \cup {m}) <= Window
    BY <1>3, <2>1, <2>2
  <2> QED BY <1>3, <2>2, <2>3 DEF WindowOK
<1> QED BY <1>1, <1>2, <1>3

LEMMA WindowsTyped ==
  Typed => /\ inflight \in [Transfer -> SUBSET Slice]
           /\ \A t \in Transfer : WindowOK(inflight[t])
  BY DEF Typed, TypeOK, FiniteWindows, WindowOK

(* A step that keeps the windows' bound and the types of the rest. *)
LEMMA StillTyped ==
  ASSUME inflight' \in [Transfer -> SUBSET Slice], \A t \in Transfer : WindowOK(inflight'[t]),
         src' \in Version, dest' \in File, edits' \in 0..MaxEdits,
         phase' \in [Transfer -> {"new", "queued", "stream", "final", "done", "failed"}],
         size' \in [Transfer -> Nat], sha' \in [Transfer -> Version \cup {None}],
         offset' \in [Transfer -> Nat], wire' \subseteq Slice,
         jobs' \subseteq [slice: Slice, pc: {"truncate", "verify"}],
         acks' \subseteq [slice: Slice, ok: BOOLEAN],
         disturbed' \subseteq Transfer, touched' \subseteq Transfer
  PROVE  Typed'
  BY DEF Typed, TypeOK, FiniteWindows, WindowOK

LEMMA InitTyped == Init => Typed
<1> SUFFICES ASSUME Init PROVE Typed
  OBVIOUS
<1>1. \A t \in Transfer : WindowOK(inflight[t])
  BY WindowFacts DEF Init
<1>2. 0 \in 0..MaxEdits
  BY BoundsType
<1> QED BY <1>1, <1>2, DestType DEF Init, Typed, TypeOK, FiniteWindows, WindowOK

(* The steps of the sender, ... *)
LEMMA SenderTyped ==
  ASSUME Typed, NEW t \in Transfer, Begin(t) \/ StreamFile(t)
  PROVE  Typed'
<1> USE DEF receiver, ghosts
<1>0. /\ inflight \in [Transfer -> SUBSET Slice]
      /\ \A u \in Transfer : WindowOK(inflight[u])
  BY WindowsTyped
<1>1. CASE Begin(t) \/ Hash(t)
  <2>1. Len(src) \in Nat
    BY VersionType, LenProperties DEF Typed, TypeOK
  <2>2. /\ size' \in [Transfer -> Nat] /\ sha' \in [Transfer -> Version \cup {None}]
        /\ phase' \in [Transfer -> {"new", "queued", "stream", "final", "done", "failed"}]
    BY <1>1, <2>1 DEF Begin, Hash, Goto, Typed, TypeOK
  <2> QED BY <1>1, <2>2 DEF Begin, Hash, Typed, TypeOK, FiniteWindows
<1>2. CASE Read(t) \/ ReadLast(t)
  <2>1. PICK to \in {"stream", "final"}, eof \in BOOLEAN : ReadSlice(t, to, eof)
    BY <1>2 DEF Read, ReadLast
  <2>2. Cardinality(inflight[t]) < Window
    <3>1. Cardinality({}) = 0
      BY FS_EmptySet
    <3>2. Cardinality(inflight[t]) < Window \/ inflight[t] = {}
      BY <1>2 DEF Read, ReadLast
    <3> QED BY <3>1, <3>2, BoundsType
  <2>3. /\ UNCHANGED <<src, edits, wire, size, sha, receiver, ghosts>>
        /\ offset' \in [Transfer -> Nat]
    <3>1. offset \in [Transfer -> Nat]
      BY DEF Typed, TypeOK
    <3>2. offset' = offset \/ offset' = [offset EXCEPT ![t] = @ + 1]
      BY <1>2 DEF Read, ReadLast
    <3>3. offset' \in [Transfer -> Nat]
      BY <3>1, <3>2
    <3> QED BY <1>2, <3>3 DEF Read, ReadLast
  <2>4. NextSlice(t, eof) \in Slice
    BY NextSliceType
  <2>5. /\ phase' \in [Transfer -> {"new", "queued", "stream", "final", "done", "failed"}]
        /\ acks' \subseteq acks
        /\ inflight' \in [Transfer -> SUBSET Slice]
    <3>1. phase \in [Transfer -> {"new", "queued", "stream", "final", "done", "failed"}]
      BY DEF Typed, TypeOK
    <3>2. CASE /\ phase' = [phase EXCEPT ![t] = "failed"]
               /\ inflight' = [inflight EXCEPT ![t] = {}]
               /\ acks' = {r \in acks : r.slice \notin inflight[t]}
      BY <1>0, <3>1, <3>2
    <3>3. CASE /\ phase' = [phase EXCEPT ![t] = to]
               /\ inflight' = [inflight EXCEPT ![t] = @ \cup {NextSlice(t, eof)}]
               /\ acks' = acks
      BY <1>0, <2>4, <3>1, <3>3
    <3> QED BY <2>1, <3>2, <3>3, ReadEffect
  <2>6. \A u \in Transfer : \/ inflight'[u] = inflight[u]
                            \/ inflight'[u] = {}
                            \/ u = t /\ inflight'[u] = inflight[u] \cup {NextSlice(t, eof)}
    BY <1>0, <2>1, ReadEffect
  <2>7. \A u \in Transfer : WindowOK(inflight'[u])
    BY <1>0, <2>2, <2>4, <2>6, WindowFacts
  <2> QED BY <2>3, <2>5, <2>7, StillTyped DEF Typed, TypeOK
<1>3. CASE \E m \in inflight[t] : Transmit(t, m)
  <2>1. wire' \subseteq Slice
    BY <1>0, <1>3 DEF Transmit, Typed, TypeOK
  <2> QED BY <1>3, <2>1 DEF Transmit, sender, Typed, TypeOK, FiniteWindows
<1>4. CASE SliceTimeout(t) \/ \E m \in inflight[t] : \E ok \in BOOLEAN : Collect(t, m, ok)
  <2>1. PICK S \in SUBSET Slice : GiveUp(t, S)
    BY <1>0, <1>4 DEF SliceTimeout, Collect
  <2>2. /\ inflight' = [inflight EXCEPT ![t] = @ \ S] /\ acks' \subseteq acks
    BY <2>1 DEF GiveUp
  <2>3. inflight' \in [Transfer -> SUBSET Slice] /\ \A u \in Transfer : WindowOK(inflight'[u])
    BY <1>0, <2>2, WindowFacts
  <2>4. /\ phase' \in [Transfer -> {"new", "queued", "stream", "final", "done", "failed"}]
        /\ disturbed' \subseteq Transfer
        /\ UNCHANGED <<src, edits, wire, size, sha, offset, receiver, touched>>
    BY <1>4 DEF SliceTimeout, Collect, Goto, Typed, TypeOK
  <2> QED BY <2>2, <2>3, <2>4, StillTyped DEF Typed, TypeOK
<1> QED BY <1>1, <1>2, <1>3, <1>4 DEF StreamFile

(* A reply is about a slice. *)
LEMMA AckType ==
  ASSUME Typed, NEW m \in Slice
  PROVE  /\ acks \subseteq [slice: Slice, ok: BOOLEAN]
         /\ \A ok \in BOOLEAN : Ack(m, ok) => /\ acks' \subseteq [slice: Slice, ok: BOOLEAN]
                                             /\ acks' \subseteq acks \cup {[slice |-> m, ok |-> ok]}
  BY DEF Ack, Typed, TypeOK

(* ... those of the receiver, and an edit. *)
LEMMA ReceiverTyped ==
  ASSUME Typed, Edit \/ ReceiveChunk
  PROVE  Typed'
<1> USE DEF sender, receiver, ghosts
<1>1. CASE Edit
  <2>1. edits' \in 0..MaxEdits
    BY <1>1, BoundsType DEF Edit, Typed, TypeOK
  <2> QED BY <1>1, <2>1 DEF Edit, Typed, TypeOK, FiniteWindows
<1>2. ASSUME NEW m \in wire, Receive(m) \/ Refuse(m) PROVE Typed'
  <2>1. m \in Slice /\ m.xfer \in Transfer /\ dest \in File
    BY SliceFacts DEF Typed, TypeOK
  <2>2. dest' \in File
    BY <1>2, <2>1, WriteFacts DEF Receive, Refuse
  <2>3. acks' \subseteq [slice: Slice, ok: BOOLEAN]
    <3>1. acks' = acks \/ \E ok \in BOOLEAN : Ack(m, ok)
      BY <1>2 DEF Receive, Refuse
    <3> QED BY <2>1, <3>1, AckType
  <2>4. jobs' \subseteq [slice: Slice, pc: {"truncate", "verify"}]
    <3>1. jobs' = jobs \/ jobs' = jobs \cup {[slice |-> m, pc |-> "truncate"]}
      BY <1>2 DEF Receive, Refuse
    <3> QED BY <2>1, <3>1 DEF Typed, TypeOK
  <2>5. disturbed' \subseteq Transfer /\ touched' \subseteq Transfer
    BY <1>2, <2>1 DEF Receive, Refuse, Touch, Typed, TypeOK
  <2> QED BY <1>2, <2>2, <2>3, <2>4, <2>5 DEF Receive, Refuse, Typed, TypeOK, FiniteWindows
<1>3. ASSUME NEW j \in jobs, Truncate(j) \/ Verify(j) PROVE Typed'
  <2>1. /\ j.slice \in Slice /\ j.slice.xfer \in Transfer /\ dest \in File
        /\ EndOf(j.slice) \in Nat
    BY SliceFacts DEF Typed, TypeOK
  <2>2. dest' \in File
    BY <1>3, <2>1, ResizeFacts DEF Truncate, Verify, EndOf
  <2>3. acks' \subseteq [slice: Slice, ok: BOOLEAN]
    <3>1. (dest = sha[j.slice.xfer]) \in BOOLEAN
      OBVIOUS
    <3>2. acks' = acks \/ \E ok \in BOOLEAN : Ack(j.slice, ok)
      BY <1>3, <3>1, Zenon DEF Truncate, Verify
    <3> QED BY <2>1, <3>2, AckType
  <2>4. jobs' \subseteq [slice: Slice, pc: {"truncate", "verify"}]
    <3>1. [j EXCEPT !.pc = "verify"] \in [slice: Slice, pc: {"truncate", "verify"}]
      BY DEF Typed, TypeOK
    <3>2. jobs' \subseteq jobs \cup {[j EXCEPT !.pc = "verify"]}
      BY <1>3 DEF Truncate, Verify
    <3> QED BY <3>1, <3>2 DEF Typed, TypeOK
  <2>5. touched' \subseteq Transfer
    BY <1>3, <2>1 DEF Truncate, Verify, Touch, Typed, TypeOK
  <2> QED BY <1>3, <2>2, <2>3, <2>4, <2>5 DEF Truncate, Verify, Typed, TypeOK, FiniteWindows
<1> QED BY <1>1, <1>2, <1>3 DEF ReceiveChunk

LEMMA NextTyped == Typed /\ [Next]_vars => Typed'
<1> SUFFICES ASSUME Typed, [Next]_vars PROVE Typed'
  OBVIOUS
<1>1. CASE UNCHANGED vars
  BY <1>1 DEF vars, sender, receiver, ghosts, Typed, TypeOK, FiniteWindows
<1> QED BY <1>1, SenderTyped, ReceiverTyped DEF Next, Idle

(* Every reachable state is well typed; in particular no transfer ever has more
   than TRANSFER_WINDOW slices in flight. *)
THEOREM TypeCorrect == Spec => []TypeOK
<1>1. Typed => TypeOK BY DEF Typed
<1> QED BY <1>1, InitTyped, NextTyped, PTL DEF Spec

-----------------------------------------------------------------------------
(* The steps of the sender, transfer by transfer *)

(* What no step of transfer t touches in another. *)
OthersKept(t) ==
  \A u \in Transfer \ {t} : /\ phase'[u] = phase[u] /\ inflight'[u] = inflight[u]
                            /\ offset'[u] = offset[u] /\ size'[u] = size[u] /\ sha'[u] = sha[u]

FileKept == UNCHANGED <<src, dest, jobs>>

LEMMA BeginEffect ==
  ASSUME Typed, NEW t \in Transfer, Begin(t)
  PROVE  /\ OthersKept(t) /\ FileKept /\ UNCHANGED <<wire, acks, sha, inflight, offset, ghosts>>
         /\ phase[t] = "new" /\ phase'[t] = "queued" /\ size'[t] = Len(src)
  BY DEF Begin, Goto, OthersKept, FileKept, receiver, Typed, TypeOK

LEMMA HashEffect ==
  ASSUME Typed, NEW t \in Transfer, Hash(t)
  PROVE  /\ OthersKept(t) /\ FileKept /\ UNCHANGED <<wire, acks, size, inflight, offset, ghosts>>
         /\ phase[t] = "queued" /\ phase'[t] = "stream" /\ sha'[t] = src
  BY DEF Hash, Goto, OthersKept, FileKept, receiver, Typed, TypeOK

LEMMA ReadStepEffect ==
  ASSUME Typed, NEW t \in Transfer, Read(t) \/ ReadLast(t)
  PROVE  /\ OthersKept(t) /\ FileKept /\ UNCHANGED <<wire, size, sha, ghosts>>
         /\ phase[t] = "stream"
         /\ \E eof \in BOOLEAN :
              /\ IF eof THEN ~ More(t) /\ inflight[t] = {} ELSE More(t)
              /\ offset'[t] = IF eof THEN offset[t] ELSE offset[t] + 1
              /\ \/ /\ offset[t] > Len(src)
                    /\ phase'[t] = "failed" /\ inflight'[t] = {}
                    /\ acks' = {r \in acks : r.slice \notin inflight[t]}
                 \/ /\ ~ offset[t] > Len(src)
                    /\ phase'[t] = IF eof THEN "final" ELSE "stream"
                    /\ inflight'[t] = inflight[t] \cup {NextSlice(t, eof)}
                    /\ acks' = acks
<1>0. /\ inflight \in [Transfer -> SUBSET Slice] /\ offset \in [Transfer -> Nat]
      /\ phase \in [Transfer -> {"new", "queued", "stream", "final", "done", "failed"}]
  BY DEF Typed, TypeOK
<1>1. CASE Read(t)
  <2>1. /\ phase[t] = "stream" /\ More(t) /\ ReadSlice(t, "stream", FALSE)
        /\ offset' = [offset EXCEPT ![t] = @ + 1]
        /\ FileKept /\ UNCHANGED <<wire, size, sha, ghosts>>
    BY <1>1 DEF Read, FileKept, receiver
  <2> QED BY <1>0, <2>1, ReadEffect DEF OthersKept
<1>2. CASE ReadLast(t)
  <2>1. /\ phase[t] = "stream" /\ ~ More(t) /\ inflight[t] = {} /\ ReadSlice(t, "final", TRUE)
        /\ offset' = offset
        /\ FileKept /\ UNCHANGED <<wire, size, sha, ghosts>>
    BY <1>2 DEF ReadLast, FileKept, receiver
  <2> QED BY <1>0, <2>1, ReadEffect DEF OthersKept
<1> QED BY <1>1, <1>2

LEMMA TransmitEffect ==
  ASSUME Typed, NEW t \in Transfer, NEW m \in inflight[t], Transmit(t, m)
  PROVE  /\ UNCHANGED <<src, dest, jobs, acks, sender, ghosts>> /\ Active(t)
         /\ m \notin wire /\ wire' = wire \cup {m} /\ m \in Slice
  BY DEF Transmit, receiver, Awaiting, Typed, TypeOK

LEMMA CollectEffect ==
  ASSUME Typed, NEW t \in Transfer, NEW m \in inflight[t], \E ok \in BOOLEAN : Collect(t, m, ok)
  PROVE  /\ OthersKept(t) /\ FileKept /\ UNCHANGED <<wire, size, sha, offset, ghosts>>
         /\ Active(t)
         /\ \/ /\ [slice |-> m, ok |-> TRUE] \in acks
               /\ inflight'[t] = inflight[t] \ {m}
               /\ acks' = {r \in acks : r.slice \notin {m}}
               /\ phase'[t] = IF m.eof THEN "done" ELSE phase[t]
            \/ /\ [slice |-> m, ok |-> FALSE] \in acks
               /\ inflight'[t] = {}
               /\ acks' = {r \in acks : r.slice \notin inflight[t]}
               /\ phase'[t] = "failed"
<1>1. /\ inflight \in [Transfer -> SUBSET Slice]
      /\ phase \in [Transfer -> {"new", "queued", "stream", "final", "done", "failed"}]
  BY DEF Typed, TypeOK
<1>2. CASE Collect(t, m, TRUE)
  <2>1. /\ Active(t) /\ [slice |-> m, ok |-> TRUE] \in acks
        /\ inflight' = [inflight EXCEPT ![t] = @ \ {m}]
        /\ acks' = {r \in acks : r.slice \notin {m}}
        /\ phase' = [phase EXCEPT ![t] = IF m.eof THEN "done" ELSE phase[t]]
        /\ FileKept /\ UNCHANGED <<wire, size, sha, offset, ghosts>>
    BY <1>2 DEF Collect, GiveUp, Goto, Awaiting, FileKept, receiver
  <2> QED BY <1>1, <2>1 DEF OthersKept
<1>3. CASE Collect(t, m, FALSE)
  <2>1. /\ Active(t) /\ [slice |-> m, ok |-> FALSE] \in acks
        /\ inflight' = [inflight EXCEPT ![t] = @ \ inflight[t]]
        /\ acks' = {r \in acks : r.slice \notin inflight[t]}
        /\ phase' = [phase EXCEPT ![t] = "failed"]
        /\ FileKept /\ UNCHANGED <<wire, size, sha, offset, ghosts>>
    BY <1>3 DEF Collect, GiveUp, Goto, Awaiting, FileKept, receiver
  <2> QED BY <1>1, <2>1 DEF OthersKept
<1> QED BY <1>2, <1>3

LEMMA TimeoutEffect ==
  ASSUME Typed, NEW t \in Transfer, SliceTimeout(t)
  PROVE  /\ OthersKept(t) /\ FileKept /\ UNCHANGED <<wire, size, sha, offset, touched>>
         /\ Active(t) /\ inflight[t] # {} /\ inflight'[t] = {}
         /\ acks' = {r \in acks : r.slice \notin inflight[t]}
         /\ phase'[t] = "failed" /\ disturbed' = disturbed \cup {t}
  BY DEF SliceTimeout, GiveUp, Goto, Awaiting, OthersKept, FileKept, receiver, Typed, TypeOK

-----------------------------------------------------------------------------
(* What is in flight *)

(* Slices and replies are where the phase of their transfer says. *)
Windowed(t) == \A m \in inflight[t] : m.xfer = t /\ phase[t] \in {"stream", "final"}
Bounded(t) == offset[t] = 0 \/ offset[t] < size[t]
Begun(t) ==
  /\ phase[t] \in {"new", "queued"} =>
       /\ inflight[t] = {} /\ offset[t] = 0 /\ sha[t] = None
       /\ \A m \in wire : m.xfer # t
  /\ phase[t] \notin {"new", "queued"} => sha[t] \in Version
AtLast(t) == phase[t] = "final" => offset[t] + 1 >= size[t] /\ \A m \in inflight[t] : m.eof
Awaited == \A r \in acks : r.slice \in inflight[r.slice.xfer] /\ r.slice \in wire
JobsSent == \A j \in jobs : j.slice \in wire /\ j.slice.eof

(* The slices of a transfer that were read and may still have an effect. *)
Slices(t) == inflight[t] \cup {m \in wire : m.xfer = t}

(* There is one slice for each offset, and the last one is the one that says so. *)
Sliced(t) ==
  \A m \in Slices(t) :
    /\ ~ m.eof => m.off < offset[t]
    /\ m.eof => m.off = offset[t] /\ phase[t] \in {"final", "done", "failed"}
    /\ \A n \in Slices(t) : n.off = m.off => n = m

SoundOne(t) == Windowed(t) /\ Bounded(t) /\ Begun(t) /\ AtLast(t) /\ Sliced(t)
Sound == Typed /\ Awaited /\ JobsSent /\ \A t \in Transfer : SoundOne(t)

(* A step of transfer t that sends nothing leaves the others sound. *)
LEMMA OthersSound ==
  ASSUME Sound, NEW t \in Transfer, OthersKept(t), wire' = wire
  PROVE  \A u \in Transfer \ {t} : SoundOne(u)'
  BY DEF Sound, SoundOne, OthersKept, Windowed, Bounded, Begun, AtLast, Sliced, Slices

LEMMA InitSound == Init => Sound
<1> SUFFICES ASSUME Init PROVE Sound
  OBVIOUS
<1>1. Typed BY InitTyped
<1>2. \A t \in Transfer : SoundOne(t)
  BY DEF Init, SoundOne, Windowed, Bounded, Begun, AtLast, Sliced, Slices
<1> QED BY <1>1, <1>2 DEF Init, Sound, Awaited, JobsSent

LEMMA SenderSound ==
  ASSUME Sound, NEW t \in Transfer, Begin(t) \/ StreamFile(t), Typed'
  PROVE  Sound'
<1> SUFFICES Awaited' /\ JobsSent' /\ \A u \in Transfer : SoundOne(u)'
  BY DEF Sound
<1>0. /\ Typed /\ Awaited /\ JobsSent /\ SoundOne(t)
      /\ inflight[t] \in SUBSET Slice /\ offset[t] \in Nat /\ size[t] \in Nat
      /\ inflight \in [Transfer -> SUBSET Slice] /\ wire \subseteq Slice
      /\ acks \subseteq [slice: Slice, ok: BOOLEAN]
  BY DEF Sound, Typed, TypeOK
<1>1. CASE Begin(t)
  <2>1. /\ OthersKept(t) /\ FileKept /\ UNCHANGED <<wire, acks, sha, inflight, offset, ghosts>>
        /\ phase[t] = "new" /\ phase'[t] = "queued"
    BY <1>0, <1>1, BeginEffect
  <2>2. SoundOne(t)'
    BY <1>0, <2>1 DEF SoundOne, Windowed, Bounded, Begun, AtLast, Sliced, Slices
  <2>3. Awaited' /\ JobsSent'
    BY <1>0, <2>1 DEF Awaited, JobsSent, FileKept
  <2> QED BY <2>1, <2>2, <2>3, OthersSound
<1>2. CASE Hash(t)
  <2>1. /\ OthersKept(t) /\ FileKept /\ UNCHANGED <<wire, acks, size, inflight, offset, ghosts>>
        /\ phase[t] = "queued" /\ phase'[t] = "stream" /\ sha'[t] = src /\ src \in Version
    BY <1>0, <1>2, HashEffect DEF Typed, TypeOK
  <2>2. SoundOne(t)'
    BY <1>0, <2>1 DEF SoundOne, Windowed, Bounded, Begun, AtLast, Sliced, Slices
  <2>3. Awaited' /\ JobsSent'
    BY <1>0, <2>1 DEF Awaited, JobsSent, FileKept
  <2> QED BY <2>1, <2>2, <2>3, OthersSound
<1>3. CASE Read(t) \/ ReadLast(t)
  <2>1. PICK eof \in BOOLEAN :
          /\ IF eof THEN ~ More(t) /\ inflight[t] = {} ELSE More(t)
          /\ offset'[t] = IF eof THEN offset[t] ELSE offset[t] + 1
          /\ \/ /\ phase'[t] = "failed" /\ inflight'[t] = {}
                /\ acks' = {r \in acks : r.slice \notin inflight[t]}
             \/ /\ phase'[t] = IF eof THEN "final" ELSE "stream"
                /\ inflight'[t] = inflight[t] \cup {NextSlice(t, eof)}
                /\ acks' = acks
    BY <1>0, <1>3, ReadStepEffect
  <2>2. /\ OthersKept(t) /\ FileKept /\ UNCHANGED <<wire, size, sha, ghosts>>
        /\ phase[t] = "stream"
    BY <1>0, <1>3, ReadStepEffect
  <2>3. /\ NextSlice(t, eof).xfer = t /\ NextSlice(t, eof).eof = eof
        /\ NextSlice(t, eof).off = offset[t]
    BY DEF NextSlice
  <2>4. Windowed(t)'
    BY <1>0, <2>1, <2>2, <2>3 DEF SoundOne, Windowed
  <2>5. Bounded(t)' /\ Begun(t)'
    BY <1>0, <2>1, <2>2 DEF SoundOne, Bounded, Begun, More
  <2>6. AtLast(t)'
    <3>1. CASE eof
      <4>1. \A m \in {NextSlice(t, eof)} : m.eof
        BY <2>3, <3>1
      <4>2. /\ phase'[t] = "failed" \/ inflight'[t] = {NextSlice(t, eof)}
            /\ offset'[t] = offset[t] /\ size' = size /\ ~ offset[t] + 1 < size[t]
        BY <2>1, <2>2, <3>1 DEF More
      <4> QED BY <1>0, <4>1, <4>2 DEF AtLast
    <3>2. CASE ~ eof
      BY <2>1, <3>2 DEF AtLast
    <3> QED BY <3>1, <3>2
  <2>10. Sliced(t)'
    <3>1. \A m \in Slices(t) : ~ m.eof /\ m.off < offset[t] /\ m.off \in Nat
      BY <1>0, <2>2, SliceFacts DEF SoundOne, Sliced, Slices
    <3>2. \A m, n \in Slices(t) : n.off = m.off => n = m
      BY <1>0 DEF SoundOne, Sliced
    <3>3. Slices(t)' \subseteq Slices(t) \cup {NextSlice(t, eof)}
      BY <2>1, <2>2 DEF Slices
    <3>4. NextSlice(t, eof) \in Slices(t)' => \/ NextSlice(t, eof) \in Slices(t)
                                             \/ phase'[t] = IF eof THEN "final" ELSE "stream"
      BY <2>1, <2>2 DEF Slices
    <3>5. \A m, n \in Slices(t)' : n.off = m.off => n = m
      BY <1>0, <2>3, <3>1, <3>2, <3>3
    <3>6. \A m \in Slices(t)' : \/ m \in Slices(t)
                                \/ /\ m.off = offset[t] /\ m.eof = eof
                                   /\ phase'[t] = IF eof THEN "final" ELSE "stream"
      BY <2>3, <3>3, <3>4
    <3>7. ASSUME NEW m \in Slices(t)'
          PROVE  /\ ~ m.eof => m.off < offset'[t]
                 /\ m.eof => m.off = offset'[t] /\ phase'[t] \in {"final", "done", "failed"}
      BY <1>0, <2>1, <3>1, <3>6
    <3> QED BY <3>5, <3>7 DEF Sliced
  <2>7. \A r \in acks' : r \in acks /\ (r.slice \in inflight'[t] \/ r.slice \notin inflight[t])
    BY <2>1
  <2>8. Awaited'
    <3> SUFFICES ASSUME NEW r \in acks'
                 PROVE  r.slice \in inflight'[r.slice.xfer] /\ r.slice \in wire'
      BY DEF Awaited
    <3>1. r \in acks /\ r.slice \in inflight[r.slice.xfer] /\ r.slice \in wire
          /\ r.slice.xfer \in Transfer
      BY <1>0, <2>7, SliceFacts DEF Awaited
    <3>2. CASE r.slice.xfer = t
      BY <2>2, <2>7, <3>1, <3>2
    <3>3. CASE r.slice.xfer # t
      BY <2>2, <3>1, <3>3 DEF OthersKept
    <3> QED BY <3>2, <3>3
  <2>9. JobsSent'
    BY <1>0, <2>2 DEF JobsSent, FileKept
  <2> QED BY <2>2, <2>4, <2>5, <2>6, <2>8, <2>9, <2>10, OthersSound DEF SoundOne
<1>4. ASSUME NEW m \in inflight[t], Transmit(t, m) 
      PROVE  Awaited' /\ JobsSent' /\ \A u \in Transfer : SoundOne(u)'
  <2>1. /\ UNCHANGED <<src, dest, jobs, acks, sender, ghosts>> /\ Active(t)
        /\ wire' = wire \cup {m} /\ m.xfer = t
    BY <1>0, <1>4, TransmitEffect DEF SoundOne, Windowed
  <2>2. \A u \in Transfer : SoundOne(u)'
    <3>1. \A u \in Transfer : Slices(u)' = Slices(u)
      BY <1>4, <2>1 DEF Slices, sender
    <3> QED BY <1>0, <2>1, <3>1 DEF Sound, SoundOne, Windowed, Bounded, Begun, AtLast, Sliced,
                                    sender, Active
  <2> QED BY <1>0, <2>1, <2>2 DEF Awaited, JobsSent, sender
<1>5. CASE SliceTimeout(t) \/ \E m \in inflight[t] : \E ok \in BOOLEAN : Collect(t, m, ok)
  <2>1. PICK S \in SUBSET Slice :
          /\ OthersKept(t) /\ FileKept /\ UNCHANGED <<wire, size, sha, offset>>
          /\ Active(t)
          /\ inflight'[t] = inflight[t] \ S
          /\ acks' = {r \in acks : r.slice \notin S}
          /\ \/ phase'[t] = "failed" /\ S = inflight[t]
             \/ phase'[t] = phase[t]
             \/ phase'[t] = "done" /\ \E m \in inflight[t] : m.eof /\ S = {m}
    <3>1. CASE SliceTimeout(t)
      BY <1>0, <3>1, TimeoutEffect
    <3>2. ASSUME NEW m \in inflight[t], \E ok \in BOOLEAN : Collect(t, m, ok)
          PROVE  \E S \in SUBSET Slice :
                  /\ OthersKept(t) /\ FileKept /\ UNCHANGED <<wire, size, sha, offset>>
                  /\ Active(t)
                  /\ inflight'[t] = inflight[t] \ S
                  /\ acks' = {r \in acks : r.slice \notin S}
                  /\ \/ phase'[t] = "failed" /\ S = inflight[t]
                     \/ phase'[t] = phase[t]
                     \/ phase'[t] = "done" /\ \E x \in inflight[t] : x.eof /\ S = {x}
      <4>1. {m} \in SUBSET Slice
        BY <1>0
      <4>2. inflight[t] \ inflight[t] = {}
        OBVIOUS
      <4> QED BY <1>0, <3>2, <4>1, <4>2, CollectEffect
    <3> QED BY <1>5, <3>1, <3>2
  <2>2. phase[t] \in {"stream", "final"}
    <3>1. inflight[t] # {}
      BY <1>0, <1>5, TimeoutEffect
    <3> QED BY <1>0, <3>1 DEF SoundOne, Windowed
  <2>3. phase'[t] = "done" => inflight'[t] = {}
    <3> SUFFICES ASSUME phase'[t] = "done", NEW m \in inflight[t], m.eof, S = {m}
                 PROVE  inflight[t] \subseteq {m}
      BY <2>1, <2>2
    <3>1. phase[t] = "final" /\ m.off = offset[t]
      BY <1>0, <2>2 DEF SoundOne, Sliced, Slices
    <3>2. \A x \in inflight[t] : x.eof /\ x.off = offset[t]
      BY <1>0, <3>1 DEF SoundOne, AtLast, Sliced, Slices
    <3> QED BY <1>0, <3>1, <3>2 DEF SoundOne, Sliced, Slices
  <2>4. Windowed(t)' /\ Bounded(t)' /\ Begun(t)' /\ AtLast(t)'
    BY <1>0, <2>1, <2>2, <2>3 DEF SoundOne, Windowed, Bounded, Begun, AtLast
  <2>5. Sliced(t)'
    <3>1. Slices(t)' \subseteq Slices(t)
      BY <2>1 DEF Slices
    <3> QED BY <1>0, <2>1, <3>1 DEF SoundOne, Sliced
  <2>6. Awaited'
    <3> SUFFICES ASSUME NEW r \in acks'
                 PROVE  r.slice \in inflight'[r.slice.xfer] /\ r.slice \in wire'
      BY DEF Awaited
    <3>1. /\ r \in acks /\ r.slice \in inflight[r.slice.xfer] /\ r.slice \in wire
          /\ r.slice.xfer \in Transfer /\ r.slice \notin S
      BY <1>0, <2>1, SliceFacts DEF Awaited
    <3> QED BY <2>1, <3>1 DEF OthersKept
  <2>7. JobsSent'
    BY <1>0, <2>1 DEF JobsSent, FileKept
  <2> QED BY <2>1, <2>4, <2>5, <2>6, <2>7, OthersSound DEF SoundOne
<1> QED BY <1>1, <1>2, <1>3, <1>4, <1>5 DEF StreamFile

LEMMA ReceiverSound ==
  ASSUME Sound, Edit \/ ReceiveChunk, Typed'
  PROVE  Sound'
<1>1. UNCHANGED sender /\ wire' = wire
  BY DEF Edit, ReceiveChunk, Receive, Refuse, Truncate, Verify
<1>2. \A u \in Transfer : SoundOne(u)'
  BY <1>1 DEF Sound, SoundOne, Windowed, Bounded, Begun, AtLast, Sliced, Slices, sender
<1>3. Awaited' /\ JobsSent'
  <2>1. Awaited /\ JobsSent /\ wire \subseteq Slice
    BY DEF Sound, Typed, TypeOK
  <2>2. CASE Edit
    BY <1>1, <2>1, <2>2 DEF Edit, receiver, sender, Awaited, JobsSent
  <2>3. ASSUME NEW m \in wire, Receive(m) \/ Refuse(m) PROVE Awaited' /\ JobsSent'
    BY <1>1, <2>1, <2>3 DEF Receive, Refuse, Ack, sender, Awaited, JobsSent
  <2>4. ASSUME NEW j \in jobs, Truncate(j) \/ Verify(j) PROVE Awaited' /\ JobsSent'
    <3>1. acks' = acks \/ \E ok : Ack(j.slice, ok)
      BY <2>4 DEF Truncate, Verify
    <3>2. Awaited'
      BY <1>1, <2>1, <3>1 DEF Ack, sender, Awaited, JobsSent
    <3>3. \A k \in jobs' : \E i \in jobs : k.slice = i.slice
      BY <2>4 DEF Truncate, Verify, Sound, Typed, TypeOK
    <3>4. JobsSent'
      BY <1>1, <2>1, <3>3 DEF JobsSent
    <3> QED BY <3>2, <3>4
  <2> QED BY <2>2, <2>3, <2>4 DEF ReceiveChunk
<1> QED BY <1>2, <1>3 DEF Sound

LEMMA NextSound == Sound /\ [Next]_vars => Sound'
<1> SUFFICES ASSUME Sound, [Next]_vars PROVE Sound'
  OBVIOUS
<1>1. Typed'
  BY NextTyped DEF Sound
<1>2. CASE UNCHANGED vars
  BY <1>1, <1>2 DEF vars, sender, receiver, Sound, SoundOne, Windowed, Bounded, Begun, AtLast, Sliced,
                    Slices, Awaited, JobsSent
<1> QED BY <1>1, <1>2, SenderSound, ReceiverSound DEF Next, Idle

-----------------------------------------------------------------------------
(* What the destination holds, while no other transfer writes to it *)

Acked(m) == [slice |-> m, ok |-> TRUE] \in acks
Alone(t) == t \notin touched /\ phase[t] \in {"stream", "final", "done"}
AllHeld(t) == \A m \in wire : m.xfer = t => HoldsSlice(dest, m)

(* A slice acknowledged, but for the last one, is in the file. *)
Landed(t) ==
  \A m \in wire : m.xfer = t /\ ~ m.eof /\ (m \notin inflight[t] \/ Acked(m)) => HoldsSlice(dest, m)

(* When the last slice is handled every one is in the file, and the file ends
   with it once it is cut. *)
JobsLand(t) ==
  \A j \in jobs : j.slice.xfer = t =>
     AllHeld(t) /\ (j.pc = "verify" => Len(dest) = EndOf(j.slice))

(* Once the last slice is acknowledged the file is the one that was hashed, and
   the slices that are still on their way change nothing in it. *)
Settled(t) ==
  /\ dest = sha[t] /\ AllHeld(t)
  /\ \A m \in wire : m.xfer = t /\ m.eof => Len(dest) = EndOf(m)
Settles(t) ==
  phase[t] = "done" \/ (\E m \in wire : m.xfer = t /\ m.eof /\ Acked(m)) => Settled(t)

Lands(t) == Alone(t) => Landed(t) /\ JobsLand(t) /\ Settles(t)
Landing == \A t \in Transfer : Lands(t)

(* A step of transfer t leaves the others as they were. *)
LEMMA OthersLand ==
  ASSUME Sound, Landing, NEW t \in Transfer, OthersKept(t), UNCHANGED <<dest, jobs, touched>>,
         acks' \subseteq acks, \A m \in wire' : m \in wire \/ m.xfer = t, wire \subseteq wire'
  PROVE  \A u \in Transfer \ {t} : Lands(u)'
<1> SUFFICES ASSUME NEW u \in Transfer \ {t}, Alone(u)'
             PROVE  Landed(u)' /\ JobsLand(u)' /\ Settles(u)'
  BY DEF Lands
<1>1. Landed(u) /\ JobsLand(u) /\ Settles(u)
  BY DEF Landing, Lands, Alone, OthersKept
<1>2. \A m \in wire' : m.xfer = u => m \in wire
  OBVIOUS
<1> QED BY <1>1, <1>2 DEF OthersKept, Landed, JobsLand, Settles, Settled, AllHeld, Acked

(* The last slice of a transfer, on the wire or awaited, is the only one. *)
LEMMA OneLast ==
  ASSUME Sound, NEW t \in Transfer, NEW m \in wire, m.xfer = t, m.eof
  PROVE  /\ phase[t] \in {"final", "done", "failed"} /\ m.off = offset[t] /\ offset[t] \in Nat
         /\ \A n \in inflight[t] : n = m
         /\ \A n \in wire : n.xfer = t =>
              /\ n.eof => n = m
              /\ ~ n.eof => n.off < m.off /\ n.off \in Nat /\ n \notin inflight[t]
<1>1. SoundOne(t) /\ inflight[t] \subseteq Slice /\ wire \subseteq Slice /\ offset[t] \in Nat
  BY DEF Sound, Typed, TypeOK
<1>2. phase[t] \in {"final", "done", "failed"} /\ m.off = offset[t] /\ m \in Slices(t)
  BY <1>1 DEF SoundOne, Sliced, Slices
<1>3. \A n \in Slices(t) : /\ n.eof => n = m
                           /\ ~ n.eof => n.off < m.off
  BY <1>1, <1>2 DEF SoundOne, Sliced
<1>4. \A n \in inflight[t] : n.eof /\ n \in Slices(t)
  BY <1>1, <1>2 DEF SoundOne, Windowed, AtLast, Slices
<1>5. \A n \in wire : n.off \in Nat /\ n.eof \in BOOLEAN
  BY <1>1, SliceFacts
<1> QED BY <1>1, <1>2, <1>3, <1>4, <1>5 DEF Slices

LEMMA SenderLands ==
  ASSUME Sound, Landing, NEW t \in Transfer, Begin(t) \/ StreamFile(t)
  PROVE  Landing'
<1>0. /\ Typed /\ Awaited /\ JobsSent /\ SoundOne(t) /\ Lands(t)
      /\ inflight[t] \subseteq Slice /\ wire \subseteq Slice
  BY DEF Sound, Landing, Typed, TypeOK
<1>1. CASE Begin(t)
  <2>1. /\ OthersKept(t) /\ FileKept /\ UNCHANGED <<wire, acks, ghosts>> /\ phase'[t] = "queued"
    BY <1>0, <1>1, BeginEffect
  <2>2. Lands(t)' BY <2>1 DEF Lands, Alone
  <2> QED BY <2>1, <2>2, OthersLand DEF Landing, FileKept, ghosts
<1>2. CASE Hash(t)
  <2>1. /\ OthersKept(t) /\ FileKept /\ UNCHANGED <<wire, acks, inflight, ghosts>>
        /\ phase[t] = "queued" /\ phase'[t] = "stream"
    BY <1>0, <1>2, HashEffect
  <2>2. \A m \in wire : m.xfer # t
    BY <1>0, <2>1 DEF SoundOne, Begun
  <2>3. Lands(t)'
    BY <1>0, <2>1, <2>2 DEF Lands, Landed, JobsLand, Settles, JobsSent, FileKept
  <2> QED BY <2>1, <2>3, OthersLand DEF Landing, FileKept, ghosts
<1>3. CASE Read(t) \/ ReadLast(t)
  <2>1. /\ OthersKept(t) /\ FileKept /\ UNCHANGED <<wire, sha, ghosts>> /\ phase[t] = "stream"
        /\ \/ phase'[t] = "failed" /\ acks' \subseteq acks
           \/ /\ phase'[t] \in {"stream", "final"} /\ inflight[t] \subseteq inflight'[t]
              /\ acks' = acks
    BY <1>0, <1>3, ReadStepEffect
  <2>2. CASE phase'[t] = "failed"
    BY <2>1, <2>2, OthersLand DEF Landing, Lands, Alone, FileKept, ghosts
  <2>3. CASE phase'[t] # "failed"
    <3>1. \A m \in wire : m.xfer = t => ~ m.eof
      BY <2>1, OneLast
    <3>2. \A j \in jobs : j.slice.xfer # t
      BY <1>0, <3>1 DEF JobsSent
    <3>3. (Landed(t)' /\ JobsLand(t)' /\ Settles(t)') \/ ~ Alone(t)'
      BY <1>0, <2>1, <2>3, <3>1, <3>2
         DEF Lands, Alone, Landed, JobsLand, Settles, FileKept, ghosts, Acked
    <3> QED BY <2>1, <3>3, OthersLand DEF Landing, Lands, FileKept, ghosts
  <2> QED BY <2>2, <2>3
<1>4. ASSUME NEW m \in inflight[t], Transmit(t, m) PROVE Landing'
  <2>1. /\ UNCHANGED <<src, dest, jobs, acks, sender, ghosts>> /\ Active(t)
        /\ m \notin wire /\ wire' = wire \cup {m} /\ m.xfer = t
    BY <1>0, <1>4, TransmitEffect DEF SoundOne, Windowed
  <2>2. OthersKept(t)
    BY <2>1 DEF OthersKept, sender
  <2>3. \A n \in wire : n.xfer = t => ~ n.eof
    BY <1>4, <2>1, OneLast
  <2>4. ~ Acked(m)
    BY <1>0, <2>1 DEF Awaited, Acked
  <2>5. \A j \in jobs : j.slice.xfer # t
    BY <1>0, <2>3 DEF JobsSent
  <2>6. Lands(t)'
    <3> SUFFICES ASSUME Alone(t)' PROVE Landed(t)' /\ JobsLand(t)' /\ Settles(t)'
      BY DEF Lands
    <3>1. Landed(t)
      BY <1>0, <2>1 DEF Lands, Alone, sender, ghosts
    <3>2. Landed(t)'
      BY <1>4, <2>1, <2>4, <3>1 DEF Landed, Acked, sender
    <3>3. JobsLand(t)' /\ Settles(t)'
      BY <2>1, <2>3, <2>4, <2>5 DEF JobsLand, Settles, Acked, sender, Active
    <3> QED BY <3>2, <3>3
  <2> QED BY <2>1, <2>2, <2>6, OthersLand DEF Landing, ghosts
<1>5. CASE SliceTimeout(t)
  <2>1. /\ OthersKept(t) /\ FileKept /\ UNCHANGED <<wire, touched>> /\ phase'[t] = "failed"
        /\ acks' \subseteq acks
    BY <1>0, <1>5, TimeoutEffect
  <2> QED BY <2>1, OthersLand DEF Landing, Lands, Alone, FileKept
<1>6. ASSUME NEW m \in inflight[t], \E ok \in BOOLEAN : Collect(t, m, ok) PROVE Landing'
  <2>1. /\ OthersKept(t) /\ FileKept /\ UNCHANGED <<wire, sha, ghosts>> /\ acks' \subseteq acks
        /\ \/ /\ Acked(m) /\ inflight'[t] = inflight[t] \ {m}
              /\ phase'[t] = IF m.eof THEN "done" ELSE phase[t]
           \/ phase'[t] = "failed"
    BY <1>0, <1>6, CollectEffect DEF Acked
  <2>2. CASE phase'[t] = "failed"
    BY <2>1, <2>2, OthersLand DEF Landing, Lands, Alone, FileKept, ghosts
  <2>3. CASE phase'[t] # "failed"
    <3>1. m.xfer = t /\ phase[t] \in {"stream", "final"}
      BY <1>0, <1>6 DEF SoundOne, Windowed
    <3>2. m \in wire
      BY <1>0, <2>1, <2>3, <3>1 DEF Acked, Awaited
    <3>3. ASSUME Alone(t)' PROVE Landed(t)' /\ JobsLand(t)' /\ Settles(t)'
      <4>1. Landed(t) /\ JobsLand(t) /\ Settles(t)
        BY <1>0, <2>1, <3>1, <3>3 DEF Lands, Alone, ghosts
      <4>2. Landed(t)' /\ JobsLand(t)'
        BY <2>1, <2>3, <3>1, <4>1 DEF Landed, JobsLand, AllHeld, Acked, FileKept
      <4>3. Settles(t)'
        BY <2>1, <2>3, <3>1, <3>2, <4>1 DEF Settles, Settled, AllHeld, Acked, FileKept
      <4> QED BY <4>2, <4>3
    <3> QED BY <2>1, <3>3, OthersLand DEF Landing, Lands, FileKept, ghosts
  <2> QED BY <2>2, <2>3
<1> QED BY <1>1, <1>2, <1>3, <1>4, <1>5, <1>6 DEF StreamFile

(* Whoever writes, the transfers that were not alone are not, and those that
   stay alone are the writer's. *)
LEMMA TouchFacts ==
  ASSUME Sound, NEW u \in Transfer, Touch(u), phase' = phase
  PROVE  \A t \in Transfer : Alone(t)' => t = u /\ Alone(t)
  BY DEF Touch, Alone, Sound, Typed, TypeOK

LEMMA ReceiveLands ==
  ASSUME Sound, Landing, NEW m \in wire, Receive(m)
  PROVE  Landing'
<1> DEFINE t == m.xfer
<1>1. /\ m \in Slice /\ t \in Transfer /\ dest \in File /\ wire \subseteq Slice
      /\ SoundOne(t) /\ offset[t] \in Nat
      /\ acks \subseteq [slice: Slice, ok: BOOLEAN]
  BY SliceFacts DEF Sound, Typed, TypeOK
<1>2. /\ UNCHANGED <<wire, sender>> /\ Touch(t) /\ phase' = phase /\ inflight' = inflight
      /\ sha' = sha
      /\ dest' = WriteAt(dest, m.off, m.data)
      /\ jobs' \subseteq jobs \cup {[slice |-> m, pc |-> "truncate"]}
      /\ ~ m.eof => jobs' = jobs
      /\ acks' \subseteq acks \cup {[slice |-> m, ok |-> TRUE]} /\ (m.eof => acks' = acks)
  BY DEF Receive, Ack, sender
<1>3. /\ HoldsSlice(dest', m)
      /\ \A n \in wire : n.off # m.off /\ HoldsSlice(dest, n) => HoldsSlice(dest', n)
      /\ HoldsSlice(dest, m) => dest' = dest
  BY <1>1, <1>2, WriteFacts
<1> SUFFICES ASSUME Alone(t), Alone(t)'
             PROVE  Landed(t)' /\ JobsLand(t)' /\ Settles(t)'
  BY <1>1, <1>2, TouchFacts DEF Landing, Lands
<1>4. Landed(t) /\ JobsLand(t) /\ Settles(t)
  BY <1>1 DEF Landing, Lands
<1>5. \A n \in wire : n.xfer = t /\ n # m => n.off # m.off
  BY <1>1 DEF SoundOne, Sliced, Slices
<1>6. \A n \in wire : HoldsSlice(dest, n) /\ n.xfer = t => HoldsSlice(dest', n)
  BY <1>3, <1>5
<1>7. Landed(t)'
  BY <1>2, <1>3, <1>4, <1>6 DEF Landed, Acked
<1>8. JobsLand(t)'
  <2> SUFFICES ASSUME NEW j \in jobs', j.slice.xfer = t
               PROVE  AllHeld(t)' /\ (j.pc = "verify" => Len(dest') = EndOf(j.slice))
    BY DEF JobsLand
  <2>1. CASE j \in jobs
    BY <1>2, <1>3, <1>4, <2>1 DEF JobsLand, AllHeld
  <2>2. CASE j \notin jobs
    <3>1. j.pc = "truncate" /\ m.eof
      BY <1>2, <2>2
    <3>2. \A n \in wire : n.xfer = t /\ n # m => HoldsSlice(dest, n)
      BY <1>1, <1>4, <3>1, OneLast DEF Landed
    <3>3. AllHeld(t)'
      BY <1>2, <1>3, <1>6, <3>2 DEF AllHeld
    <3> QED BY <3>1, <3>3
  <2> QED BY <2>1, <2>2
<1>9. Settles(t)'
  <2> SUFFICES ASSUME phase[t] = "done" \/ \E n \in wire : n.xfer = t /\ n.eof /\ Acked(n)'
               PROVE  Settled(t)'
    BY <1>2 DEF Settles
  <2>1. Settled(t)
    BY <1>2, <1>4 DEF Settles, Acked
  <2>2. dest' = dest
    BY <1>3, <2>1 DEF Settled, AllHeld
  <2> QED BY <1>2, <2>1, <2>2 DEF Settled, AllHeld
<1> QED BY <1>7, <1>8, <1>9

LEMMA TruncateLands ==
  ASSUME Sound, Landing, NEW j \in jobs, Truncate(j)
  PROVE  Landing'
<1> DEFINE m == j.slice
           t == m.xfer
<1>1. /\ m \in wire /\ m.eof /\ m \in Slice /\ t \in Transfer /\ dest \in File
      /\ wire \subseteq Slice /\ EndOf(m) \in Nat
  BY SliceFacts DEF Sound, JobsSent, Typed, TypeOK
<1>2. /\ UNCHANGED <<wire, sender, acks>> /\ Touch(t) /\ phase' = phase /\ inflight' = inflight
      /\ sha' = sha
      /\ dest' = Resize(dest, EndOf(m))
      /\ \A k \in jobs' : k.slice = m \/ k \in jobs
  BY DEF Truncate, sender, EndOf, Sound, Typed, TypeOK
<1> SUFFICES ASSUME Alone(t), Alone(t)'
             PROVE  Landed(t)' /\ JobsLand(t)' /\ Settles(t)'
  BY <1>1, <1>2, TouchFacts DEF Landing, Lands
<1>3. JobsLand(t) /\ Settles(t) /\ AllHeld(t)
  BY <1>1 DEF Landing, Lands, JobsLand
<1>4. /\ Len(dest') = EndOf(m)
      /\ Len(dest) = EndOf(m) => dest' = dest
  BY <1>1, <1>2, ResizeFacts
<1>5. \A n \in wire : n.xfer = t => /\ n.eof => n = m
                                    /\ ~ n.eof => n.off < m.off
  BY <1>1, OneLast
<1>6. AllHeld(t)'
  <2> SUFFICES ASSUME NEW n \in wire, n.xfer = t PROVE HoldsSlice(dest', n)
    BY <1>2 DEF AllHeld
  <2>1. HoldsSlice(dest, n) /\ n \in Slice
    BY <1>1, <1>3 DEF AllHeld
  <2>2. m.off \in Nat /\ n.off \in Nat /\ Len(m.data) \in {0, 1}
        /\ (Len(m.data) = 0 => m.data = <<>>)
    BY <1>1, <2>1, SliceFacts
  <2>3. n.data = <<>> \/ n.off < EndOf(m)
    <3>1. CASE n.eof
      BY <1>5, <2>2, <3>1 DEF EndOf
    <3>2. CASE ~ n.eof
      BY <1>5, <2>2, <3>2 DEF EndOf
    <3> QED BY <3>1, <3>2
  <2> QED BY <1>1, <1>2, <2>1, <2>3, CutFacts
<1>7. Landed(t)'
  BY <1>6 DEF Landed, AllHeld
<1>8. JobsLand(t)'
  <2>1. \A k \in jobs' : k.slice.xfer = t => k.slice = m
    BY <1>2, <1>5 DEF Sound, JobsSent
  <2> QED BY <1>4, <1>6, <2>1 DEF JobsLand
<1>9. Settles(t)'
  BY <1>1, <1>2, <1>3, <1>4, <1>6 DEF Settles, Settled, Acked
<1> QED BY <1>7, <1>8, <1>9

LEMMA VerifyLands ==
  ASSUME Sound, Landing, NEW j \in jobs, Verify(j)
  PROVE  Landing'
<1> DEFINE m == j.slice
<1>1. /\ m \in wire /\ m.eof /\ m.xfer \in Transfer /\ wire \subseteq Slice
  BY SliceFacts DEF Sound, JobsSent, Typed, TypeOK
<1>2. /\ UNCHANGED <<wire, sender, dest, ghosts>> /\ jobs' \subseteq jobs /\ j.pc = "verify"
  BY DEF Verify
<1>3. \/ acks' = acks
      \/ dest = sha[m.xfer] /\ acks' = acks \cup {[slice |-> m, ok |-> TRUE]}
      \/ acks' = acks \cup {[slice |-> m, ok |-> FALSE]}
  <2>1. CASE dest = sha[m.xfer]
    <3>1. (dest = sha[m.xfer]) = TRUE BY <2>1
    <3>2. Ack(m, dest = sha[m.xfer]) BY DEF Verify
    <3>3. Ack(m, TRUE) BY <3>1, <3>2, Zenon
    <3> QED BY <2>1, <3>3, Zenon DEF Ack
  <2>2. CASE dest # sha[m.xfer]
    <3>1. (dest = sha[m.xfer]) = FALSE BY <2>2
    <3>2. Ack(m, dest = sha[m.xfer]) BY DEF Verify
    <3>3. Ack(m, FALSE) BY <3>1, <3>2, Zenon
    <3> QED BY <3>3, Zenon DEF Ack
  <2> QED BY <2>1, <2>2
<1>4. \A n : Acked(n)' => Acked(n) \/ (n = m /\ dest = sha[m.xfer])
  BY <1>3 DEF Acked
<1> SUFFICES ASSUME NEW t \in Transfer, Alone(t)
             PROVE  Landed(t)' /\ JobsLand(t)' /\ Settles(t)'
  BY <1>2 DEF Landing, Lands, Alone, sender, ghosts
<1>5. Landed(t) /\ JobsLand(t) /\ Settles(t)
  BY DEF Landing, Lands
<1>6. Landed(t)' /\ JobsLand(t)'
  BY <1>1, <1>2, <1>4, <1>5 DEF Landed, JobsLand, AllHeld, sender
<1>7. Settles(t)'
  <2> SUFFICES ASSUME phase[t] = "done" \/ \E n \in wire : n.xfer = t /\ n.eof /\ Acked(n)'
               PROVE  Settled(t)
    BY <1>2 DEF Settles, Settled, AllHeld, sender
  <2>1. CASE phase[t] = "done" \/ \E n \in wire : n.xfer = t /\ n.eof /\ Acked(n)
    BY <1>5, <2>1 DEF Settles
  <2>2. CASE m.xfer = t /\ dest = sha[t]
    <3>1. AllHeld(t) /\ Len(dest) = EndOf(m)
      BY <1>2, <1>5, <2>2 DEF JobsLand
    <3>2. \A n \in wire : n.xfer = t /\ n.eof => n = m
      BY <1>1, <2>2, OneLast
    <3> QED BY <2>2, <3>1, <3>2 DEF Settled
  <2> QED BY <1>4, <2>1, <2>2
<1> QED BY <1>6, <1>7

LEMMA NextLands == Sound /\ Landing /\ [Next]_vars => Landing'
<1> SUFFICES ASSUME Sound, Landing, [Next]_vars PROVE Landing'
  OBVIOUS
<1>1. ASSUME NEW m \in wire, Refuse(m) PROVE Landing'
  <2>1. UNCHANGED <<wire, sender, dest, jobs, touched>> /\ \A n : Acked(n)' => Acked(n)
    BY <1>1 DEF Refuse, Ack, Acked
  <2> QED BY <2>1 DEF Landing, Lands, Alone, Landed, JobsLand, Settles, Settled, AllHeld, sender
<1>2. CASE Edit \/ Idle \/ UNCHANGED vars
  <2>1. UNCHANGED <<wire, sender, acks, dest, jobs, touched>>
    BY <1>2 DEF Edit, Idle, vars, receiver, ghosts
  <2> QED BY <2>1 DEF Landing, Lands, Alone, Landed, JobsLand, Settles, Settled, AllHeld, sender,
                      Acked
<1>3. CASE ReceiveChunk
  BY <1>1, <1>3, ReceiveLands, TruncateLands, VerifyLands DEF ReceiveChunk
<1> QED BY <1>2, <1>3, SenderLands DEF Next

LEMMA InitLands == Init => Landing
  BY DEF Init, Landing, Lands, Alone

-----------------------------------------------------------------------------
(* A transfer fails only for a reason *)

Quiet(t) == t \notin disturbed /\ Active(t)

(* While nothing disturbs a transfer, what it has read is the source file. *)
Steady(t) ==
  Quiet(t) =>
    /\ size[t] = Len(src)
    /\ phase[t] # "queued" => sha[t] = src
    /\ \A m \in Slices(t) : m.data = IF Len(src) = 0 THEN <<>> ELSE <<src[m.off + 1]>>
    /\ \A k \in 0..(offset[t] - 1) : \E m \in Slices(t) : m.off = k

(* An error is a reply to a transfer that was disturbed or not alone. *)
Blamed == \A r \in acks : ~ r.ok => r.slice.xfer \in disturbed \cup touched

Reasons == (\A t \in Transfer : Steady(t)) /\ Blamed /\ FailsForAReason

(* A step of transfer t that sends nothing leaves the others steady. *)
LEMMA OthersSteady ==
  ASSUME \A u \in Transfer : Steady(u), NEW t \in Transfer, OthersKept(t), src' = src,
         wire' = wire, disturbed \subseteq disturbed'
  PROVE  \A u \in Transfer \ {t} : Steady(u)'
  BY DEF Steady, Quiet, Active, OthersKept, Slices

(* The file a steady transfer has left when its last slice is hashed. *)
LEMMA SteadyFile ==
  ASSUME Sound, Landing, NEW j \in jobs, j.pc = "verify", NEW t \in Transfer, t = j.slice.xfer,
         j.slice \in inflight[t], t \notin disturbed, t \notin touched, Steady(t)
  PROVE  dest = sha[t]
<1> DEFINE m == j.slice
<1>1. /\ m \in wire /\ m.eof /\ m \in Slice /\ src \in Seq(Block) /\ dest \in File
      /\ wire \subseteq Slice /\ SoundOne(t) /\ m \in Slices(t)
      /\ offset[t] \in Nat /\ size[t] \in Nat
  <2>1. Typed /\ SoundOne(t) /\ m \in wire /\ m.eof
    BY DEF Sound, JobsSent
  <2>2. src \in Seq(Block) /\ dest \in File /\ wire \subseteq Slice
    BY <2>1, VersionType DEF Typed, TypeOK
  <2>3. offset[t] \in Nat /\ size[t] \in Nat
    BY <2>1 DEF Typed, TypeOK
  <2>4. m \in Slices(t)
    BY DEF Slices
  <2> QED BY <2>1, <2>2, <2>3, <2>4
<1>2. phase[t] = "final"
  BY <1>1, OneLast DEF SoundOne, Windowed
<1>3. AllHeld(t) /\ Len(dest) = EndOf(m)
  BY <1>2 DEF Landing, Lands, Alone, JobsLand
<1>4. /\ size[t] = Len(src) /\ sha[t] = src /\ Len(src) \in Nat
      /\ \A n \in Slices(t) : n.data = IF Len(src) = 0 THEN <<>> ELSE <<src[n.off + 1]>>
      /\ \A k \in 0..(offset[t] - 1) : \E n \in Slices(t) : n.off = k
  BY <1>1, <1>2, LenProperties DEF Steady, Quiet, Active
<1>5. m.off = offset[t] /\ offset[t] + 1 >= size[t] /\ (offset[t] = 0 \/ offset[t] < size[t])
  BY <1>1, <1>2, OneLast DEF SoundOne, AtLast, Bounded
<1>6. \A k \in 0..offset[t] : \E n \in wire : n \in Slices(t) /\ n.xfer = t /\ n.off = k
  <2> SUFFICES ASSUME NEW k \in 0..offset[t]
               PROVE  \E n \in wire : n \in Slices(t) /\ n.xfer = t /\ n.off = k
    OBVIOUS
  <2>1. CASE k = offset[t]
    BY <1>1, <1>5, <2>1
  <2>2. CASE k # offset[t]
    <3>0. k \in 0..(offset[t] - 1)
      BY <1>1, <2>2
    <3>1. PICK n \in Slices(t) : n.off = k
      BY <1>4, <3>0
    <3>2. n \notin inflight[t]
      BY <1>1, <1>5, <2>2, <3>1, OneLast
    <3> QED BY <3>1, <3>2 DEF Slices
  <2> QED BY <2>1, <2>2
<1>7. Len(dest) = Len(src)
  <2>1. CASE Len(src) = 0
    <3>1. m.data = <<>> /\ offset[t] = 0
      BY <1>1, <1>4, <1>5, <2>1
    <3> QED BY <1>3, <1>5, <2>1, <3>1, EmptySeq DEF EndOf
  <2>2. CASE Len(src) # 0
    <3>0. m.data = <<src[m.off + 1]>>
      BY <1>1, <1>4, <2>2
    <3>1. m.data # <<>> /\ Len(src) = offset[t] + 1
      <4>1. Len(src) = offset[t] + 1
        BY <1>1, <1>4, <1>5, <2>2
      <4>2. <<src[m.off + 1]>> # <<>>
        OBVIOUS
      <4> QED BY <3>0, <4>1, <4>2
    <3>2. Len(m.data) = 1
      BY <1>1, <3>1, SliceFacts
    <3> QED BY <1>3, <1>5, <3>1, <3>2 DEF EndOf
  <2> QED BY <2>1, <2>2
<1>8. ASSUME NEW i \in 1..Len(src) PROVE dest[i] = src[i]
  <2>1. i - 1 \in 0..offset[t] /\ Len(src) # 0
    BY <1>1, <1>4, <1>5, <1>8
  <2>2. PICK n \in wire : n \in Slices(t) /\ n.xfer = t /\ n.off = i - 1
    BY <1>6, <2>1
  <2>3. n.data = <<src[i]>>
    BY <1>4, <2>1, <2>2
  <2>4. HoldsSlice(dest, n)
    BY <1>3, <2>2 DEF AllHeld
  <2> QED BY <2>2, <2>3, <2>4 DEF HoldsSlice
<1>9. src \in Seq(Block \cup {Hole}) /\ dest \in Seq(Block \cup {Hole})
  BY <1>1, SeqMonotonic DEF File
<1> QED BY <1>4, <1>7, <1>8, <1>9, SeqEqual

LEMMA SenderReasons ==
  ASSUME Sound, Reasons, NEW t \in Transfer, Begin(t) \/ StreamFile(t)
  PROVE  Reasons'
<1>0. /\ Typed /\ Awaited /\ SoundOne(t) /\ Steady(t) /\ Blamed
      /\ inflight[t] \subseteq Slice /\ wire \subseteq Slice
      /\ acks \subseteq [slice: Slice, ok: BOOLEAN]
      /\ offset[t] \in Nat /\ size[t] \in Nat /\ src \in Seq(Block) /\ Len(src) \in Nat
  BY VersionType, LenProperties DEF Sound, Reasons, Typed, TypeOK
<1>1. CASE Begin(t)
  <2>1. /\ OthersKept(t) /\ FileKept /\ UNCHANGED <<wire, acks, sha, inflight, offset, ghosts>>
        /\ phase[t] = "new" /\ phase'[t] = "queued" /\ size'[t] = Len(src)
    BY <1>0, <1>1, BeginEffect
  <2>2. Slices(t) = {} /\ Slices(t)' = {} /\ offset'[t] = 0
    BY <1>0, <2>1 DEF SoundOne, Begun, Slices
  <2>3. Steady(t)'
    BY <2>1, <2>2 DEF Steady, FileKept
  <2>4. Blamed' /\ FailsForAReason'
    BY <2>1 DEF Reasons, Blamed, FailsForAReason, OthersKept, ghosts
  <2> QED BY <2>1, <2>3, <2>4, OthersSteady DEF Reasons, FileKept, ghosts
<1>2. CASE Hash(t)
  <2>1. /\ OthersKept(t) /\ FileKept /\ UNCHANGED <<wire, acks, size, inflight, offset, ghosts>>
        /\ phase[t] = "queued" /\ phase'[t] = "stream" /\ sha'[t] = src
    BY <1>0, <1>2, HashEffect
  <2>2. Steady(t)'
    BY <1>0, <2>1 DEF Steady, Quiet, Active, Slices, FileKept, ghosts
  <2>3. Blamed' /\ FailsForAReason'
    BY <2>1 DEF Reasons, Blamed, FailsForAReason, OthersKept, ghosts
  <2> QED BY <2>1, <2>2, <2>3, OthersSteady DEF Reasons, FileKept, ghosts
<1>3. CASE Read(t) \/ ReadLast(t)
  <2>1. PICK eof \in BOOLEAN :
          /\ offset'[t] = IF eof THEN offset[t] ELSE offset[t] + 1
          /\ \/ /\ offset[t] > Len(src)
                /\ phase'[t] = "failed" /\ inflight'[t] = {}
                /\ acks' = {r \in acks : r.slice \notin inflight[t]}
             \/ /\ phase'[t] = IF eof THEN "final" ELSE "stream"
                /\ inflight'[t] = inflight[t] \cup {NextSlice(t, eof)}
                /\ acks' = acks
    BY <1>0, <1>3, ReadStepEffect
  <2>2. /\ OthersKept(t) /\ FileKept /\ UNCHANGED <<wire, size, sha, ghosts>>
        /\ phase[t] = "stream"
    BY <1>0, <1>3, ReadStepEffect
  <2>3. t \notin disturbed =>
          /\ size[t] = Len(src) /\ sha[t] = src
          /\ \A m \in Slices(t) : m.data = IF Len(src) = 0 THEN <<>> ELSE <<src[m.off + 1]>>
          /\ \A k \in 0..(offset[t] - 1) : \E m \in Slices(t) : m.off = k
    BY <1>0, <2>2 DEF Steady, Quiet, Active
  <2>4. t \notin disturbed => ~ offset[t] > Len(src)
    BY <1>0, <2>3 DEF SoundOne, Bounded
  <2>5. Steady(t)'
    <3> SUFFICES ASSUME Quiet(t)'
                 PROVE  /\ size[t] = Len(src) /\ sha[t] = src
                        /\ \A m \in Slices(t)' :
                              m.data = IF Len(src) = 0 THEN <<>> ELSE <<src[m.off + 1]>>
                        /\ \A k \in 0..(offset'[t] - 1) : \E m \in Slices(t)' : m.off = k
      BY <2>2 DEF Steady, FileKept
    <3>1. t \notin disturbed
      BY <2>2 DEF Quiet, ghosts
    <3>2. Slices(t)' = Slices(t) \cup {NextSlice(t, eof)}
      BY <2>1, <2>2, <2>4, <3>1 DEF Slices
    <3>3. /\ NextSlice(t, eof).off = offset[t]
          /\ NextSlice(t, eof).data = IF Len(src) = 0 THEN <<>> ELSE <<src[offset[t] + 1]>>
      BY <1>0, <2>3, <3>1 DEF NextSlice, DataAt, SoundOne, Bounded
    <3>4. \A k \in 0..(offset'[t] - 1) : k \in 0..(offset[t] - 1) \/ k = offset[t]
      BY <1>0, <2>1
    <3> QED BY <2>3, <3>1, <3>2, <3>3, <3>4
  <2>6. FailsForAReason'
    BY <2>1, <2>2, <2>4 DEF Reasons, FailsForAReason, OthersKept, ghosts
  <2>7. Blamed'
    <3>1. acks' \subseteq acks BY <2>1
    <3> QED BY <1>0, <2>2, <3>1 DEF Blamed, ghosts
  <2> QED BY <2>2, <2>5, <2>6, <2>7, OthersSteady DEF Reasons, FileKept, ghosts
<1>4. ASSUME NEW m \in inflight[t], Transmit(t, m) PROVE Reasons'
  <2>1. /\ UNCHANGED <<src, dest, jobs, acks, sender, ghosts>>
        /\ wire' = wire \cup {m} /\ m.xfer = t
    BY <1>0, <1>4, TransmitEffect DEF SoundOne, Windowed
  <2>2. \A u \in Transfer : Slices(u)' = Slices(u)
    BY <1>4, <2>1 DEF Slices, sender
  <2> QED BY <2>1, <2>2 DEF Reasons, Steady, Quiet, Active, Blamed, FailsForAReason, sender, ghosts
<1>5. CASE SliceTimeout(t)
  <2>1. /\ OthersKept(t) /\ FileKept /\ UNCHANGED <<wire, touched>> /\ phase'[t] = "failed"
        /\ acks' \subseteq acks /\ disturbed' = disturbed \cup {t}
    BY <1>0, <1>5, TimeoutEffect
  <2>2. Steady(t)' /\ Blamed' /\ FailsForAReason'
    BY <1>0, <2>1 DEF Reasons, Steady, Quiet, Blamed, FailsForAReason, OthersKept
  <2> QED BY <2>1, <2>2, OthersSteady DEF Reasons, FileKept
<1>6. ASSUME NEW m \in inflight[t], \E ok \in BOOLEAN : Collect(t, m, ok) PROVE Reasons'
  <2>1. /\ OthersKept(t) /\ FileKept /\ UNCHANGED <<wire, size, sha, offset, ghosts>>
        /\ acks' \subseteq acks
        /\ \/ /\ [slice |-> m, ok |-> TRUE] \in acks
              /\ inflight'[t] = inflight[t] \ {m}
              /\ phase'[t] = IF m.eof THEN "done" ELSE phase[t]
           \/ /\ [slice |-> m, ok |-> FALSE] \in acks
              /\ phase'[t] = "failed"
    BY <1>0, <1>6, CollectEffect
  <2>2. m.xfer = t
    BY <1>0, <1>6 DEF SoundOne, Windowed
  <2>3. Steady(t)'
    <3>1. CASE phase'[t] \in {"failed", "done"}
      BY <3>1 DEF Steady, Quiet, Active
    <3>2. CASE phase'[t] \notin {"failed", "done"}
      <4>1. Slices(t)' = Slices(t) /\ phase'[t] = phase[t]
        BY <1>0, <2>1, <2>2, <3>2 DEF Slices, Awaited
      <4> QED BY <1>0, <2>1, <4>1 DEF Steady, Quiet, Active, FileKept, ghosts
    <3> QED BY <3>1, <3>2
  <2>4. FailsForAReason'
    <3>1. phase'[t] = "failed" => t \in disturbed \cup touched \/ phase[t] = "failed"
      BY <1>0, <2>1, <2>2 DEF Blamed
    <3> QED BY <2>1, <3>1 DEF Reasons, FailsForAReason, OthersKept, ghosts
  <2>5. Blamed'
    BY <1>0, <2>1 DEF Blamed, ghosts
  <2> QED BY <2>1, <2>3, <2>4, <2>5, OthersSteady DEF Reasons, FileKept, ghosts
<1> QED BY <1>1, <1>2, <1>3, <1>4, <1>5, <1>6 DEF StreamFile

LEMMA ReceiverReasons ==
  ASSUME Sound, Landing, Reasons, Edit \/ ReceiveChunk
  PROVE  Reasons'
<1>0. /\ wire \subseteq Slice /\ Blamed /\ \A t \in Transfer : Steady(t)
      /\ \A j \in jobs : j.slice \in wire
  BY DEF Sound, Reasons, JobsSent, Typed, TypeOK
<1>1. /\ UNCHANGED <<wire, sender>> /\ disturbed \subseteq disturbed' /\ touched \subseteq touched'
  BY DEF Edit, ReceiveChunk, Receive, Refuse, Truncate, Verify, Touch, ghosts
<1>2. FailsForAReason'
  BY <1>1 DEF Reasons, FailsForAReason, sender
<1>3. \A t \in Transfer : Steady(t)'
  <2>1. CASE Edit
    BY <2>1 DEF Edit, Steady, Quiet, Active, sender
  <2>2. CASE src' = src
    BY <1>0, <1>1, <2>2 DEF Steady, Quiet, Active, Slices, sender
  <2> QED BY <2>1, <2>2 DEF ReceiveChunk, Receive, Refuse, Truncate, Verify
<1>4. Blamed'
  <2>1. CASE acks' \subseteq acks
    BY <1>0, <1>1, <2>1 DEF Blamed
  <2>2. ASSUME NEW m \in wire, Receive(m) PROVE Blamed'
    <3>1. \A r \in acks' : r \in acks \/ r.ok = TRUE
      BY <2>2 DEF Receive, Ack
    <3> QED BY <1>0, <1>1, <3>1 DEF Blamed
  <2>3. ASSUME NEW m \in wire, Refuse(m) PROVE Blamed'
    <3>1. \A r \in acks' : r \in acks \/ r.slice = m
      BY <2>3 DEF Refuse, Ack
    <3> QED BY <1>0, <1>1, <2>3, <3>1 DEF Blamed, Refuse
  <2>4. ASSUME NEW j \in jobs, Verify(j) PROVE Blamed'
    <3>1. CASE j.slice \notin inflight[j.slice.xfer]
      BY <2>1, <2>4, <3>1 DEF Verify, Ack
    <3>2. CASE j.slice \in inflight[j.slice.xfer]
      <4>1. j.slice.xfer \in Transfer /\ j.pc = "verify"
        BY <1>0, <2>4, SliceFacts DEF Verify
      <4>2. CASE dest = sha[j.slice.xfer]
        <5>1. \A r \in acks' : r \in acks \/ r.ok = (dest = sha[j.slice.xfer])
          BY <2>4 DEF Verify, Ack
        <5>2. \A r \in acks' : r \in acks \/ r.ok
          BY <4>2, <5>1
        <5> QED BY <1>0, <1>1, <5>2 DEF Blamed
      <4>3. CASE dest # sha[j.slice.xfer]
        <5>1. j.slice.xfer \in disturbed \cup touched
          BY <1>0, <3>2, <4>1, <4>3, SteadyFile
        <5>2. \A r \in acks' : r \in acks \/ r.slice = j.slice
          BY <2>4 DEF Verify, Ack
        <5> QED BY <1>0, <1>1, <5>1, <5>2 DEF Blamed
      <4> QED BY <4>2, <4>3
    <3> QED BY <3>1, <3>2
  <2> QED BY <2>1, <2>2, <2>3, <2>4 DEF Edit, ReceiveChunk, Truncate
<1> QED BY <1>2, <1>3, <1>4 DEF Reasons

Inv == Sound /\ Landing /\ Reasons

LEMMA NextInv == Inv /\ [Next]_vars => Inv'
<1> SUFFICES ASSUME Inv, [Next]_vars PROVE Inv'
  OBVIOUS
<1>1. Sound' /\ Landing'
  BY NextSound, NextLands DEF Inv
<1>2. CASE Idle \/ UNCHANGED vars
  BY <1>1, <1>2 DEF Inv, Reasons, Steady, Quiet, Active, Slices, Blamed, FailsForAReason, Idle, vars,
                    sender, receiver, ghosts
<1> QED BY <1>1, <1>2, SenderReasons, ReceiverReasons DEF Inv, Next

LEMMA Invariance == Spec => []Inv
<1>1. Init => Inv
  <2> SUFFICES ASSUME Init PROVE Inv
    OBVIOUS
  <2>1. Reasons
    BY DEF Init, Reasons, Steady, Quiet, Active, Blamed, FailsForAReason
  <2> QED BY <2>1, InitSound, InitLands DEF Inv
<1> QED BY <1>1, NextInv, PTL DEF Spec

(* A transfer fails only because its source changed, a slice was refused or
   timed out, or another transfer wrote to the same path: never because slices
   came late, twice or in another order, or because of what was at the
   destination before. *)
THEOREM FailsForAReasonHolds == Spec => []FailsForAReason
<1>1. Inv => FailsForAReason BY DEF Inv, Reasons
<1> QED BY <1>1, Invariance, PTL

-----------------------------------------------------------------------------
(* Transfer implements FileCopy *)

(* What a transfer has left, as FileCopy sees it. *)
Left(t) == IF phase[t] = "done" /\ t \notin touched THEN dest ELSE None

LEMMA StatusFacts ==
  ASSUME Typed, NEW t \in Transfer
  PROVE  Status(t) = IF phase[t] = "new" THEN "none" ELSE IF Active(t) THEN "active" ELSE phase[t]
  BY DEF Status, Active, Typed, TypeOK

(* A step of the sender of t is a step of t. *)
LEMMA OneSteps ==
  ASSUME Typed, Typed', NEW t \in Transfer, OthersKept(t), dest' = dest, touched' = touched
  PROVE  /\ [u \in Transfer |-> Status(u)]' =
              [[u \in Transfer |-> Status(u)] EXCEPT ![t] = Status(t)']
         /\ [u \in Transfer |-> Left(u)]' =
              [[u \in Transfer |-> Left(u)] EXCEPT ![t] = Left(t)']
<1>1. \A u \in Transfer \ {t} : Status(u)' = Status(u)
  BY DEF OthersKept, Status, Active
<1>2. \A u \in Transfer \ {t} : Left(u)' = Left(u)
  BY DEF OthersKept, Left
<1> QED BY <1>1, <1>2

(* What is certain of a transfer's copy stays so until another one writes. *)
LEMMA LeftStays ==
  ASSUME Typed, Landing, Landing', UNCHANGED <<phase, sha>>, touched \subseteq touched',
         NEW t \in Transfer
  PROVE  Left(t)' = IF t \in touched' THEN None ELSE Left(t)
<1>1. CASE t \notin touched' /\ phase[t] = "done"
  <2>1. Settled(t) /\ Settled(t)'
    BY <1>1 DEF Landing, Lands, Alone, Settles
  <2> QED BY <1>1, <2>1 DEF Settled, Left
<1> QED BY <1>1 DEF Left

LEMMA SenderCopies ==
  ASSUME Sound, Landing, Sound', Landing', NEW t \in Transfer, Begin(t) \/ StreamFile(t)
  PROVE  [Copy!Next]_(Copy!vars)
<1>0. /\ Typed /\ Typed' /\ SoundOne(t) /\ Lands(t)' /\ Lands(t)
      /\ src \in Version /\ sha \in [Transfer -> Version \cup {None}] /\ sha[t] \in Version \cup {None}
      /\ phase[t] \in {"new", "queued", "stream", "final", "done", "failed"}
  BY DEF Sound, Landing, Typed, TypeOK
<1>1. CASE Begin(t)
  <2>1. /\ OthersKept(t) /\ dest' = dest /\ touched' = touched /\ sha' = sha
        /\ phase[t] = "new" /\ phase'[t] = "queued"
    BY <1>0, <1>1, BeginEffect DEF FileKept, ghosts
  <2>2. /\ Status(t) = "none" /\ Status(t)' = "active" /\ Left(t) = None /\ Left(t)' = None
    BY <2>1 DEF Status, Active, Left
  <2>3. Copy!Begin(t)
    BY <1>0, <2>1, <2>2, OneSteps DEF Copy!Begin, Left
  <2> QED BY <2>3 DEF Copy!Next
<1>2. CASE Hash(t)
  <2>1. /\ OthersKept(t) /\ dest' = dest /\ touched' = touched
        /\ phase[t] = "queued" /\ phase'[t] = "stream" /\ sha' = [sha EXCEPT ![t] = src]
    BY <1>0, <1>2, HashEffect DEF FileKept, ghosts, Hash
  <2>2. /\ Status(t) = "active" /\ Status(t)' = "active" /\ Left(t) = None /\ Left(t)' = None
        /\ sha[t] = None
    BY <1>0, <2>1 DEF Status, Active, Left, SoundOne, Begun
  <2>3. Copy!Choose(t)
    BY <1>0, <2>1, <2>2, OneSteps DEF Copy!Choose, Left
  <2> QED BY <2>3 DEF Copy!Next
<1>3. ASSUME OthersKept(t), dest' = dest, touched' = touched, sha' = sha, Active(t),
             phase'[t] = "failed"
      PROVE  Copy!Next
  <2>1. Status(t) = "active" /\ Status(t)' = "failed" /\ Left(t) = None /\ Left(t)' = None
    BY <1>3 DEF Status, Active, Left
  <2>2. Copy!Fail(t)
    BY <1>0, <1>3, <2>1, OneSteps DEF Copy!Fail, Left
  <2> QED BY <2>2 DEF Copy!Next
<1>4. ASSUME OthersKept(t), dest' = dest, touched' = touched, sha' = sha, Active(t), Active(t)'
      PROVE  UNCHANGED Copy!vars
  <2>1. Status(t) = "active" /\ Status(t)' = "active" /\ Left(t) = None /\ Left(t)' = None
    BY <1>4 DEF Status, Active, Left
  <2> QED BY <1>0, <1>4, <2>1, OneSteps DEF Copy!vars, Left
<1>5. CASE Read(t) \/ ReadLast(t)
  <2>1. /\ OthersKept(t) /\ dest' = dest /\ touched' = touched /\ sha' = sha /\ phase[t] = "stream"
        /\ phase'[t] \in {"stream", "final", "failed"}
    BY <1>0, <1>5, ReadStepEffect DEF FileKept, ghosts
  <2>2. Active(t) /\ (phase'[t] # "failed" => Active(t)')
    BY <2>1 DEF Active
  <2> QED BY <1>3, <1>4, <2>1, <2>2
<1>6. ASSUME NEW m \in inflight[t], Transmit(t, m) PROVE UNCHANGED Copy!vars
  BY <1>0, <1>6, TransmitEffect DEF Copy!vars, Status, Active, sender, ghosts
<1>7. CASE SliceTimeout(t)
  <2>1. /\ OthersKept(t) /\ dest' = dest /\ touched' = touched /\ sha' = sha /\ Active(t)
        /\ phase'[t] = "failed"
    BY <1>0, <1>7, TimeoutEffect DEF FileKept
  <2> QED BY <1>3, <2>1
<1>8. ASSUME NEW m \in inflight[t], \E ok \in BOOLEAN : Collect(t, m, ok)
      PROVE  [Copy!Next]_(Copy!vars)
  <2>1. /\ OthersKept(t) /\ dest' = dest /\ touched' = touched /\ sha' = sha /\ Active(t)
        /\ phase'[t] = "failed" \/ phase'[t] = (IF m.eof THEN "done" ELSE phase[t])
    BY <1>0, <1>8, CollectEffect DEF FileKept, ghosts
  <2>2. CASE phase'[t] = "done"
    <3>1. phase[t] \in {"stream", "final"}
      BY <1>0, <1>8 DEF SoundOne, Windowed
    <3>2. /\ Status(t) = "active" /\ Status(t)' = "done" /\ Left(t) = None
      BY <2>1, <2>2, <3>1 DEF Status, Active, Left
    <3>3. sha[t] # None
      BY <1>0, <3>1, VersionType DEF SoundOne, Begun
    <3>4. Left(t)' \in {sha[t], None}
      <4>1. CASE t \notin touched
        <5>1. dest' = sha'[t]
          BY <1>0, <2>1, <2>2, <4>1 DEF Lands, Alone, Settles, Settled
        <5> QED BY <2>1, <2>2, <4>1, <5>1 DEF Left
      <4> QED BY <2>1, <4>1 DEF Left
    <3>5. Copy!Succeed(t)
      BY <1>0, <2>1, <3>2, <3>3, <3>4, OneSteps DEF Copy!Succeed, Left
    <3> QED BY <3>5 DEF Copy!Next
  <2>3. CASE phase'[t] = phase[t]
    BY <1>4, <2>1, <2>3 DEF Active
  <2> QED BY <1>3, <2>1, <2>2, <2>3
<1> QED BY <1>1, <1>2, <1>5, <1>6, <1>7, <1>8 DEF StreamFile

LEMMA ReceiverCopies ==
  ASSUME Sound, Landing, Landing', Edit \/ ReceiveChunk \/ Idle \/ UNCHANGED vars
  PROVE  [Copy!Next]_(Copy!vars)
<1>1. Typed /\ touched \subseteq Transfer
  BY DEF Sound, Typed, TypeOK
<1>2. UNCHANGED <<phase, sha>> /\ touched \subseteq touched' /\ touched' \subseteq Transfer
  BY <1>1 DEF Edit, ReceiveChunk, Receive, Refuse, Truncate, Verify, Idle, Touch, vars, sender, ghosts
<1>3. [t \in Transfer |-> Status(t)]' = [t \in Transfer |-> Status(t)]
  BY <1>2 DEF Status, Active
<1>4. \A t \in Transfer : Left(t)' = IF t \in touched' THEN None ELSE Left(t)
  BY <1>1, <1>2, LeftStays
<1>5. [t \in Transfer |-> Left(t)]' =
        [t \in Transfer |-> IF t \in touched' THEN None ELSE [u \in Transfer |-> Left(u)][t]]
  BY <1>4
<1>6. Copy!Interfere
  BY <1>2, <1>3, <1>5 DEF Copy!Interfere, Left
<1> QED BY <1>6 DEF Copy!Next

(* Every behaviour of stream_file and receive_chunk_raw is one of FileCopy: a
   transfer reports done only with the file it hashed at the destination, once,
   and late or repeated slices change nothing there.  So it implements FileCopy
   as soon as every transfer ends. *)
THEOREM CopiesFiles == Spec => Copy!Safety /\ (Copy!Ends => ImplementsFileCopy)
<1>1. Init => Copy!Init
  <2> SUFFICES ASSUME Init PROVE Copy!Init
    OBVIOUS
  <2>1. \A t \in Transfer : phase[t] = "new"
    BY DEF Init
  <2>2. \A t \in Transfer : Status(t) = "none"
    BY <2>1, InitTyped, StatusFacts
  <2> QED BY <2>1, <2>2 DEF Init, Copy!Init
<1>2. Inv /\ Inv' /\ [Next]_vars => [Copy!Next]_(Copy!vars)
  BY SenderCopies, ReceiverCopies DEF Inv, Next
<1>3. Copy!Safety <=> Copy!Init /\ [][Copy!Next]_(Copy!vars)
  BY DEF Copy!Safety
<1>4. Copy!Safety /\ Copy!Ends => ImplementsFileCopy
  BY DEF ImplementsFileCopy, Copy!Spec
<1>5. Spec => Copy!Safety
  BY <1>1, <1>2, <1>3, Invariance, PTL DEF Spec
<1> QED BY <1>4, <1>5
=============================================================================
