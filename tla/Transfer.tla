------------------------------ MODULE Transfer ------------------------------
(***************************************************************************)
(* Host-to-host file transfer: stream_file on the sending host              *)
(* (crates/mcp-server/src/transfer.rs, driven by begin_send_file and        *)
(* send_file_slice in connection.rs) and the receiver that writes slices by *)
(* offset (receive_chunk_raw).                                              *)
(*                                                                         *)
(* A file is a sequence of blocks and a slice carries at most one block.    *)
(* SHA-256 is injective: the hash of a file is its content.  Slices travel  *)
(* over UDP or the relay, whichever works: a slice once sent may be lost,   *)
(* delayed, reordered or delivered again, and the receiver handles each in  *)
(* a task of its own.                                                       *)
(***************************************************************************)
EXTENDS Naturals, Sequences, FiniteSets

CONSTANTS
  Transfer,    \* transfers of one source path to one destination path
  Block,       \* contents of a block
  Hole,        \* what a file holds where nothing was written
  Version,     \* the contents the source file may have
  OldDest,     \* what is at the destination path before
  Window,      \* TRANSFER_WINDOW
  MaxEdits,    \* how often the source file changes during the run
  None

File == Seq(Block \cup {Hole})

ASSUME VersionType == Version \subseteq Seq(Block) /\ Version # {} /\ None \notin Version
ASSUME DestType == OldDest \in File
ASSUME BoundsType == Window \in Nat \ {0} /\ MaxEdits \in Nat

VARIABLES
  src,        \* the source file
  dest,       \* the destination file
  edits,      \* how often the source has changed
  phase,      \* where stream_file is, or the TransferState it ended in
  size,       \* the size begin_send_file has read
  sha,        \* the whole-file hash
  offset,     \* the next slice to read
  inflight,   \* slices read and not yet acknowledged
  wire,       \* slices sent so far
  jobs,       \* last slices being handled by the receiver
  acks,       \* replies to slices in flight: a slice and whether it is Ok
  disturbed,  \* the source changed, a slice was refused or timed out (ghost)
  touched     \* another transfer has written since this one began (ghost)

sender   == <<phase, size, sha, offset, inflight>>
receiver == <<dest, jobs>>
ghosts   == <<disturbed, touched>>
vars == <<src, edits, wire, acks, sender, receiver, ghosts>>

Slice == [xfer: Transfer, off: Nat, data: {<<>>} \cup {<<b>> : b \in Block}, eof: BOOLEAN]

TypeOK ==
  /\ src \in Version
  /\ dest \in File
  /\ edits \in 0..MaxEdits
  /\ phase \in [Transfer -> {"new", "queued", "stream", "final", "done", "failed"}]
  /\ size \in [Transfer -> Nat]
  /\ sha \in [Transfer -> Version \cup {None}]
  /\ offset \in [Transfer -> Nat]
  /\ inflight \in [Transfer -> SUBSET Slice]
  /\ \A t \in Transfer : Cardinality(inflight[t]) <= Window
  /\ wire \subseteq Slice
  /\ jobs \subseteq [slice: Slice, pc: {"truncate", "verify"}]
  /\ acks \subseteq [slice: Slice, ok: BOOLEAN]
  /\ disturbed \subseteq Transfer
  /\ touched \subseteq Transfer

Init ==
  /\ src \in Version
  /\ dest = OldDest
  /\ edits = 0
  /\ phase = [t \in Transfer |-> "new"]
  /\ size = [t \in Transfer |-> 0]
  /\ sha = [t \in Transfer |-> None]
  /\ offset = [t \in Transfer |-> 0]
  /\ inflight = [t \in Transfer |-> {}]
  /\ wire = {} /\ jobs = {} /\ acks = {}
  /\ disturbed = {} /\ touched = {}

Active(t) == phase[t] \notin {"new", "done", "failed"}
Goto(t, to) == phase' = [phase EXCEPT ![t] = to]

(* Another process writes the source file while transfers are under way. *)
Edit ==
  /\ edits < MaxEdits
  /\ src' \in Version \ {src}
  /\ edits' = edits + 1
  /\ disturbed' = disturbed \cup {t \in Transfer : Active(t)}
  /\ UNCHANGED <<wire, acks, sender, receiver, touched>>

-----------------------------------------------------------------------------
(* The sender *)

(* begin_send_file: the size is read and the transfer is queued; ... *)
Begin(t) ==
  /\ phase[t] = "new"
  /\ Goto(t, "queued")
  /\ size' = [size EXCEPT ![t] = Len(src)]
  /\ UNCHANGED <<src, edits, wire, acks, sha, offset, inflight, receiver, ghosts>>

(* ... stream_file hashes the whole file first. *)
Hash(t) ==
  /\ phase[t] = "queued"
  /\ Goto(t, "stream")
  /\ sha' = [sha EXCEPT ![t] = src]
  /\ UNCHANGED <<src, edits, wire, acks, size, offset, inflight, receiver, ghosts>>

(* The pending entries of slices are gone, whatever replies there are. *)
GiveUp(t, slices) ==
  /\ inflight' = [inflight EXCEPT ![t] = @ \ slices]
  /\ acks' = {r \in acks : r.slice \notin slices}

(* Whether there is a slice before the last one still to read. *)
More(t) == offset[t] + 1 < size[t]

(* read_chunk_raw: what is there at the offset, nothing at the end of the file;
   an offset past the end is an error. *)
DataAt(off) == IF off < Len(src) THEN <<src[off + 1]>> ELSE <<>>
ReadSlice(t, to, eof) ==
  IF offset[t] > Len(src)
    THEN Goto(t, "failed") /\ GiveUp(t, inflight[t])
    ELSE /\ Goto(t, to)
         /\ UNCHANGED acks
         /\ inflight' = [inflight EXCEPT ![t] = @ \cup
              {[xfer |-> t, off |-> offset[t], eof |-> eof,
                data |-> IF size[t] = 0 THEN <<>> ELSE DataAt(offset[t])]}]

(* The pipeline reads the next slice while its window has room. *)
Read(t) ==
  /\ phase[t] = "stream"
  /\ More(t)
  /\ Cardinality(inflight[t]) < Window
  /\ ReadSlice(t, "stream", FALSE)
  /\ offset' = [offset EXCEPT ![t] = @ + 1]
  /\ UNCHANGED <<src, edits, wire, size, sha, receiver, ghosts>>

(* Mutant: the last slice does not wait for the others. *)
ReadLastEarly(t) ==
  /\ phase[t] = "stream"
  /\ ~ More(t)
  /\ inflight[t] \subseteq wire
  /\ ReadSlice(t, "final", TRUE)
  /\ UNCHANGED <<src, edits, wire, size, sha, offset, receiver, ghosts>>

(* The last slice is read once every other one is acknowledged. *)
ReadLast(t) ==
  /\ phase[t] = "stream"
  /\ ~ More(t)
  /\ inflight[t] = {}
  /\ ReadSlice(t, "final", TRUE)
  /\ UNCHANGED <<src, edits, wire, size, sha, offset, receiver, ghosts>>

(* The futures of the window are polled only while the loop awaits one: when the
   window is full, or nothing is left to read. *)
Awaiting(t) ==
  /\ Active(t)
  /\ \/ Cardinality(inflight[t]) = Window
     \/ phase[t] = "stream" /\ ~ More(t)
     \/ phase[t] = "final"

(* send_file_slice: the slice is sent over UDP or the relay, or both. *)
Transmit(t, m) ==
  /\ Awaiting(t)
  /\ m \notin wire
  /\ wire' = wire \cup {m}
  /\ UNCHANGED <<src, edits, acks, sender, receiver, ghosts>>

(* A reply: an error ends the transfer, as does the Ok of the last slice. *)
Collect(t, m, ok) ==
  /\ Awaiting(t)
  /\ [slice |-> m, ok |-> ok] \in acks
  /\ GiveUp(t, IF ok THEN {m} ELSE inflight[t])
  /\ Goto(t, IF ~ ok THEN "failed" ELSE IF m.eof THEN "done" ELSE phase[t])
  /\ UNCHANGED <<src, edits, wire, size, sha, offset, receiver, ghosts>>

(* A slice cannot be sent or has no reply within 60 s: the transfer fails and its
   other slices are given up, also those on the wire. *)
SliceTimeout(t) ==
  /\ Awaiting(t)
  /\ inflight[t] # {}
  /\ Goto(t, "failed")
  /\ GiveUp(t, inflight[t])
  /\ disturbed' = disturbed \cup {t}
  /\ UNCHANGED <<src, edits, wire, size, sha, offset, receiver, touched>>

StreamFile(t) ==
  \/ Hash(t) \/ Read(t) \/ ReadLast(t) \/ SliceTimeout(t)
  \/ \E m \in inflight[t] : Transmit(t, m) \/ \E ok \in BOOLEAN : Collect(t, m, ok)

-----------------------------------------------------------------------------
(* The receiver *)

(* A file after set_len, and after a write at an offset. *)
Resize(f, n) == [i \in 1..n |-> IF i <= Len(f) THEN f[i] ELSE Hole]
WriteAt(f, off, data) ==
  IF data = <<>> THEN f
  ELSE [Resize(f, IF off + 1 > Len(f) THEN off + 1 ELSE Len(f)) EXCEPT ![off + 1] = data[1]]

(* Ghost: a transfer other than u that is under way or over sees u write. *)
Touch(u) == touched' = touched \cup {t \in Transfer \ {u} : phase[t] # "new"}

(* A reply to a slice nobody waits for any more is dropped. *)
Ack(m, ok) ==
  acks' = IF m \in inflight[m.xfer] THEN acks \cup {[slice |-> m, ok |-> ok]} ELSE acks

(* receive_chunk_raw: the slice is written at its offset; the reply to any but
   the last one is then Ok. *)
Receive(m) ==
  /\ m \in wire
  /\ dest' = WriteAt(dest, m.off, m.data)
  /\ Touch(m.xfer)
  /\ IF m.eof THEN jobs' = jobs \cup {[slice |-> m, pc |-> "truncate"]} /\ UNCHANGED acks
              ELSE Ack(m, TRUE) /\ UNCHANGED jobs
  /\ UNCHANGED <<src, edits, wire, sender, disturbed>>

(* After the last slice the file is cut to its end ... *)
Truncate(j) ==
  LET m == j.slice IN
  /\ j \in jobs /\ j.pc = "truncate"
  /\ dest' = Resize(dest, m.off + Len(m.data))
  /\ Touch(m.xfer)
  /\ jobs' = (jobs \ {j}) \cup {[j EXCEPT !.pc = "verify"]}
  /\ UNCHANGED <<src, edits, wire, sender, acks, disturbed>>

(* Mutant: the last slice is acknowledged without comparing the hash. *)
VerifyNot(j) ==
  /\ j \in jobs /\ j.pc = "verify"
  /\ jobs' = jobs \ {j}
  /\ Ack(j.slice, TRUE)
  /\ UNCHANGED <<src, edits, wire, sender, dest, ghosts>>

(* ... and hashed. *)
Verify(j) ==
  /\ j \in jobs /\ j.pc = "verify"
  /\ jobs' = jobs \ {j}
  /\ Ack(j.slice, dest = sha[j.slice.xfer])
  /\ UNCHANGED <<src, edits, wire, sender, dest, ghosts>>

(* The receiver refuses a slice: its mode forbids writes, the path is not
   allowed, a relayed slice exceeds the size limit, or the disk fails. *)
Refuse(m) ==
  /\ m \in wire
  /\ Ack(m, FALSE)
  /\ disturbed' = disturbed \cup {m.xfer}
  /\ UNCHANGED <<src, edits, wire, sender, dest, jobs, touched>>

ReceiveChunk == \/ \E m \in wire : Receive(m) \/ Refuse(m)
                \/ \E j \in jobs : Truncate(j) \/ Verify(j)

-----------------------------------------------------------------------------
Idle == (\A t \in Transfer : ~ Active(t)) /\ UNCHANGED vars

Next == \/ Edit \/ ReceiveChunk \/ Idle
        \/ \E t \in Transfer : Begin(t) \/ StreamFile(t)

Spec == Init /\ [][Next]_vars

(* The sending task runs on and its 60 s timers fire.  The receiver and the
   network owe nothing. *)
Fairness == \A t \in Transfer : WF_vars(StreamFile(t))

FairSpec == Spec /\ Fairness

-----------------------------------------------------------------------------
(* Properties *)

(* A transfer fails only for a reason: the source changed under it, a slice was
   refused or timed out, or another transfer wrote to the same path.  Slices
   arriving in any order and any number of times, and whatever was at the
   destination before, are none. *)
FailsForAReason ==
  \A t \in Transfer : phase[t] = "failed" => t \in disturbed \cup touched

(* The transfer as its caller sees it: slices, windows and replies make up the abstract *)
(* FileCopy.  What a transfer has left is certain once it is done, until another writes. *)
Status(t) == CASE phase[t] = "new" -> "none"
               [] Active(t) -> "active"
               [] OTHER -> phase[t]

Copy == INSTANCE FileCopy WITH
  state <- [t \in Transfer |-> Status(t)],
  goal  <- sha,
  copy  <- [t \in Transfer |-> IF phase[t] = "done" /\ t \notin touched THEN dest ELSE None]

(* stream_file and receive_chunk_raw together implement FileCopy: success is reported *)
(* once, for the file that was hashed, neither late slices nor repeated ones undo it, *)
(* though the source may have changed meanwhile, and every transfer ends, whatever    *)
(* the network and the receiver do and however many slices are in flight.             *)
ImplementsFileCopy == Copy!Spec
=============================================================================
