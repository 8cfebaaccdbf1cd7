----------------------------- MODULE MCTransfer -----------------------------
(* Instances of Transfer for TLC. *)
EXTENDS Transfer

CONSTANTS t1, t2, a, b

(* A file of three blocks and its next version, which is shorter. *)
TwoVersions == {<<a, a, b>>, <<b, a>>}

(* A longer file is at the destination. *)
LongFile == <<b, b, b, b>>
=============================================================================
