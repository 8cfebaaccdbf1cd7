-------------------------------- MODULE Absent --------------------------------
(***************************************************************************)
(* What is not there: Option::None of the Rust crates, null in the worker.  *)
(* It differs from every value it stands beside; the modules that need to   *)
(* know more of it assume it.                                               *)
(***************************************************************************)
CONSTANT None
=============================================================================
