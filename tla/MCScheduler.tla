---------------------------- MODULE MCScheduler ----------------------------
(* Instances of Scheduler for TLC. *)
EXTENDS Scheduler, TLC

CONSTANTS p1, n1, c1, c2, c3

Ask(kind, proc, name, occ) == [kind |-> kind, proc |-> proc, name |-> name, occ |-> occ]

(* One process: a task that is added, replaced and removed. *)
OneProcess == (c1 :> Ask("add", p1, n1, {1, 2})) @@ (c2 :> Ask("add", p1, n1, {2}))
           @@ (c3 :> Ask("remove", p1, n1, {}))
=============================================================================
