------------------------------ MODULE MCRelay ------------------------------
(* Instances of Relay for TLC: who connects, with which name and tokens. *)
EXTENDS Relay, TLC

CONSTANTS s1, s2, s3, s4, a1, a2, n1, t1, t2, linux

Peer(name, query, auth, host) ==
  [name |-> name, query |-> query, auth |-> auth, host |-> host]

(* One room: a machine with two connections, an observer, and a connection
   without the server token, which is rejected. *)
FleetConn == (s1 :> Peer(n1, t1, t1, a1)) @@ (s2 :> Peer(n1, t1, t1, a1))
          @@ (s3 :> Peer(n1, t1, t1, None)) @@ (s4 :> Peer(n1, t2, t2, a1))
(* The two connections of the machine are alike. *)
Twins == Permutations({s1, s2})

(* Machines that join and leave one room; a1 comes back as s3. *)
ChurnConn == (s1 :> Peer(n1, t1, t1, a1)) @@ (s2 :> Peer(n1, t1, t1, a2))
          @@ (s3 :> Peer(n1, t1, t1, a1))

OneCap == {[accepts |-> TRUE, autonomous |-> FALSE, at |-> 0, labels |-> {linux}]}
=============================================================================
