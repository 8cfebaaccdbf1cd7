------------------------------ MODULE MCRooms ------------------------------
(***************************************************************************)
(* Instances of RelayPeers for TLC: the rooms of two token groups, and the  *)
(* rosters of machines that come and go, as part says.  The connections of  *)
(* the other part never show up.                                            *)
(***************************************************************************)
EXTENDS RelayPeers, TLC

CONSTANTS s1, s2, s3, x1, x2, x3, a1, a2, n1, t1, t2

VARIABLES
  part   \* whose connections arrive

Peer(query, host) == [name |-> n1, query |-> query, auth |-> query, host |-> host]

(* s1 to s3: two token groups under one room name, a peer and an observer, and the
   same machine configured with another token.  x1 to x3: machines that join and
   leave one room, one of them with two connections that are alike. *)
RoomsConn == (s1 :> Peer(t1, a1)) @@ (s2 :> Peer(t1, None)) @@ (s3 :> Peer(t2, a1))
          @@ (x1 :> Peer(t1, a1)) @@ (x2 :> Peer(t1, a1)) @@ (x3 :> Peer(t1, a2))
Twins == Permutations({x1, x2})

OneCap == {[accepts |-> TRUE, autonomous |-> FALSE, at |-> 0, labels |-> {}]}

Arriving == IF part = "rooms" THEN {s1, s2, s3} ELSE {x1, x2, x3}

all == <<part, pvars>>

AllInit == part \in {"rooms", "peers"} /\ PInit

(* Machines that come and go send nothing themselves, and read. *)
ComesOrGoes(s) == Server(s) /\ pc' # pc

AllNext ==
  /\ UNCHANGED part
  /\ \/ /\ part = "rooms"
        /\ \E s \in {s1, s2, s3} : ServerStep(s) \/ WriterSend(s)
        /\ UNCHANGED <<peers, overlap, missed>>
     \/ /\ part = "peers"
        /\ \E s \in {x1, x2, x3} : ComesOrGoes(s) \/ Deliver(s)
     \/ /\ \A s \in Arriving : pc[s] \in {"rejected", "dropped", "done"}
        /\ UNCHANGED pvars

AllSpec == AllInit /\ [][AllNext]_all
=============================================================================
