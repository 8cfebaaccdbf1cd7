---------------------------- MODULE RoutingLoops ----------------------------
(***************************************************************************)
(* The loops of crates/relay/src/routing.rs over a room's `agents` map: the *)
(* roster merge (dedup_agents), the broadcast choice (dedup_targets) and the*)
(* single-agent choice (max_by_key).  A DashMap yields its entries in an    *)
(* arbitrary order, the same for every scan of an unchanged map, so the     *)
(* three loops advance together, one connection per step.                   *)
(*                                                                         *)
(* The Durable Object relay has the same loops over its sockets             *)
(* (worker/src/room.ts), meant to be in lock-step: they run beside them.    *)
(***************************************************************************)
EXTENDS Routing, Integers, Absent

CONSTANTS
  Session,  \* the connections of the room
  Machine,  \* machine identities
  At,       \* connected_at values
  Label     \* tags and OS families

ASSUME LoopsAssumption ==
  /\ IsFiniteSet(Session) /\ At \subseteq Int
  /\ None \notin Session \cup [from: Session, accepts: BOOLEAN, autonomous: BOOLEAN]

VARIABLES
  host,     \* AgentInfo.id of each connection
  cap,      \* the rest of its AgentInfo
  target,   \* the broadcast target being resolved
  todo,     \* the entries the iterators have still to yield
  byId,     \* dedup_agents: the merged representative of a machine
  counts,   \* dedup_agents: connections per machine
  best,     \* dedup_targets: the chosen connection of a machine
  top,      \* max_by_key of Target::Agent for a machine
  merged,   \* dedupAgents of the worker: the representative of a machine
  selected, \* selectTargets: the chosen socket of a machine
  reduced   \* selectTargets of an agent target, for a machine

worker == <<merged, selected, reduced>>
loopsVars == <<host, cap, target, todo, byId, counts, best, top, worker>>

(* A representative: whose metadata it carries, and its merged flags. *)
Rep(c) == [from |-> c, accepts |-> cap[c].accepts, autonomous |-> cap[c].autonomous]

LoopsTypeOK ==
  /\ host \in [Session -> Machine]
  /\ cap \in [Session -> Capability(At, Label)]
  /\ target \in Targets(Machine, Label, None)
  /\ todo \subseteq Session
  /\ byId \in [Machine -> {None} \cup [from: Session, accepts: BOOLEAN, autonomous: BOOLEAN]]
  /\ counts \in [Machine -> 0..Cardinality(Session)]
  /\ best \in [Machine -> Session \cup {None}]
  /\ top \in [Machine -> Session \cup {None}]
  /\ merged \in [Machine -> {None} \cup [from: Session, accepts: BOOLEAN, autonomous: BOOLEAN]]
  /\ selected \in [Machine -> Session \cup {None}]
  /\ reduced \in [Machine -> Session \cup {None}]

LoopsInit ==
  /\ host \in [Session -> Machine]
  /\ cap \in [Session -> Capability(At, Label)]
  /\ target \in [kind: {"all"}, arg: {None}] \cup [kind: {"label"}, arg: Label]
  /\ todo = Session
  /\ byId = [a \in Machine |-> None]
  /\ counts = [a \in Machine |-> 0]
  /\ best = [a \in Machine |-> None]
  /\ top = [a \in Machine |-> None]
  /\ merged = top /\ selected = top /\ reduced = top

(* dedup_agents: flags accumulate; the metadata is replaced when the new
   connection scores higher than the representative with its MERGED flags. *)
Merge(rep, c) ==
  IF rep = None THEN Rep(c)
  ELSE [from |-> IF Score(cap[c]) > Score(rep) THEN c ELSE rep.from,
        accepts |-> rep.accepts \/ cap[c].accepts,
        autonomous |-> rep.autonomous \/ cap[c].autonomous]

(* Mutant: the choice ignores connected_at. *)
ChooseByScore(old, c) ==
  IF ~ Matches(target, host[c], cap[c]) THEN old
  ELSE IF old # None /\ Score(cap[c]) <= Score(cap[old]) THEN old ELSE c

(* dedup_targets: among matching connections the first of highest rank. *)
Choose(old, c) ==
  IF ~ Matches(target, host[c], cap[c]) THEN old
  ELSE IF old # None /\ ~ Outranks(cap[c], cap[old]) THEN old ELSE c

(* max_by_key: the last of highest rank. *)
Maximum(old, c) == IF old # None /\ Outranks(cap[old], cap[c]) THEN old ELSE c

-----------------------------------------------------------------------------
(* The worker's *)

ScoreAgent(c) == (IF c.accepts THEN 1 ELSE 0) + (IF c.autonomous THEN 2 ELSE 0)

(* Positive if c outranks d: the score, and the fresher connection if it is the same. *)
RankAgent(c, d) ==
  IF ScoreAgent(c) # ScoreAgent(d) THEN ScoreAgent(c) - ScoreAgent(d) ELSE c.at - d.at

(* dedupAgents: the earlier representative stays unless the new one scores more. *)
DedupAgents(prev, c) ==
  [from |-> IF prev # None /\ ScoreAgent(prev) >= ScoreAgent(cap[c]) THEN prev.from ELSE c,
   accepts |-> (prev # None /\ prev.accepts) \/ cap[c].accepts,
   autonomous |-> (prev # None /\ prev.autonomous) \/ cap[c].autonomous]

(* matchesTarget: what does not accept commands is in no broadcast. *)
MatchesTarget(c) == cap[c].accepts /\ (target.kind = "label" => target.arg \in cap[c].labels)

(* selectTargets: one socket of each machine for a broadcast, and the reduction over *)
(* the sockets of one machine for an agent target.                                   *)
SelectTargets(prev, c) ==
  IF MatchesTarget(c) /\ (prev = None \/ RankAgent(cap[c], cap[prev]) > 0) THEN c ELSE prev
Reduce(b, c) == IF b = None \/ RankAgent(cap[c], cap[b]) > 0 THEN c ELSE b

-----------------------------------------------------------------------------
Visit(c) ==
  LET h == host[c] IN
  /\ c \in todo
  /\ todo' = todo \ {c}
  /\ byId' = [byId EXCEPT ![h] = Merge(@, c)]
  /\ counts' = [counts EXCEPT ![h] = @ + 1]
  /\ best' = [best EXCEPT ![h] = Choose(@, c)]
  /\ top' = [top EXCEPT ![h] = Maximum(@, c)]
  /\ merged' = [merged EXCEPT ![h] = DedupAgents(@, c)]
  /\ selected' = [selected EXCEPT ![h] = SelectTargets(@, c)]
  /\ reduced' = [reduced EXCEPT ![h] = Reduce(@, c)]
  /\ UNCHANGED <<host, cap, target>>

Finished == todo = {}

LoopsNext == (\E c \in Session : Visit(c)) \/ (Finished /\ UNCHANGED loopsVars)

LoopsSpec == LoopsInit /\ [][LoopsNext]_loopsVars

-----------------------------------------------------------------------------
Of(h) == {c \in Session : host[c] = h}
Chosen(f) == {f[h] : h \in Machine} \ {None}

(* In whatever order the map is read, a broadcast reaches every machine with a
   matching connection exactly once, on a connection of highest rank. *)
BroadcastResolved == Finished => Chosen(best) \in ResolveTargets(Session, host, cap, target)

(* The same for an explicit agent target: the machine's highest-ranked
   connection, or none if the machine is not in the room. *)
AgentResolved ==
  Finished => \A h \in Machine :
    {top[h]} \ {None} \in ResolveTargets(Session, host, cap, [kind |-> "agent", arg |-> h])

(* The roster lists each machine of the room once; a capability is shown if
   and only if some connection of the machine has it, and `connections` is
   their number, whatever the order. *)
RosterMerged ==
  Finished => \A h \in Machine :
    /\ byId[h] = None <=> Of(h) = {}
    /\ counts[h] = Cardinality(Of(h))
    /\ byId[h] # None =>
         /\ byId[h].from \in Of(h)
         /\ byId[h].accepts <=> \E c \in Of(h) : cap[c].accepts
         /\ byId[h].autonomous <=> \E c \in Of(h) : cap[c].autonomous

(* Two connections of a machine whose ranks tie leave the choice to the scan
   order; without ties, and if no connection that refuses commands outranks
   the ones that accept them, the two paths agree. *)
Distinct(h) == \A c, d \in Of(h) : c # d => Outranks(cap[c], cap[d]) \/ Outranks(cap[d], cap[c])
SameSocketWhenRanked ==
  Finished => \A h \in Machine :
    best[h] # None /\ Distinct(h) /\ cap[top[h]].accepts /\ target.kind = "all" => best[h] = top[h]

(* The two relays are in lock-step (room.ts: rankAgent, dedupAgents, selectTargets):
   they list the same machines with the same capabilities, and resolve a target to
   the same sockets; of sockets that tie, the worker takes the first as well. *)
LockStep ==
  Finished =>
    /\ merged = byId /\ selected = best
    /\ \A h \in Machine :
         /\ {reduced[h]} \ {None} \in
              ResolveTargets(Session, host, cap, [kind |-> "agent", arg |-> h])
         /\ Distinct(h) => reduced[h] = top[h]

(* In whatever order the map is read: the loops merge the roster and resolve targets as *)
(* Routing defines it, a broadcast and a command to the machine take the same socket    *)
(* unless ranks tie, and so do the two relays.                                          *)
Resolved ==
  RosterMerged /\ BroadcastResolved /\ AgentResolved /\ SameSocketWhenRanked /\ LockStep
=============================================================================
