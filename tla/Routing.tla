------------------------------ MODULE Routing ------------------------------
(***************************************************************************)
(* Target resolution of the relay (crates/relay/src/routing.rs) as          *)
(* operators over a snapshot of a room's `agents` map.                      *)
(*                                                                         *)
(* A connection is an element of S; host[c] is its AgentInfo.id and cap[c]  *)
(* the rest of its AgentInfo that routing reads:                            *)
(*   accepts, autonomous  the two capability flags                          *)
(*   at                   connected_at                                      *)
(*   labels               its tags and its OS family (platform.family/os)   *)
(* A target is a record [kind, arg]: kind "agent" with an id, "all", or     *)
(* "label" with one label (Tagged and Platform differ only in which labels  *)
(* they compare).                                                          *)
(***************************************************************************)
EXTENDS Naturals, FiniteSets

Capability(At, Label) ==
  [accepts: BOOLEAN, autonomous: BOOLEAN, at: At, labels: SUBSET Label]

Targets(Agent, Label, NoArg) ==
  [kind: {"agent"}, arg: Agent] \cup [kind: {"all"}, arg: {NoArg}]
    \cup [kind: {"label"}, arg: Label]

(* score: an executing socket scores 1, an autonomous one 2 more. *)
Score(c) == (IF c.accepts THEN 1 ELSE 0) + (IF c.autonomous THEN 2 ELSE 0)

(* routing_rank, compared lexicographically: the score, then connected_at. *)
Outranks(c, d) ==
  \/ Score(c) > Score(d)
  \/ Score(c) = Score(d) /\ c.at > d.at

(* The predicate resolve_targets hands to its filter: only an explicit agent
   target reaches a connection that does not execute. *)
Matches(target, id, c) ==
  CASE target.kind = "agent" -> id = target.arg
    [] target.kind = "all"   -> c.accepts
    [] target.kind = "label" -> c.accepts /\ target.arg \in c.labels

(* What resolve_targets may return on the connections S: one connection of
   highest rank for every host with a matching one.  Two connections of equal
   rank leave the choice to the map's iteration order. *)
ResolveTargets(S, host, cap, target) ==
  LET Eligible == {c \in S : Matches(target, host[c], cap[c])}
      Best == {c \in Eligible :
                 \A d \in Eligible : host[d] = host[c] => ~ Outranks(cap[d], cap[c])}
  IN  {T \in SUBSET Best :
         \A h \in {host[c] : c \in Eligible} :
            Cardinality({c \in T : host[c] = h}) = 1}
=============================================================================
