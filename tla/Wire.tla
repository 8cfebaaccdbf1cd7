-------------------------------- MODULE Wire --------------------------------
(***************************************************************************)
(* The wire between builds of different age: one issuer, one relay and some *)
(* agents, each of the current version or of a newer one that knows more    *)
(* target kinds, modes and commands.  Frames in the clear are protobuf      *)
(* (crates/shared/src/proto_convert.rs; worker/src/wire.ts in the Durable   *)
(* Object relay), what they carry for the other end is sealed JSON          *)
(* (protocol.rs, crypto.rs, compress.rs).                                   *)
(*                                                                         *)
(* A field a decoder does not know is absent for it.  The issuer's key is   *)
(* the agent's or not.  UDP signalling frames, lists and results carry      *)
(* values that no decision here depends on.                                 *)
(***************************************************************************)
EXTENDS Naturals, FiniteSets

CONSTANTS
  Agent,
  Relay   \* implementations of the relay: "rust", "worker"

VARIABLES
  relay,     \* the relay in use
  version,   \* "old" or "new", for the issuer, the relay and each agent
  keyed,     \* agents that have the issuer's key
  mode,      \* each agent's mode
  been,      \* modes each agent has announced (ghost)
  shown,     \* the mode the issuer's roster has of each agent
  issued,    \* the command issued, if any: a target and what to do
  net,       \* frames in transit
  ran,       \* agents that have executed the command (ghost)
  outcome    \* what the issuer has been told, by whom

wireVars == <<relay, version, keyed, mode, been, shown, issued, net, ran, outcome>>
builds == <<relay, version, keyed>>

Node == Agent \cup {"issuer", "relay"}
Version == {"old", "new"}

(* Plan, the number 0; one for the other modes of every build; and one that *)
(* only a newer build has. *)
Plan == 0
Known == 1
Newer == 2

Modes(v) == {Plan, Known} \cup (IF v = "new" THEN {Newer} ELSE {})
TargetKinds(v) == {"agent", "all", "tagged", "platform"} \cup (IF v = "new" THEN {"newer"} ELSE {})
Deeds(v) == [do: {"set_mode"}, mode: Modes(v)]
            \cup [do: {"work"} \cup (IF v = "new" THEN {"newer"} ELSE {}), mode: {Plan}]

(* A target as its issuer means it: the kind, and the agents it names. *)
Target(v) == {t \in [kind: TargetKinds(v), names: SUBSET Agent] :
                /\ t.kind = "all" => t.names = Agent
                /\ t.kind = "agent" => Cardinality(t.names) <= 1}
Commands == [target: Target("new"), deed: Deeds("new")]

Frame == [kind: {"command", "forwarded"}, at: Node, command: Commands]
         \cup [kind: {"update", "joined"}, at: {"issuer", "relay"}, about: Agent, mode: 0..Newer]
         \cup [kind: {"result", "reply"}, at: {"issuer", "relay"}, about: Agent,
               says: {"ok", "key mismatch?"}]

WireTypeOK ==
  /\ relay \in Relay
  /\ version \in [Node -> Version]
  /\ keyed \subseteq Agent
  /\ mode \in [Agent -> 0..Newer] /\ shown \in [Agent -> 0..Newer]
  /\ been \in [Agent -> SUBSET (0..Newer)]
  /\ issued \subseteq Commands
  /\ net \subseteq Frame
  /\ ran \subseteq Agent
  /\ outcome \subseteq ((Agent \cup {"relay"}) \X {"ok", "key mismatch?", "no agents"})

WireInit ==
  /\ relay \in Relay /\ version \in [Node -> Version]
  /\ keyed \in {Agent} \cup {Agent \ {a} : a \in Agent}
  /\ mode = [a \in Agent |-> Plan] /\ shown = mode
  /\ been = [a \in Agent |-> {Plan}]
  /\ issued = {} /\ net = {} /\ ran = {} /\ outcome = {}

----------------------------------------------------------------------------
(* The two codecs. *)

(* mode_from_i32 and modeFromPb. *)
ModeFrom(v, m) == IF m \in Modes(v) THEN m ELSE Plan

(* A bug: a target that is missing means everyone. *)
TargetOrAll(v, t) == IF t.kind \in TargetKinds(v) THEN {t} ELSE {[kind |-> "all", names |-> Agent]}

(* TryFrom<proto::Target>: an empty oneof is an error, that is, no target. *)
TargetTry(v, t) == IF t.kind \in TargetKinds(v) THEN {t} ELSE {}

(* targetFromPb: its default is the target "all". *)
TargetFromPb(v, t) ==
  IF t.kind \in TargetKinds(v) THEN {t} ELSE {[kind |-> "all", names |-> Agent]}

TargetFrom(v, t) == IF relay = "rust" THEN TargetTry(v, t) ELSE TargetFromPb(v, t)

(* Command::decrypt: the key, then serde, which knows no variant of a newer *)
(* build. *)
Decrypts(a, d) == a \in keyed /\ d \in Deeds(version[a])

----------------------------------------------------------------------------

Carry(f, more) == net' = (net \ {f}) \cup more

Issue(t, d) ==
  /\ issued = {}
  /\ t \in Target(version["issuer"]) /\ d \in Deeds(version["issuer"])
  /\ issued' = {[target |-> t, deed |-> d]}
  /\ net' = net \cup [kind: {"command"}, at: {"relay"}, command: issued']
  /\ UNCHANGED <<builds, mode, been, shown, ran, outcome>>

(* The relay resolves the target it has decoded; a frame it cannot decode   *)
(* is ignored (handler.rs). *)
Forward(f) ==
  /\ f.kind = "command" /\ f.at = "relay"
  /\ LET targets == TargetFrom(version["relay"], f.command.target)
         named == UNION {t.names : t \in targets} IN
     /\ Carry(f, {[kind |-> "forwarded", at |-> a, command |-> f.command] : a \in named})
     /\ outcome' = outcome \cup
          (IF targets # {} /\ named = {} THEN {<<"relay", "no agents">>} ELSE {})
  /\ UNCHANGED <<builds, mode, been, shown, issued, ran>>

(* The agent opens the payload and executes, or blames the key. *)
Execute(f) ==
  /\ f.kind = "forwarded" /\ f.at \in Agent
  /\ LET a == f.at
         d == f.command.deed
         says(s) == [kind |-> "result", at |-> "relay", about |-> a, says |-> s] IN
     IF ~Decrypts(a, d)
     THEN Carry(f, {says("key mismatch?")}) /\ UNCHANGED <<mode, been, ran>>
     ELSE /\ ran' = ran \cup {a}
          /\ IF d.do = "set_mode"
             THEN /\ mode' = [mode EXCEPT ![a] = d.mode]
                  /\ been' = [been EXCEPT ![a] = @ \cup {d.mode}]
                  /\ Carry(f, {says("ok"), [kind |-> "update", at |-> "relay",
                                            about |-> a, mode |-> d.mode]})
             ELSE Carry(f, {says("ok")}) /\ UNCHANGED <<mode, been>>
  /\ UNCHANGED <<builds, shown, issued, outcome>>

(* One agent changes its mode at its own machine. *)
Enter(a, m) ==
  /\ m \in Modes(version[a]) \ {Plan}
  /\ \A b \in Agent : been[b] = {Plan}
  /\ mode' = [mode EXCEPT ![a] = m]
  /\ been' = [been EXCEPT ![a] = @ \cup {m}]
  /\ net' = net \cup {[kind |-> "update", at |-> "relay", about |-> a, mode |-> m]}
  /\ UNCHANGED <<builds, shown, issued, ran, outcome>>

(* The relay decodes an agent's info and encodes it again for the room. *)
Announce(f) ==
  /\ f.kind = "update" /\ f.at = "relay"
  /\ Carry(f, {[f EXCEPT !.kind = "joined", !.at = "issuer",
                         !.mode = ModeFrom(version["relay"], @)]})
  /\ UNCHANGED <<builds, mode, been, shown, issued, ran, outcome>>

Joined(f) ==
  /\ f.kind = "joined"
  /\ shown' = [shown EXCEPT ![f.about] = ModeFrom(version["issuer"], f.mode)]
  /\ Carry(f, {})
  /\ UNCHANGED <<builds, mode, been, issued, ran, outcome>>

(* The result goes through untouched. *)
Pass(f) ==
  /\ f.kind = "result" /\ f.at = "relay"
  /\ Carry(f, {[f EXCEPT !.kind = "reply", !.at = "issuer"]})
  /\ UNCHANGED <<builds, mode, been, shown, issued, ran, outcome>>

Reply(f) ==
  /\ f.kind = "reply"
  /\ outcome' = outcome \cup {<<f.about, f.says>>}
  /\ Carry(f, {})
  /\ UNCHANGED <<builds, mode, been, shown, issued, ran>>

WireNext ==
  \/ \E t \in Target("new"), d \in Deeds("new") : Issue(t, d)
  \/ \E a \in Agent, m \in {Known, Newer} : Enter(a, m)
  \/ \E f \in net : \/ Forward(f) \/ Execute(f) \/ Announce(f) \/ Joined(f)
                    \/ Pass(f) \/ Reply(f)

WireSpec == WireInit /\ [][WireNext]_wireVars

----------------------------------------------------------------------------

(* A command is executed by agents its target names and by no other, even   *)
(* when the relay is older than the issuer (proto_convert.rs: the wire is   *)
(* untrusted, a missing oneof is a typed error). *)
OnlyNamed == \A c \in issued : ran \subseteq c.target.names

(* A roster never shows an agent a mode it has not announced, save the least *)
(* powerful one (mode_from_i32). *)
NoModeMadeUp == \A a \in Agent : shown[a] \in been[a] \cup {Plan}

(* The agent says "payload decryption failed (key mismatch?)": of a peer    *)
(* whose key differs (connection.rs, relay_controller.rs). *)
MismatchIsAMismatch ==
  \A a \in Agent : <<a, "key mismatch?">> \in outcome => a \notin keyed
=============================================================================
