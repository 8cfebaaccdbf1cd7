----------------------------- MODULE SessionIndex -----------------------------
(***************************************************************************)
(* The full-text index over a host's AI chat sessions                       *)
(* (crates/mcp-server/src/session_index.rs) and the cached list of sessions *)
(* it is refreshed from (sessions.rs).  Searches and the panel's list calls *)
(* run in threads of their own; the caches are shared, and locked one at a  *)
(* time.  A session is known by how often its transcript was extended.      *)
(***************************************************************************)
EXTENDS Naturals, FiniteSets, Absent

CONSTANTS
  Chat,       \* the sessions of the host
  Exported,   \* those a provider's CLI lists: opencode
  Rows,       \* those in a provider's database: zed, goose
  Dated,      \* those in a file of their own that is rewritten as a whole: continue
  Search,     \* threads that search, again and again
  MaxVersion, \* how often a session may be extended
  Limit,      \* the most sessions a search answers with
  Fetch       \* the most messages it looks at

ASSUME IndexAssumption ==
  /\ IsFiniteSet(Chat) /\ MaxVersion \in Nat \ {0} /\ Limit \in Nat /\ Fetch \in Nat
  /\ None \notin [Chat -> 0..MaxVersion]

VARIABLES
  hist,      \* the transcripts: 0 while a session does not exist
  cache,     \* CACHE: a list of sessions, or None when dropped or out of date
  panel,     \* a list call of the panel, between its scan and its store
  stale,     \* STALE
  manifest,  \* fingerprints: the version each session was last indexed at, or 0
  docs,      \* the committed index: the version of each session in it, or 0
  search,    \* each thread: pc, the list it works on, what it fetched and what failed
  told,      \* the versions an ended task announced while nothing else was under way (ghost)
  unlisted,  \* sessions not in a list that was applied, and not indexed since (ghost)
  broken     \* sessions not parsed when they were last tried (ghost)

store == <<manifest, docs>>
indexVars  == <<hist, cache, panel, stale, store, search, told, unlisted, broken>>

(* The other sessions are in files that only grow: claude, codex, cursor, gemini, qwen. *)
GrowOnly == Chat \ (Exported \cup Rows \cup Dated)

Extent == 0..MaxVersion
List == [Chat -> Extent]
AtRest == [pc |-> "idle", list |-> None, fetched |-> None, failed |-> {}, all |-> TRUE]

IndexTypeOK ==
  /\ hist \in List /\ manifest \in List /\ docs \in List
  /\ cache \in List \cup {None} /\ panel \in List \cup {None}
  /\ stale \in BOOLEAN /\ told \in List
  /\ \A t \in Search :
       /\ search[t].pc \in {"idle", "drop", "scan", "keep", "collect", "apply", "clear"}
       /\ search[t].list \in List \cup {None} /\ search[t].fetched \in List \cup {None}
       /\ search[t].failed \subseteq Chat /\ search[t].all \in BOOLEAN
  /\ unlisted \subseteq Chat /\ broken \subseteq Chat

IndexInit ==
  /\ hist = [s \in Chat |-> 0]
  /\ cache = None /\ panel = None /\ stale = TRUE
  /\ manifest = hist /\ docs = hist
  /\ search = [t \in Search |-> AtRest]
  /\ told = hist /\ unlisted = {} /\ broken = {}

-----------------------------------------------------------------------------
(* The sessions *)

(* A provider's CLI starts or extends a session. *)
Extend(s) ==
  /\ hist[s] < MaxVersion /\ hist' = [hist EXCEPT ![s] = hist[s] + 1]
  /\ UNCHANGED <<cache, panel, stale, store, search, told, unlisted, broken>>

(* Mutant: the index is not told of an ended task. *)
StaleAsBefore == stale

(* invalidate_cache sets the flag. *)
MarkStale == TRUE

(* An autonomous task has ended (invalidate_cache). *)
TaskEnded ==
  /\ cache' = None /\ stale' = MarkStale
  /\ told' = IF panel = None /\ \A t \in Search : search[t].pc = "idle" THEN hist ELSE told
  /\ UNCHANGED <<hist, panel, store, search, unlisted, broken>>

(* The list's 30 s are over. *)
Expire ==
  /\ cache # None /\ cache' = None
  /\ UNCHANGED <<hist, panel, stale, store, search, told, unlisted, broken>>

(* claude_sessions and its like: every file of the directory. *)
GrownListed(within) == {within \cap GrowOnly}

(* run_cli_in: the whole output, or none when the CLI is killed at its deadline ... *)
CliOutput(whole) == {whole, {}}
(* ... in which case opencode has no sessions. *)
ExportsListed(within) == CliOutput(within \cap Exported)

(* goose_sessions and zed_sessions: the rows up to an error, such as a lock. *)
RowsListed(within) == SUBSET (within \cap Rows)

(* continue_sessions: a file that is being rewritten does not parse and is left out. *)
DatedListed(within) == SUBSET (within \cap Dated)

(* `updated`: the time of the last change, but continue's is the time of creation. *)
Updated(s) == IF s \in Dated /\ hist[s] > 0 THEN 1 ELSE hist[s]

(* What a scan of the providers shows, of the sessions in `within`. *)
Scans(within) ==
  {[s \in Chat |-> IF s \in g \cup e \cup r \cup d THEN Updated(s) ELSE 0] :
     g \in GrownListed(within), e \in ExportsListed(within),
     r \in RowsListed(within), d \in DatedListed(within)}

(* list_sessions: the panel's call scans, and later fills the cache.  Its list holds the *)
(* newest 200 sessions of a provider and leaves out the others.                          *)
PanelScan ==
  /\ cache = None /\ panel = None
  /\ \E newest \in SUBSET Chat : panel' \in Scans(newest)
  /\ UNCHANGED <<hist, cache, stale, store, search, told, unlisted, broken>>

PanelStore ==
  /\ panel # None /\ cache' = panel /\ panel' = None
  /\ UNCHANGED <<hist, stale, store, search, told, unlisted, broken>>

-----------------------------------------------------------------------------
(* A search refreshes the index first *)

Advance(t, r) == search' = [search EXCEPT ![t] = r]

(* refresh_if_stale: the flag is set, or the last refresh was 60 s ago. *)
BeginRefresh(t) ==
  /\ search[t].pc = "idle" /\ Advance(t, [AtRest EXCEPT !.pc = "drop"])
  /\ UNCHANGED <<hist, cache, panel, stale, store, told, unlisted, broken>>

(* refresh: the cached list is dropped, for it may be short or old; this sets the flag. *)
Drop(t) ==
  /\ search[t].pc = "drop"
  /\ cache' = None /\ stale' = TRUE
  /\ Advance(t, [search[t] EXCEPT !.pc = "scan"])
  /\ UNCHANGED <<hist, panel, store, told, unlisted, broken>>

(* list_sessions_with: a list someone cached meanwhile, or a scan of one's own ... *)
Scan(t) ==
  /\ search[t].pc = "scan"
  /\ \/ /\ cache # None /\ Advance(t, [search[t] EXCEPT !.pc = "collect", !.list = cache])
     \/ /\ cache = None
        /\ \E l \in Scans(Chat) : Advance(t, [search[t] EXCEPT !.pc = "keep", !.list = l])
  /\ UNCHANGED <<hist, cache, panel, stale, store, told, unlisted, broken>>

(* ... which is cached in turn. *)
Keep(t) ==
  /\ search[t].pc = "keep" /\ cache' = search[t].list
  /\ Advance(t, [search[t] EXCEPT !.pc = "collect"])
  /\ UNCHANGED <<hist, panel, stale, store, told, unlisted, broken>>

InList(t) == {s \in Chat : search[t].list[s] # 0}
Changed(t) == {s \in InList(t) : search[t].list[s] # manifest[s]}

(* collect_changed: the transcripts of the sessions whose fingerprint changed, as they *)
(* are now; some fail to parse, and the budget may end before all were tried.          *)
Collect(t) ==
  /\ search[t].pc = "collect"
  /\ \E tried \in SUBSET Changed(t) : \E failed \in SUBSET tried :
       /\ Advance(t, [search[t] EXCEPT
            !.pc = "apply", !.failed = failed, !.all = (tried = Changed(t)),
            !.fetched = [s \in Chat |-> IF s \in tried \ failed THEN hist[s] ELSE 0]])
  /\ UNCHANGED <<hist, cache, panel, stale, store, told, unlisted, broken>>

Fetched(t) == {s \in Chat : search[t].fetched[s] # 0}

(* The fingerprints after a pass.  A session that vanished keeps its own. *)
Record(t) ==
  [s \in Chat |-> IF s \in Fetched(t) \cup search[t].failed
                     THEN search[t].list[s] ELSE manifest[s]]

(* The index after a pass: vanished sessions out, changed ones replaced, and a session *)
(* that could not be parsed as it was.                                                 *)
Reindex(t) ==
  [s \in Chat |-> IF s \in Fetched(t) THEN search[t].fetched[s]
                     ELSE IF s \notin InList(t) /\ manifest[s] # 0 THEN 0 ELSE docs[s]]

(* apply_sessions, under the writer's lock: the index is committed, the manifest written. *)
Apply(t) ==
  /\ search[t].pc = "apply"
  /\ docs' = Reindex(t)
  /\ manifest' = Record(t)
  /\ unlisted' = (unlisted \ Fetched(t))
             \cup {s \in Chat \ InList(t) : manifest[s] # 0 \/ told[s] # 0}
  /\ broken' = (broken \ Fetched(t)) \cup search[t].failed
  /\ Advance(t, [AtRest EXCEPT !.pc = "clear", !.all = search[t].all])
  /\ UNCHANGED <<hist, cache, panel, stale, told>>

(* Whether the flag stays on after a pass. *)
StillStale(t) == stale /\ ~ search[t].all

(* The flag is cleared if nothing was left over; the search then answers from docs. *)
Clear(t) ==
  /\ search[t].pc = "clear"
  /\ stale' = StillStale(t)
  /\ Advance(t, AtRest)
  /\ UNCHANGED <<hist, cache, panel, store, told, unlisted, broken>>

(* search_reader, of a query that every message matches and at any scores: the best *)
(* messages are grouped by session, and the best sessions are the answer.            *)
BestOf(set, n) ==
  {b \in SUBSET set : Cardinality(b) = (IF Cardinality(set) < n THEN Cardinality(set) ELSE n)}
Messages == {m \in Chat \X (1..MaxVersion) : m[2] <= docs[m[1]]}
Answers == UNION {BestOf({m[1] : m \in hits}, Limit) : hits \in BestOf(Messages, Fetch)}

IndexNext ==
  \/ \E s \in Chat : Extend(s)
  \/ TaskEnded \/ Expire \/ PanelScan \/ PanelStore
  \/ \E t \in Search : \/ BeginRefresh(t) \/ Drop(t) \/ Scan(t) \/ Keep(t) \/ Collect(t)
                       \/ Apply(t) \/ Clear(t)

IndexSpec == IndexInit /\ [][IndexNext]_indexVars

-----------------------------------------------------------------------------
(* The manifest never says more than the index holds: a session recorded at a version *)
(* is found as of that version or a later one, whatever passes ran at once.  Excepted   *)
(* are a transcript that could not be parsed, and a session some list has missed: its   *)
(* documents are gone, its fingerprint is not.                                        *)
RecordedIsIndexed ==
  \A s \in Chat \ (broken \cup unlisted) : docs[s] >= manifest[s]

(* A search that finds the flag cleared answers with every session an ended task         *)
(* announced, as it was then or later, unless more messages match than it looks at, or   *)
(* a refresh or a list was under way when the task ended: those clear the flag, or cache *)
(* what they saw, although it was set after they looked.  A session of continue is only  *)
(* found as it was when it was indexed first: what it grew by does not move its date.    *)
AnnouncedIsFound ==
  ~ stale => \A s \in Chat \ (broken \cup unlisted) :
    /\ s \notin Dated => docs[s] >= told[s]
    /\ told[s] # 0 => docs[s] # 0
    /\ told[s] # 0 /\ Cardinality(Messages) <= Fetch /\ Cardinality(Chat) <= Limit
         => \A answer \in Answers : s \in answer

(* As documented (session_index.rs): sessions a refresh did not reach are picked up by *)
(* the next one.  A session that is back in the lists is indexed or tried again.       *)
MissedIsTriedAgain ==
  \A s \in Chat \ broken : manifest[s] = Updated(s) => docs[s] = hist[s]
=============================================================================
