----------------------------- MODULE Scheduler -----------------------------
(***************************************************************************)
(* The cron scheduler of an agent (crates/mcp-server/src/scheduler.rs).     *)
(*                                                                         *)
(* Every process of a machine keeps the tasks in memory, guarded by locks   *)
(* that are taken and released one at a time, and mirrors them to a SQLite  *)
(* file that the machine's processes share (state.rs, schedule_path).       *)
(* Commands run concurrently: `add` and `remove` are calls whose every      *)
(* locked section is a step; the tick loop is a task of its own.  A task    *)
(* definition is named by the `add` call that made it.                      *)
(***************************************************************************)
EXTENDS Naturals, FiniteSets

CONSTANTS
  Process,     \* the agent processes of the machine
  Name,        \* task names
  Call,        \* the schedule_add and schedule_remove commands of this run
  Op,          \* what each call asks: kind, process, name, occurrences
  MaxTime,     \* bound of the clock
  MaxCrashes,  \* how many times a process may die
  DbFails,     \* whether a SQLite statement may fail
  None

Time == 0..MaxTime

ASSUME OpType == Op \in [Call -> [kind: {"add", "remove"}, proc: Process, name: Name,
                                  occ: SUBSET Time]]
ASSUME BoundsType == MaxTime \in Nat /\ MaxCrashes \in Nat /\ DbFails \in BOOLEAN
ASSUME NoneFresh == None \notin Call \cup Name \cup Time /\ Call \cap Process = {}

VARIABLES
  clock,     \* Utc::now()
  tasks,     \* Scheduler.tasks of each process
  baseline,  \* Scheduler.baseline of each process
  db,        \* the rows of scheduled_tasks
  call,      \* where each call is
  loop,      \* the run loop of each process: pc, now, due, the task that is
             \* running and the count to persist for it
  crashes,   \* how many crashes so far
  since,     \* when each definition last entered memory (ghost)
  fired,     \* the occurrences of each definition that were fired (ghost)
  stray,     \* runs of a definition since it left memory (ghost)
  dirty      \* names with overlapping operations or a failed write (ghost)

vars == <<clock, tasks, baseline, db, call, loop, crashes, since, fired, stray, dirty>>
store == <<tasks, baseline, db>>
ghosts == <<since, fired, stray, dirty>>

Entry == [def: Call, runs: Nat, last: Time \cup {None}]
Firing == [name: Name, def: Call, window: SUBSET Time]
Stopped == [pc |-> "down", now |-> 0, due |-> {}, cur |-> None, count |-> 0]

NameOf(c) == Op[c].name
ProcOf(c) == Op[c].proc

TypeOK ==
  /\ clock \in Time
  /\ tasks \in [Process -> [Name -> Entry \cup {None}]]
  /\ baseline \in [Process -> [Name -> Time \cup {None}]]
  /\ db \in [Name -> Entry \cup {None}]
  /\ call \in [Call -> {"new", "insert", "rebase", "unbase", "delete", "ok", "error", "lost"}]
  /\ loop \in [Process -> [pc: {"down", "seed", "idle", "snapshot", "fire", "running", "persist"},
                           now: Time, due: SUBSET Firing, cur: Firing \cup {None}, count: Nat]]
  /\ crashes \in 0..MaxCrashes
  /\ since \in [Call -> Time \cup {None}]
  /\ fired \in [Call -> SUBSET Time]
  /\ stray \in [Call -> Nat]
  /\ dirty \subseteq Name

Init ==
  /\ clock = 0
  /\ tasks = [p \in Process |-> [n \in Name |-> None]]
  /\ baseline = [p \in Process |-> [n \in Name |-> None]]
  /\ db = [n \in Name |-> None]
  /\ call = [c \in Call |-> "new"]
  /\ loop = [p \in Process |-> Stopped]
  /\ crashes = 0
  /\ since = [c \in Call |-> None]
  /\ fired = [c \in Call |-> {}]
  /\ stray = [c \in Call |-> 0]
  /\ dirty = {}

-----------------------------------------------------------------------------
(* Operations in progress on a name: calls between two of their steps, and a
   run loop between updating its memory and the database. *)
Busy(c) == call[c] \in {"insert", "rebase", "unbase", "delete"}
Active(n) == {c \in Call : Busy(c) /\ NameOf(c) = n}
               \cup {p \in Process : loop[p].pc = "persist" /\ loop[p].cur.name = n}
Overlapped == {n \in Name : \E x, y \in Active(n) : x # y}

(* Ghost: a failed write or an overlap makes a name dirty for good. *)
Taint(failed) == dirty' = dirty \cup failed \cup Overlapped'

Goto(c, from, to) == call[c] = from /\ call' = [call EXCEPT ![c] = to]
LoopGoto(p, from, to) == loop[p].pc = from /\ loop' = [loop EXCEPT ![p].pc = to]

Running(p) == loop[p].pc # "down"
Fresh(c) == [def |-> c, runs |-> 0, last |-> None]

Advance ==
  /\ clock < MaxTime
  /\ clock' = clock + 1
  /\ UNCHANGED <<store, call, loop, crashes, ghosts>>

-----------------------------------------------------------------------------
(* add: db_upsert, ... *)
Add(c) ==
  /\ Op[c].kind = "add"
  /\ Running(ProcOf(c))
  /\ Goto(c, "new", "insert")
  /\ db' = [db EXCEPT ![NameOf(c)] = Fresh(c)]
  /\ UNCHANGED <<clock, tasks, baseline, loop, crashes, since, fired, stray>>
  /\ Taint({})

AddFails(c) ==
  /\ Op[c].kind = "add"
  /\ Running(ProcOf(c))
  /\ DbFails
  /\ Goto(c, "new", "error")
  /\ UNCHANGED <<clock, store, loop, crashes, ghosts>>

(* ... insert into the map, ... *)
AddInsert(c) ==
  /\ Goto(c, "insert", "rebase")
  /\ tasks' = [tasks EXCEPT ![ProcOf(c)][NameOf(c)] = Fresh(c)]
  /\ since' = [since EXCEPT ![c] = clock]
  /\ UNCHANGED <<clock, baseline, db, loop, crashes, fired, stray>>
  /\ Taint({})

(* ... reset the baseline to now. *)
AddBaseline(c) ==
  /\ Goto(c, "rebase", "ok")
  /\ baseline' = [baseline EXCEPT ![ProcOf(c)][NameOf(c)] = clock]
  /\ UNCHANGED <<clock, tasks, db, loop, crashes, since, fired, stray>>
  /\ Taint({})

(* remove: from the map (an unknown name is an error), ... *)
Remove(c) ==
  LET known == tasks[ProcOf(c)][NameOf(c)] # None IN
  /\ Op[c].kind = "remove"
  /\ Running(ProcOf(c))
  /\ Goto(c, "new", IF known THEN "unbase" ELSE "error")
  /\ tasks' = [tasks EXCEPT ![ProcOf(c)][NameOf(c)] = None]
  /\ UNCHANGED <<clock, baseline, db, loop, crashes, since, fired, stray>>
  /\ Taint({})

(* ... from the baselines, ... *)
RemoveBaseline(c) ==
  /\ Goto(c, "unbase", "delete")
  /\ baseline' = [baseline EXCEPT ![ProcOf(c)][NameOf(c)] = None]
  /\ UNCHANGED <<clock, tasks, db, loop, crashes, since, fired, stray>>
  /\ Taint({})

(* ... and from the database. *)
RemoveDelete(c) ==
  /\ Goto(c, "delete", "ok")
  /\ db' = [db EXCEPT ![NameOf(c)] = None]
  /\ UNCHANGED <<clock, tasks, baseline, loop, crashes, since, fired, stray>>
  /\ Taint({})

RemoveFails(c) ==
  /\ DbFails
  /\ Goto(c, "delete", "error")
  /\ UNCHANGED <<clock, store, loop, crashes, since, fired, stray>>
  /\ Taint({NameOf(c)})

-----------------------------------------------------------------------------
(* A process starts: load_all, and the run loop is spawned ... *)
Stored(c) == \E n \in Name : db[n] # None /\ db[n].def = c
Start(p) ==
  /\ LoopGoto(p, "down", "seed")
  /\ tasks' = [tasks EXCEPT ![p] = db]
  /\ since' = [c \in Call |-> IF Stored(c) THEN clock ELSE since[c]]
  /\ stray' = [c \in Call |-> IF Stored(c) THEN 0 ELSE stray[c]]
  /\ UNCHANGED <<clock, baseline, db, call, crashes, fired, dirty>>

(* Mutant: the seeding overwrites the baselines that calls have set. *)
SeedOverwrites(p) ==
  /\ LoopGoto(p, "seed", "idle")
  /\ baseline' = [baseline EXCEPT ![p] =
       [n \in Name |-> IF tasks[p][n] # None THEN clock ELSE @[n]]]
  /\ UNCHANGED <<clock, tasks, db, call, crashes, ghosts>>

(* ... which first seeds the baselines that are missing. *)
Seed(p) ==
  /\ LoopGoto(p, "seed", "idle")
  /\ baseline' = [baseline EXCEPT ![p] =
       [n \in Name |-> IF tasks[p][n] # None /\ @[n] = None THEN clock ELSE @[n]]]
  /\ UNCHANGED <<clock, tasks, db, call, crashes, ghosts>>

(* A process dies: its memory and its calls are gone, the file stays. *)
Crash(p) ==
  /\ crashes < MaxCrashes
  /\ Running(p)
  /\ crashes' = crashes + 1
  /\ tasks' = [tasks EXCEPT ![p] = [n \in Name |-> None]]
  /\ baseline' = [baseline EXCEPT ![p] = [n \in Name |-> None]]
  /\ loop' = [loop EXCEPT ![p] = Stopped]
  /\ call' = [c \in Call |-> IF Busy(c) /\ ProcOf(c) = p THEN "lost" ELSE call[c]]
  /\ UNCHANGED <<clock, db, ghosts>>

-----------------------------------------------------------------------------
(* tick: the time is read first, ... *)
Tick(p) ==
  /\ loop[p].pc = "idle"
  /\ loop' = [loop EXCEPT ![p].pc = "snapshot", ![p].now = clock]
  /\ UNCHANGED <<clock, store, call, crashes, ghosts>>

(* The instant after which the next occurrence of a task counts. *)
After(p, n) ==
  IF baseline[p][n] # None THEN baseline[p][n]
  ELSE IF tasks[p][n].last # None THEN tasks[p][n].last ELSE loop[p].now

Window(def, after, now) == {t \in Op[def].occ : after < t /\ t <= now}

DueTasks(p) ==
  {[name |-> n, def |-> tasks[p][n].def,
    window |-> Window(tasks[p][n].def, After(p, n), loop[p].now)]
     : n \in {m \in Name : tasks[p][m] # None
                /\ Window(tasks[p][m].def, After(p, m), loop[p].now) # {}}}

(* ... then the due tasks are collected under both locks. *)
Snapshot(p) ==
  /\ loop[p].pc = "snapshot"
  /\ loop' = [loop EXCEPT ![p].pc = IF DueTasks(p) = {} THEN "idle" ELSE "fire",
                          ![p].due = DueTasks(p)]
  /\ UNCHANGED <<clock, store, call, crashes, ghosts>>

(* Whether a definition is in some process's memory. *)
Held(c) == \E p \in Process : \E n \in Name : tasks[p][n] # None /\ tasks[p][n].def = c

(* Mutant: the baseline does not move. *)
FireInPlace(p, f) ==
  /\ loop[p].pc = "fire"
  /\ f \in loop[p].due
  /\ loop' = [loop EXCEPT ![p].pc = "running", ![p].due = @ \ {f}, ![p].cur = f]
  /\ fired' = [fired EXCEPT ![f.def] = @ \cup f.window]
  /\ stray' = [stray EXCEPT ![f.def] = IF Held(f.def) THEN 0 ELSE @ + 1]
  /\ UNCHANGED <<clock, store, call, crashes, since, dirty>>

(* One due task: the baseline moves to the tick's time and the command starts. *)
Fire(p, f) ==
  /\ loop[p].pc = "fire"
  /\ f \in loop[p].due
  /\ loop' = [loop EXCEPT ![p].pc = "running", ![p].due = @ \ {f}, ![p].cur = f]
  /\ baseline' = [baseline EXCEPT ![p][f.name] = loop[p].now]
  /\ fired' = [fired EXCEPT ![f.def] = @ \cup f.window]
  /\ stray' = [stray EXCEPT ![f.def] = IF Held(f.def) THEN 0 ELSE @ + 1]
  /\ UNCHANGED <<clock, tasks, db, call, crashes, since, dirty>>

(* The loop goes on with the next due task, or waits for the next tick. *)
Following(p) == IF loop[p].due = {} THEN "idle" ELSE "fire"

(* The command has ended (or was killed after 300 s): the statistics are
   updated in memory, unless the task was removed meanwhile ... *)
Record(p) ==
  LET n == loop[p].cur.name IN
  /\ loop[p].pc = "running"
  /\ IF tasks[p][n] = None
       THEN /\ loop' = [loop EXCEPT ![p].pc = Following(p), ![p].cur = None]
            /\ UNCHANGED tasks
       ELSE /\ loop' = [loop EXCEPT ![p].pc = "persist", ![p].count = tasks[p][n].runs + 1]
            /\ tasks' = [tasks EXCEPT ![p][n].runs = @ + 1, ![p][n].last = loop[p].now]
  /\ UNCHANGED <<clock, baseline, db, call, crashes, since, fired, stray>>
  /\ Taint({})

(* ... and in the row, if there is one. *)
Persist(p) ==
  LET n == loop[p].cur.name IN
  /\ loop[p].pc = "persist"
  /\ loop' = [loop EXCEPT ![p].pc = Following(p), ![p].cur = None]
  /\ db' = [db EXCEPT ![n] = IF @ = None THEN None
                             ELSE [@ EXCEPT !.runs = loop[p].count, !.last = loop[p].now]]
  /\ UNCHANGED <<clock, tasks, baseline, call, crashes, since, fired, stray>>
  /\ Taint({})

PersistFails(p) ==
  /\ DbFails
  /\ loop[p].pc = "persist"
  /\ loop' = [loop EXCEPT ![p].pc = Following(p), ![p].cur = None]
  /\ UNCHANGED <<clock, store, call, crashes, since, fired, stray>>
  /\ Taint({loop[p].cur.name})

-----------------------------------------------------------------------------
Calls(c) == \/ Add(c) \/ AddFails(c) \/ AddInsert(c) \/ AddBaseline(c)
            \/ Remove(c) \/ RemoveBaseline(c) \/ RemoveDelete(c) \/ RemoveFails(c)

Loop(p) == \/ Seed(p) \/ Tick(p) \/ Snapshot(p) \/ (\E f \in loop[p].due : Fire(p, f))
           \/ Record(p) \/ Persist(p) \/ PersistFails(p)

Next == \/ Advance
        \/ \E c \in Call : Calls(c)
        \/ \E p \in Process : Loop(p) \/ Start(p) \/ Crash(p)

Spec == Init /\ [][Next]_vars

(* The run loop of a live process goes on: the ticker fires every second and a
   command ends or is killed after 300 s.  Nothing is assumed of the calls or
   of the clock, and a dead process need not be started again. *)
Fairness == \A p \in Process : WF_vars(Loop(p))

FairSpec == Spec /\ Fairness

-----------------------------------------------------------------------------
(* Properties *)

(* No occurrence of a definition is fired twice, whatever is added, replaced or
   removed during a tick and whenever the process restarts. *)
OncePerOccurrence ==
  [][\A p \in Process : \A f \in loop[p].due :
       Fire(p, f) => f.window \cap fired[f.def] = {}]_vars

(* A definition that was removed or replaced runs at most once more: the tick
   that had collected it before may still reach it, a later one never does. *)
StrayRunsOnce == \A c \in Call : stray[c] <= 1

(* Memory and file agree on every name no two operations have overlapped on and
   no write has failed for, as soon as nothing is in progress on it: also after
   a crash at any point and the reload that follows. *)
Mirrored ==
  \A p \in Process : \A n \in Name \ dirty :
    loop[p].pc \notin {"down", "persist"} /\ Active(n) = {} => tasks[p][n] = db[n]

(* An occurrence that passes while its definition is in memory, and its `add` is
   over, is fired unless the definition leaves memory first or operations on its
   name overlapped. *)
Pending(p, c, t) ==
  LET n == NameOf(c) IN
  /\ tasks[p][n] # None /\ tasks[p][n].def = c
  /\ baseline[p][n] # None /\ baseline[p][n] < t /\ t <= clock
  /\ Active(n) = {}
EveryOccurrenceFires ==
  \A p \in Process : \A c \in Call : \A t \in Op[c].occ :
    Pending(p, c, t) ~> \/ t \in fired[c]
                       \/ tasks[p][NameOf(c)] = None
                       \/ tasks[p][NameOf(c)].def # c
                       \/ NameOf(c) \in dirty

(* A fire is for an occurrence no earlier than the definition entered memory, by
   `add` or by a restart: none is run retroactively. *)
UpcomingOnly ==
  [][\A p \in Process : \A f \in loop[p].due :
       Fire(p, f) /\ f.name \notin dirty => \E t \in f.window : t >= since[f.def]]_vars
=============================================================================
