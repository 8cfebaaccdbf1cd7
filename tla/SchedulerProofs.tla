--------------------------- MODULE SchedulerProofs ---------------------------
(***************************************************************************)
(* Proofs about Scheduler: that its variables have their types and, for a   *)
(* machine where one process runs the scheduler, that no occurrence of a    *)
(* task is fired twice, that a definition that has left memory runs at most *)
(* once more, and that memory and file agree when nothing is in progress.   *)
(***************************************************************************)
EXTENDS Scheduler, TLAPS

LEMMA OpFacts ==
  ASSUME NEW c \in Call
  PROVE  /\ ProcOf(c) \in Process /\ NameOf(c) \in Name /\ Op[c].occ \subseteq Time
         /\ Op[c].kind \in {"add", "remove"}
  BY OpType DEF ProcOf, NameOf

LEMMA TimeFacts ==
  /\ \A t \in Time : t \in Nat /\ t <= MaxTime /\ t # None
  /\ 0 \in Time
  BY BoundsType, NoneFresh DEF Time

LEMMA EntryFacts ==
  /\ \A e \in Entry : e.def \in Call /\ e.runs \in Nat /\ e.last \in Time \cup {None}
  /\ \A c \in Call : Fresh(c) \in Entry /\ Fresh(c).def = c /\ Fresh(c).last = None
  BY DEF Entry, Fresh

LEMMA FiringFacts ==
  ASSUME NEW f \in Firing
  PROVE  f.name \in Name /\ f.def \in Call /\ f.window \subseteq Time
  BY DEF Firing

LoopState == [pc: {"down", "seed", "idle", "snapshot", "fire", "running", "persist"},
              now: Time, due: SUBSET Firing, cur: Firing \cup {None}, count: Nat]

(* A run loop that handles a task knows which. *)
Current == \A p \in Process : loop[p].pc \in {"running", "persist"} => loop[p].cur \in Firing
Typed == TypeOK /\ Current

LEMMA TypeFacts ==
  ASSUME TypeOK
  PROVE  /\ loop \in [Process -> LoopState]
         /\ tasks \in [Process -> [Name -> Entry \cup {None}]]
         /\ baseline \in [Process -> [Name -> Time \cup {None}]]
         /\ db \in [Name -> Entry \cup {None}]
         /\ call \in [Call -> {"new", "insert", "rebase", "unbase", "delete", "ok", "error", "lost"}]
         /\ fired \in [Call -> SUBSET Time] /\ stray \in [Call -> Nat]
         /\ since \in [Call -> Time \cup {None}]
         /\ clock \in Time /\ dirty \subseteq Name
  BY DEF TypeOK, LoopState

LEMMA LoopFacts ==
  ASSUME NEW l \in LoopState
  PROVE  /\ l.now \in Time /\ l.due \subseteq Firing /\ l.count \in Nat
         /\ l.cur \in Firing \cup {None}
         /\ l.pc \in {"down", "seed", "idle", "snapshot", "fire", "running", "persist"}
  BY DEF LoopState

(* The maps of a process, changed at one name. *)
LEMMA SetAt ==
  ASSUME NEW S, NEW f \in [Process -> [Name -> S]], NEW p \in Process, NEW n \in Name, NEW v \in S
  PROVE  /\ [f EXCEPT ![p][n] = v] \in [Process -> [Name -> S]]
         /\ [f EXCEPT ![p][n] = v][p][n] = v
         /\ \A q \in Process : \A m \in Name :
              q # p \/ m # n => [f EXCEPT ![p][n] = v][q][m] = f[q][m]
  OBVIOUS

-----------------------------------------------------------------------------
(* What the steps change, name by name *)

(* Everything but one name of one process. *)
RestKept(p, n) ==
  \A q \in Process : \A m \in Name : q # p \/ m # n =>
    tasks'[q][m] = tasks[q][m] /\ baseline'[q][m] = baseline[q][m]

CallGoes(c, from, to) ==
  call[c] = from /\ call'[c] = to /\ \A d \in Call \ {c} : call'[d] = call[d]

CallSteps(c) ==
  LET p == ProcOf(c)  n == NameOf(c) IN
  \/ /\ CallGoes(c, "new", "insert") /\ Running(p)
     /\ db'[n] = Fresh(c) /\ tasks' = tasks /\ baseline' = baseline /\ since' = since
  \/ CallGoes(c, "new", "error") /\ Running(p) /\ UNCHANGED <<db, tasks, baseline, since>>
  \/ /\ CallGoes(c, "insert", "rebase")
     /\ tasks'[p][n] = Fresh(c) /\ baseline' = baseline /\ db' = db
     /\ since' = [since EXCEPT ![c] = clock]
  \/ /\ CallGoes(c, "rebase", "ok")
     /\ baseline'[p][n] = clock /\ tasks' = tasks /\ db' = db /\ since' = since
  \/ /\ CallGoes(c, "new", "unbase") /\ Running(p)
     /\ tasks'[p][n] = None /\ baseline' = baseline /\ db' = db /\ since' = since
  \/ /\ CallGoes(c, "unbase", "delete")
     /\ baseline'[p][n] = None /\ tasks' = tasks /\ db' = db /\ since' = since
  \/ /\ CallGoes(c, "delete", "ok")
     /\ db'[n] = None /\ tasks' = tasks /\ baseline' = baseline /\ since' = since
  \/ /\ CallGoes(c, "delete", "error") /\ UNCHANGED <<db, tasks, baseline, since>>
     /\ n \in dirty'

LEMMA CallEffect ==
  ASSUME TypeOK, NEW c \in Call, Calls(c)
  PROVE  /\ UNCHANGED <<clock, loop, crashes, fired, stray>>
         /\ RestKept(ProcOf(c), NameOf(c))
         /\ \A m \in Name \ {NameOf(c)} : db'[m] = db[m]
         /\ CallSteps(c)
         /\ TypeOK'
<1> DEFINE p == ProcOf(c)
           n == NameOf(c)
           Kept == UNCHANGED <<clock, loop, crashes, fired, stray>>
<1>0. /\ p \in Process /\ n \in Name /\ Fresh(c) \in Entry
      /\ tasks \in [Process -> [Name -> Entry \cup {None}]]
      /\ baseline \in [Process -> [Name -> Time \cup {None}]]
      /\ db \in [Name -> Entry \cup {None}]
      /\ call \in [Call -> {"new", "insert", "rebase", "unbase", "delete", "ok", "error", "lost"}]
      /\ since \in [Call -> Time \cup {None}]
      /\ clock \in Time /\ dirty \subseteq Name
  BY OpFacts, EntryFacts, TypeFacts
<1>1. /\ dirty' \subseteq Name
      /\ call' \in [Call -> {"new", "insert", "rebase", "unbase", "delete", "ok", "error", "lost"}]
      /\ Kept
  <2>1. dirty' \subseteq Name
    BY <1>0 DEF Calls, Add, AddFails, AddInsert, AddBaseline, Remove, RemoveBaseline, RemoveDelete,
               RemoveFails, Taint, ghosts, Overlapped
  <2>2. call' \in [Call -> {"new", "insert", "rebase", "unbase", "delete", "ok", "error", "lost"}]
    BY <1>0 DEF Calls, Add, AddFails, AddInsert, AddBaseline, Remove, RemoveBaseline, RemoveDelete,
               RemoveFails, Goto
  <2>3. Kept
    BY DEF Calls, Add, AddFails, AddInsert, AddBaseline, Remove, RemoveBaseline, RemoveDelete,
               RemoveFails, ghosts
  <2> QED BY <2>1, <2>2, <2>3
<1>2. SUFFICES /\ RestKept(p, n) /\ \A m \in Name \ {n} : db'[m] = db[m]
               /\ CallSteps(c)
               /\ tasks' \in [Process -> [Name -> Entry \cup {None}]]
               /\ baseline' \in [Process -> [Name -> Time \cup {None}]]
               /\ db' \in [Name -> Entry \cup {None}]
               /\ since' \in [Call -> Time \cup {None}]
  BY <1>1 DEF TypeOK
<1>3. CASE Add(c)
  <2>1. /\ call[c] = "new" /\ call' = [call EXCEPT ![c] = "insert"] /\ Running(p)
        /\ db' = [db EXCEPT ![n] = Fresh(c)] /\ UNCHANGED <<tasks, baseline, since>>
    BY <1>3 DEF Add, Goto
  <2> QED BY <1>0, <2>1 DEF CallSteps, CallGoes, RestKept
<1>4. CASE AddFails(c)
  <2>1. /\ call[c] = "new" /\ call' = [call EXCEPT ![c] = "error"]
        /\ Running(p) /\ UNCHANGED <<db, tasks, baseline, since>>
    BY <1>4 DEF AddFails, Goto, store, ghosts
  <2> QED BY <1>0, <2>1 DEF CallSteps, CallGoes, RestKept
<1>5. CASE AddInsert(c)
  <2>1. /\ call[c] = "insert" /\ call' = [call EXCEPT ![c] = "rebase"]
        /\ tasks' = [tasks EXCEPT ![p][n] = Fresh(c)]
        /\ since' = [since EXCEPT ![c] = clock] /\ UNCHANGED <<db, baseline>>
    BY <1>5 DEF AddInsert, Goto
  <2> QED BY <1>0, <2>1 DEF CallSteps, CallGoes, RestKept
<1>6. CASE AddBaseline(c)
  <2>1. /\ call[c] = "rebase" /\ call' = [call EXCEPT ![c] = "ok"]
        /\ baseline' = [baseline EXCEPT ![p][n] = clock] /\ UNCHANGED <<db, tasks, since>>
    BY <1>6 DEF AddBaseline, Goto
  <2> QED BY <1>0, <2>1 DEF CallSteps, CallGoes, RestKept
<1>7. CASE Remove(c)
  <2>1. /\ call[c] = "new" /\ tasks' = [tasks EXCEPT ![p][n] = None] /\ Running(p)
        /\ call' = [call EXCEPT ![c] = IF tasks[p][n] # None THEN "unbase" ELSE "error"]
        /\ UNCHANGED <<db, baseline, since>>
    BY <1>7 DEF Remove, Goto
  <2>2. CASE tasks[p][n] # None
    <3>1. CallGoes(c, "new", "unbase") /\ tasks'[p][n] = None
      BY <1>0, <2>1, <2>2 DEF CallGoes
    <3> QED BY <1>0, <2>1, <3>1 DEF CallSteps, RestKept
  <2>3. CASE tasks[p][n] = None
    <3>1. CallGoes(c, "new", "error") /\ tasks' = tasks
      BY <1>0, <2>1, <2>3 DEF CallGoes
    <3> QED BY <1>0, <2>1, <3>1 DEF CallSteps, RestKept
  <2> QED BY <2>2, <2>3
<1>8. CASE RemoveBaseline(c)
  <2>1. /\ call[c] = "unbase" /\ call' = [call EXCEPT ![c] = "delete"]
        /\ baseline' = [baseline EXCEPT ![p][n] = None] /\ UNCHANGED <<db, tasks, since>>
    BY <1>8 DEF RemoveBaseline, Goto
  <2> QED BY <1>0, <2>1 DEF CallSteps, CallGoes, RestKept
<1>9. CASE RemoveDelete(c)
  <2>1. /\ call[c] = "delete" /\ call' = [call EXCEPT ![c] = "ok"]
        /\ db' = [db EXCEPT ![n] = None] /\ UNCHANGED <<tasks, baseline, since>>
    BY <1>9 DEF RemoveDelete, Goto
  <2> QED BY <1>0, <2>1 DEF CallSteps, CallGoes, RestKept
<1>10. CASE RemoveFails(c)
  <2>1. /\ call[c] = "delete" /\ call' = [call EXCEPT ![c] = "error"]
        /\ UNCHANGED <<db, tasks, baseline, since>> /\ n \in dirty'
    BY <1>10 DEF RemoveFails, Goto, store, Taint
  <2> QED BY <1>0, <2>1 DEF CallSteps, CallGoes, RestKept
<1> QED BY <1>3, <1>4, <1>5, <1>6, <1>7, <1>8, <1>9, <1>10 DEF Calls

LEMMA DueType ==
  ASSUME TypeOK, NEW p \in Process
  PROVE  DueTasks(p) \subseteq Firing
<1> SUFFICES ASSUME NEW n \in Name, tasks[p][n] # None
             PROVE  [name |-> n, def |-> tasks[p][n].def,
                     window |-> Window(tasks[p][n].def, After(p, n), loop[p].now)] \in Firing
  BY DEF DueTasks
<1>1. tasks[p][n].def \in Call
  BY EntryFacts, TypeFacts
<1>2. Window(tasks[p][n].def, After(p, n), loop[p].now) \subseteq Time
  BY <1>1, OpFacts DEF Window
<1> QED BY <1>1, <1>2 DEF Firing

(* A step of the loop of p: where it goes, the tick's time and what is left to fire. *)
LoopGoes(p, to, now, due, cur) ==
  /\ loop' \in [Process -> LoopState]
  /\ \A q \in Process \ {p} : loop'[q] = loop[q]
  /\ loop'[p].pc = to /\ loop'[p].now = now /\ loop'[p].due = due /\ loop'[p].cur = cur

LEMMA SeedEffect ==
  ASSUME TypeOK, NEW p \in Process, Seed(p)
  PROVE  /\ loop[p].pc = "seed" /\ LoopGoes(p, "idle", loop[p].now, loop[p].due, loop[p].cur)
         /\ UNCHANGED <<clock, tasks, db, call, crashes, ghosts>>
         /\ \A q \in Process \ {p} : baseline'[q] = baseline[q]
         /\ \A n \in Name : baseline'[p][n] =
              IF tasks[p][n] # None /\ baseline[p][n] = None THEN clock ELSE baseline[p][n]
         /\ baseline' \in [Process -> [Name -> Time \cup {None}]]
<1>1. /\ loop \in [Process -> LoopState] /\ loop[p].pc = "seed"
      /\ loop' = [loop EXCEPT ![p].pc = "idle"]
  BY TypeFacts DEF Seed, LoopGoto
<1>2. LoopGoes(p, "idle", loop[p].now, loop[p].due, loop[p].cur)
  BY <1>1 DEF LoopGoes, LoopState
<1> QED BY <1>1, <1>2, TypeFacts DEF Seed

LEMMA TickEffect ==
  ASSUME TypeOK, NEW p \in Process, Tick(p)
  PROVE  /\ loop[p].pc = "idle" /\ LoopGoes(p, "snapshot", clock, loop[p].due, loop[p].cur)
         /\ UNCHANGED <<clock, store, call, crashes, ghosts>>
<1>1. /\ loop \in [Process -> LoopState] /\ clock \in Time
      /\ loop' = [loop EXCEPT ![p] = [loop[p] EXCEPT !.pc = "snapshot", !.now = clock]]
  BY TypeFacts DEF Tick
<1>2. LoopGoes(p, "snapshot", clock, loop[p].due, loop[p].cur)
  BY <1>1 DEF LoopGoes, LoopState
<1> QED BY <1>2 DEF Tick

LEMMA SnapshotEffect ==
  ASSUME TypeOK, NEW p \in Process, Snapshot(p)
  PROVE  /\ loop[p].pc = "snapshot"
         /\ LoopGoes(p, IF DueTasks(p) = {} THEN "idle" ELSE "fire", loop[p].now, DueTasks(p),
                     loop[p].cur)
         /\ UNCHANGED <<clock, store, call, crashes, ghosts>>
<1>1. /\ loop \in [Process -> LoopState] /\ DueTasks(p) \subseteq Firing
      /\ loop' = [loop EXCEPT ![p] = [loop[p] EXCEPT !.due = DueTasks(p),
                                        !.pc = IF DueTasks(p) = {} THEN "idle" ELSE "fire"]]
  BY TypeFacts, DueType DEF Snapshot
<1>2. LoopGoes(p, IF DueTasks(p) = {} THEN "idle" ELSE "fire", loop[p].now, DueTasks(p),
               loop[p].cur)
  BY <1>1 DEF LoopGoes, LoopState
<1> QED BY <1>2 DEF Snapshot

LEMMA FireEffect ==
  ASSUME TypeOK, NEW p \in Process, NEW f \in loop[p].due, Fire(p, f)
  PROVE  /\ loop[p].pc = "fire" /\ LoopGoes(p, "running", loop[p].now, loop[p].due \ {f}, f)
         /\ UNCHANGED <<clock, tasks, db, call, crashes, since, dirty>>
         /\ baseline'[p][f.name] = loop[p].now
         /\ RestKept(p, f.name)
         /\ \A c \in Call \ {f.def} : fired'[c] = fired[c] /\ stray'[c] = stray[c]
         /\ fired'[f.def] = fired[f.def] \cup f.window
         /\ stray'[f.def] = IF Held(f.def) THEN 0 ELSE stray[f.def] + 1
         /\ baseline' \in [Process -> [Name -> Time \cup {None}]]
         /\ fired' \in [Call -> SUBSET Time] /\ stray' \in [Call -> Nat]
<1>1. /\ loop \in [Process -> LoopState] /\ loop[p].now \in Time /\ loop[p].due \subseteq Firing
      /\ f \in Firing /\ f.name \in Name /\ f.def \in Call /\ f.window \subseteq Time
      /\ loop' = [loop EXCEPT ![p] = [loop[p] EXCEPT !.pc = "running", !.due = loop[p].due \ {f},
                                        !.cur = f]]
  BY TypeFacts, LoopFacts, FiringFacts DEF Fire
<1>2. LoopGoes(p, "running", loop[p].now, loop[p].due \ {f}, f)
  BY <1>1 DEF LoopGoes, LoopState
<1>3. /\ baseline' = [baseline EXCEPT ![p][f.name] = loop[p].now] /\ tasks' = tasks
      /\ baseline \in [Process -> [Name -> Time \cup {None}]]
  BY TypeFacts DEF Fire
<1>4. /\ baseline'[p][f.name] = loop[p].now /\ RestKept(p, f.name)
      /\ baseline' \in [Process -> [Name -> Time \cup {None}]]
  BY <1>1, <1>3 DEF RestKept
<1>5. /\ fired \in [Call -> SUBSET Time] /\ stray \in [Call -> Nat]
      /\ fired' = [fired EXCEPT ![f.def] = @ \cup f.window]
      /\ stray' = [stray EXCEPT ![f.def] = IF Held(f.def) THEN 0 ELSE @ + 1]
  BY TypeFacts DEF Fire
<1> QED BY <1>1, <1>2, <1>4, <1>5 DEF Fire

(* Where the loop is after a task, in Following's words. *)
LEMMA FollowingType == \A p \in Process : Following(p) \in {"idle", "fire"}
  BY DEF Following

LEMMA RecordEffect ==
  ASSUME Typed, NEW p \in Process, Record(p)
  PROVE  LET n == loop[p].cur.name IN
         /\ loop[p].pc = "running" /\ n \in Name
         /\ UNCHANGED <<clock, baseline, db, call, crashes, since, fired, stray>>
         /\ RestKept(p, n)
         /\ tasks' \in [Process -> [Name -> Entry \cup {None}]]
         /\ \/ /\ tasks[p][n] = None /\ tasks' = tasks
               /\ LoopGoes(p, Following(p), loop[p].now, loop[p].due, None)
            \/ /\ tasks[p][n] # None /\ tasks[p][n] \in Entry
               /\ tasks'[p][n] = [tasks[p][n] EXCEPT !.runs = tasks[p][n].runs + 1,
                                                     !.last = loop[p].now]
               /\ tasks'[p][n] \in Entry
               /\ LoopGoes(p, "persist", loop[p].now, loop[p].due, loop[p].cur)
               /\ loop'[p].count = tasks[p][n].runs + 1
<1> DEFINE n == loop[p].cur.name
<1>1. /\ loop \in [Process -> LoopState] /\ loop[p].now \in Time /\ loop[p] \in LoopState
      /\ n \in Name /\ loop[p].pc = "running" /\ Following(p) \in {"idle", "fire"}
      /\ tasks \in [Process -> [Name -> Entry \cup {None}]]
      /\ UNCHANGED <<clock, baseline, db, call, crashes, since, fired, stray>>
  <2>1. loop \in [Process -> LoopState] /\ loop[p].pc = "running"
    BY TypeFacts DEF Record, Typed
  <2>2. loop[p] \in LoopState
    BY <2>1
  <2>3. n \in Name
    BY <2>1, FiringFacts DEF Typed, Current
  <2> QED BY <2>1, <2>2, <2>3, TypeFacts, LoopFacts, FollowingType DEF Record, Typed
<1>2. CASE tasks[p][n] = None
  <2>1. /\ tasks' = tasks
        /\ loop' = [loop EXCEPT ![p] = [loop[p] EXCEPT !.pc = Following(p), !.cur = None]]
    BY <1>2 DEF Record
  <2>2. LoopGoes(p, Following(p), loop[p].now, loop[p].due, None)
    BY <1>1, <2>1 DEF LoopGoes, LoopState
  <2> QED BY <1>1, <1>2, <2>1, <2>2 DEF RestKept
<1>3. CASE tasks[p][n] # None
  <2>1. tasks[p][n] \in Entry
    BY <1>1, <1>3
  <2>2. PICK k \in Nat : k = tasks[p][n].runs + 1
    BY <2>1, EntryFacts
  <2>3. PICK r \in Entry : r = [tasks[p][n] EXCEPT !.runs = k]
    BY <2>1, <2>2 DEF Entry
  <2>4. PICK e \in Entry : e = [r EXCEPT !.last = loop[p].now]
    BY <1>1, <2>3 DEF Entry
  <2>5. PICK g \in [Process -> [Name -> Entry \cup {None}]] : g = [tasks EXCEPT ![p][n] = r]
    BY <1>1, SetAt
  <2>6. /\ g[p][n] = r
        /\ \A q \in Process : \A m \in Name : q # p \/ m # n => g[q][m] = tasks[q][m]
    BY <1>1, <2>5, SetAt
  <2>7. tasks' = [g EXCEPT ![p][n] = e]
    <3>1. tasks' = [[tasks EXCEPT ![p][n].runs = @ + 1] EXCEPT ![p][n].last = loop[p].now]
      BY <1>3 DEF Record
    <3>2. [tasks EXCEPT ![p][n].runs = @ + 1] =
            [tasks EXCEPT ![p][n] = [tasks[p][n] EXCEPT !.runs = tasks[p][n].runs + 1]]
      BY <1>1
    <3>3. tasks' = [g EXCEPT ![p][n].last = loop[p].now]
      BY <2>2, <2>3, <2>5, <3>1, <3>2
    <3>4. [g EXCEPT ![p][n].last = loop[p].now] =
            [g EXCEPT ![p][n] = [g[p][n] EXCEPT !.last = loop[p].now]]
      BY <1>1
    <3> QED BY <2>4, <2>6, <3>3, <3>4
  <2>8. /\ tasks'[p][n] = e /\ tasks' \in [Process -> [Name -> Entry \cup {None}]]
        /\ RestKept(p, n)
    <3>1. \A q \in Process : \A m \in Name : q # p \/ m # n => tasks'[q][m] = g[q][m]
      BY <1>1, <2>7, SetAt
    <3>2. tasks'[p][n] = e /\ tasks' \in [Process -> [Name -> Entry \cup {None}]]
      BY <1>1, <2>7, SetAt
    <3> QED BY <1>1, <2>6, <3>1, <3>2 DEF RestKept
  <2>9. loop' = [loop EXCEPT ![p] = [loop[p] EXCEPT !.pc = "persist", !.count = k]]
    BY <1>3, <2>2 DEF Record
  <2>10. /\ LoopGoes(p, "persist", loop[p].now, loop[p].due, loop[p].cur)
         /\ loop'[p].count = k
    BY <1>1, <2>9 DEF LoopGoes, LoopState
  <2>11. e = [tasks[p][n] EXCEPT !.runs = tasks[p][n].runs + 1, !.last = loop[p].now]
    BY <2>2, <2>3, <2>4
  <2> QED BY <1>1, <1>3, <2>1, <2>2, <2>8, <2>10, <2>11
<1> QED BY <1>2, <1>3

LEMMA PersistEffect ==
  ASSUME Typed, NEW p \in Process, Persist(p) \/ PersistFails(p)
  PROVE  LET n == loop[p].cur.name IN
         /\ loop[p].pc = "persist" /\ n \in Name
         /\ LoopGoes(p, Following(p), loop[p].now, loop[p].due, None)
         /\ UNCHANGED <<clock, tasks, baseline, call, crashes, since, fired, stray>>
         /\ \A m \in Name \ {n} : db'[m] = db[m]
         /\ db' \in [Name -> Entry \cup {None}]
         /\ db[n] = None => db'[n] = None
         /\ db[n] # None =>
              /\ db[n] \in Entry
              /\ db'[n] \in {db[n], [db[n] EXCEPT !.runs = loop[p].count, !.last = loop[p].now]}
<1> DEFINE n == loop[p].cur.name
<1>1. /\ loop \in [Process -> LoopState] /\ loop[p].now \in Time /\ loop[p].count \in Nat
      /\ n \in Name /\ loop[p].pc = "persist" /\ Following(p) \in {"idle", "fire"}
      /\ db \in [Name -> Entry \cup {None}]
  <2>1. loop \in [Process -> LoopState] /\ loop[p].pc = "persist"
    BY TypeFacts DEF Persist, PersistFails, Typed
  <2>2. loop[p] \in LoopState
    BY <2>1
  <2>3. n \in Name
    BY <2>1, FiringFacts DEF Typed, Current
  <2> QED BY <2>1, <2>2, <2>3, TypeFacts, LoopFacts, FollowingType DEF Typed
<1>2. /\ loop' = [loop EXCEPT ![p] = [loop[p] EXCEPT !.pc = Following(p), !.cur = None]]
      /\ UNCHANGED <<clock, tasks, baseline, call, crashes, since, fired, stray>>
  BY DEF Persist, PersistFails, store
<1>3. LoopGoes(p, Following(p), loop[p].now, loop[p].due, None)
  BY <1>1, <1>2 DEF LoopGoes, LoopState
<1>4. CASE Persist(p)
  <2>1. db' = [db EXCEPT ![n] = IF db[n] = None THEN None
                          ELSE [db[n] EXCEPT !.runs = loop[p].count, !.last = loop[p].now]]
    BY <1>4 DEF Persist
  <2>2. db[n] # None => /\ db[n] \in Entry
                        /\ [db[n] EXCEPT !.runs = loop[p].count, !.last = loop[p].now] \in Entry
    BY <1>1 DEF Entry
  <2> QED BY <1>1, <1>2, <1>3, <2>1, <2>2
<1>5. CASE PersistFails(p)
  BY <1>1, <1>2, <1>3, <1>5 DEF PersistFails, store
<1> QED BY <1>4, <1>5

LEMMA StartEffect ==
  ASSUME TypeOK, NEW p \in Process, Start(p)
  PROVE  /\ loop[p].pc = "down" /\ LoopGoes(p, "seed", loop[p].now, loop[p].due, loop[p].cur)
         /\ tasks'[p] = db /\ \A q \in Process \ {p} : tasks'[q] = tasks[q]
         /\ UNCHANGED <<clock, baseline, db, call, crashes, fired, dirty>>
         /\ \A c \in Call : stray'[c] = IF Stored(c) THEN 0 ELSE stray[c]
         /\ TypeOK'
<1>1. /\ loop \in [Process -> LoopState] /\ loop[p].pc = "down"
      /\ loop' = [loop EXCEPT ![p].pc = "seed"]
  BY TypeFacts DEF Start, LoopGoto
<1>2. LoopGoes(p, "seed", loop[p].now, loop[p].due, loop[p].cur)
  BY <1>1 DEF LoopGoes, LoopState
<1>3. /\ tasks'[p] = db /\ \A q \in Process \ {p} : tasks'[q] = tasks[q]
      /\ tasks' \in [Process -> [Name -> Entry \cup {None}]]
  BY TypeFacts DEF Start
<1>4. /\ since' \in [Call -> Time \cup {None}] /\ stray' \in [Call -> Nat]
      /\ \A c \in Call : stray'[c] = IF Stored(c) THEN 0 ELSE stray[c]
  BY TypeFacts DEF Start
<1>5. loop' \in [Process -> LoopState]
  BY <1>2 DEF LoopGoes
<1> QED BY <1>1, <1>2, <1>3, <1>4, <1>5 DEF Start, TypeOK, LoopState

LEMMA CrashEffect ==
  ASSUME TypeOK, NEW p \in Process, Crash(p)
  PROVE  /\ Running(p) /\ LoopGoes(p, "down", 0, {}, None)
         /\ \A n \in Name : tasks'[p][n] = None /\ baseline'[p][n] = None
         /\ \A q \in Process \ {p} : tasks'[q] = tasks[q] /\ baseline'[q] = baseline[q]
         /\ \A c \in Call : call'[c] = IF Busy(c) /\ ProcOf(c) = p THEN "lost" ELSE call[c]
         /\ UNCHANGED <<clock, db, ghosts>>
         /\ TypeOK'
<1>1. /\ loop \in [Process -> LoopState] /\ Stopped \in LoopState
      /\ loop' = [loop EXCEPT ![p] = Stopped]
  BY TypeFacts, TimeFacts DEF Crash, LoopState, Stopped
<1>2. LoopGoes(p, "down", 0, {}, None)
  BY <1>1 DEF LoopGoes, Stopped
<1>3. /\ \A n \in Name : tasks'[p][n] = None /\ baseline'[p][n] = None
      /\ \A q \in Process \ {p} : tasks'[q] = tasks[q] /\ baseline'[q] = baseline[q]
      /\ tasks' \in [Process -> [Name -> Entry \cup {None}]]
      /\ baseline' \in [Process -> [Name -> Time \cup {None}]]
  BY TypeFacts DEF Crash
<1>4. /\ call' \in [Call -> {"new", "insert", "rebase", "unbase", "delete", "ok", "error", "lost"}]
      /\ \A c \in Call : call'[c] = IF Busy(c) /\ ProcOf(c) = p THEN "lost" ELSE call[c]
  BY TypeFacts DEF Crash
<1>5. crashes' \in 0..MaxCrashes
  BY BoundsType DEF Crash, TypeOK
<1>6. loop' \in [Process -> LoopState]
  BY <1>2 DEF LoopGoes
<1> QED BY <1>1, <1>2, <1>3, <1>4, <1>5, <1>6 DEF Crash, TypeOK, LoopState, ghosts

-----------------------------------------------------------------------------
(* Types *)

LEMMA InitTyped == Init => Typed
  BY BoundsType, TimeFacts DEF Init, Typed, TypeOK, Current, Stopped

LEMMA LoopTyped ==
  ASSUME Typed, NEW p \in Process, Loop(p)
  PROVE  Typed'
<1>0. TypeOK /\ Current
  BY DEF Typed
<1>1. ASSUME NEW to, NEW now, NEW due, NEW cur, LoopGoes(p, to, now, due, cur),
             to \in {"running", "persist"} => cur \in Firing
      PROVE  loop' \in [Process -> LoopState] /\ Current'
  BY <1>0, <1>1 DEF LoopGoes, Current
<1>2. ASSUME loop' \in [Process -> LoopState], UNCHANGED <<clock, crashes, since>>,
             call' = call, dirty' \subseteq Name, db' \in [Name -> Entry \cup {None}],
             tasks' \in [Process -> [Name -> Entry \cup {None}]],
             baseline' \in [Process -> [Name -> Time \cup {None}]],
             fired' \in [Call -> SUBSET Time], stray' \in [Call -> Nat], Current'
      PROVE  Typed'
  BY <1>0, <1>2 DEF Typed, TypeOK, LoopState
<1>3. /\ dirty \subseteq Name /\ db \in [Name -> Entry \cup {None}]
      /\ tasks \in [Process -> [Name -> Entry \cup {None}]]
      /\ baseline \in [Process -> [Name -> Time \cup {None}]]
      /\ fired \in [Call -> SUBSET Time] /\ stray \in [Call -> Nat] /\ loop \in [Process -> LoopState]
      /\ Following(p) \notin {"running", "persist"}
  BY <1>0, TypeFacts, FollowingType
<1>4. CASE Seed(p)
  BY <1>0, <1>1, <1>2, <1>3, <1>4, SeedEffect DEF ghosts
<1>5. CASE Tick(p)
  BY <1>0, <1>1, <1>2, <1>3, <1>5, TickEffect DEF ghosts, store
<1>6. CASE Snapshot(p)
  BY <1>0, <1>1, <1>2, <1>3, <1>6, SnapshotEffect DEF ghosts, store
<1>7. ASSUME NEW f \in loop[p].due, Fire(p, f) PROVE Typed'
  <2>1. f \in Firing
    BY <1>3, LoopFacts
  <2> QED BY <1>0, <1>1, <1>2, <1>3, <1>7, <2>1, FireEffect
<1>8. CASE Record(p)
  <2>1. dirty' \subseteq Name
    BY <1>3, <1>8 DEF Record, Taint, Overlapped
  <2>2. loop[p].cur \in Firing
    BY <1>0, <1>8, RecordEffect DEF Current
  <2>3. loop' \in [Process -> LoopState] /\ Current'
    BY <1>1, <1>3, <1>8, <2>2, RecordEffect
  <2> QED BY <1>2, <1>3, <1>8, <2>1, <2>3, RecordEffect
<1>9. CASE Persist(p) \/ PersistFails(p)
  <2>0. loop[p].cur.name \in Name
    BY <1>9, PersistEffect
  <2>1. dirty' \subseteq Name
    <3>1. Overlapped' \subseteq Name
      BY DEF Overlapped
    <3> QED BY <1>3, <1>9, <2>0, <3>1 DEF Persist, PersistFails, Taint
  <2>2. loop' \in [Process -> LoopState] /\ Current'
    BY <1>1, <1>3, <1>9, PersistEffect
  <2> QED BY <1>2, <1>3, <1>9, <2>1, <2>2, PersistEffect
<1> QED BY <1>4, <1>5, <1>6, <1>7, <1>8, <1>9 DEF Loop

LEMMA NextTyped == Typed /\ [Next]_vars => Typed'
<1> SUFFICES ASSUME Typed, [Next]_vars PROVE Typed'
  OBVIOUS
<1>0. TypeOK /\ Current
  BY DEF Typed
<1>1. CASE Advance
  <2>1. clock' \in Time
    BY <1>1, <1>0, BoundsType DEF Advance, TypeOK, Time
  <2> QED BY <1>0, <1>1, <2>1 DEF Advance, Typed, TypeOK, Current, store, ghosts
<1>2. ASSUME NEW c \in Call, Calls(c) PROVE Typed'
  BY <1>0, <1>2, CallEffect DEF Typed, Current
<1>3. ASSUME NEW p \in Process, Start(p) PROVE Typed'
  BY <1>0, <1>3, StartEffect DEF Typed, Current, LoopGoes
<1>4. ASSUME NEW p \in Process, Crash(p) PROVE Typed'
  BY <1>0, <1>4, CrashEffect DEF Typed, Current, LoopGoes
<1>5. CASE UNCHANGED vars
  BY <1>0, <1>5 DEF Typed, TypeOK, Current, vars
<1> QED BY <1>1, <1>2, <1>3, <1>4, <1>5, LoopTyped DEF Next

(* The scheduler's variables have their types, for any number of processes,
   names and calls. *)
THEOREM TypeCorrect == Spec => []TypeOK
<1>1. Typed => TypeOK BY DEF Typed
<1> QED BY <1>1, InitTyped, NextTyped, PTL DEF Spec

-----------------------------------------------------------------------------
(* What is fired, and what remembers it.  One process runs the scheduler: two    *)
(* of them would each load the file, and each fire what is in it.               *)

OneProcess == \A p, q \in Process : p = q

UpTo(S, t) == \A u \in S : u <= t

(* Nothing is of the future. *)
Past ==
  /\ \A c \in Call : UpTo(fired[c], clock)
  /\ \A p \in Process : /\ loop[p].now <= clock
                        /\ \A n \in Name : baseline[p][n] # None => baseline[p][n] <= clock

(* A definition is found under its own name. *)
Named ==
  /\ \A p \in Process : \A n \in Name : tasks[p][n] # None => NameOf(tasks[p][n].def) = n
  /\ \A n \in Name : db[n] # None => NameOf(db[n].def) = n

(* Before `add` inserts it a definition is in no memory and was never fired. *)
Unknown(c) == /\ \A p \in Process : \A n \in Name : tasks[p][n] # None => tasks[p][n].def # c
              /\ \A p \in Process : \A f \in loop[p].due : f.def # c
NotYet ==
  \A c \in Call : /\ call[c] = "new" => \A n \in Name : db[n] # None => db[n].def # c
                  /\ call[c] \in {"new", "insert"} => fired[c] = {} /\ stray[c] = 0 /\ Unknown(c)

(* A call in progress is one of a live process, and a dead one has no memory. *)
Lives ==
  /\ \A c \in Call : Busy(c) => Running(ProcOf(c))
  /\ \A p \in Process : ~ Running(p) =>
        loop[p].due = {} /\ \A n \in Name : tasks[p][n] = None /\ baseline[p][n] = None

(* The firings of the definition in memory are remembered: by its baseline; and
   where that is gone, or a `remove` of a former definition is about to drop it,
   by its last run, unless that is yet to be recorded. *)
Waiting(n) == \E c \in Call : call[c] = "unbase" /\ NameOf(c) = n
Exposed(p, n) == Waiting(n) \/ (baseline[p][n] = None /\ loop[p].pc \notin {"down", "seed"})
Recording(p, n) == loop[p].pc = "running" /\ loop[p].cur.name = n
Covered(p, n) ==
  tasks[p][n] # None =>
    LET c == tasks[p][n].def IN
    /\ baseline[p][n] # None => UpTo(fired[c], baseline[p][n])
    /\ Exposed(p, n) =>
         /\ UpTo(fired[c], loop[p].now)
         /\ tasks[p][n].last # None /\ ~ Recording(p, n) => UpTo(fired[c], tasks[p][n].last)

(* What a tick has collected is one firing for a name, later than all before. *)
Collected(p) ==
  /\ loop[p].pc \notin {"fire", "running", "persist"} => loop[p].due = {}
  /\ \A f, g \in loop[p].due : f.name = g.name => f = g
  /\ \A f \in loop[p].due :
       /\ f.name = NameOf(f.def)
       /\ UpTo(f.window, loop[p].now)
       /\ UpTo(fired[f.def], loop[p].now)
       /\ \A t \in fired[f.def] : \A u \in f.window : t < u
       /\ tasks[p][f.name] # None => UpTo(fired[tasks[p][f.name].def], loop[p].now)

Remembered ==
  /\ Typed /\ Past /\ Named /\ NotYet /\ Lives
  /\ \A p \in Process : Collected(p) /\ \A n \in Name : Covered(p, n)

LEMMA InitRemembered == Init => Remembered
  BY InitTyped DEF Init, Remembered, Past, Named, NotYet, Unknown, Lives, Covered, Collected, Busy,
     Running, Stopped, UpTo

(* The instants compared are numbers. *)
LEMMA Instants ==
  ASSUME TypeOK
  PROVE  /\ \A c \in Call : fired[c] \subseteq Time
         /\ \A p \in Process : /\ loop[p].now \in Time /\ loop[p].due \subseteq Firing
                               /\ loop[p] \in LoopState
         /\ \A p \in Process : \A n \in Name :
              /\ baseline[p][n] \in Time \cup {None}
              /\ tasks[p][n] # None => tasks[p][n] \in Entry
         /\ \A n \in Name : db[n] # None => db[n] \in Entry
         /\ clock \in Time
  BY TypeFacts, LoopFacts

(* The calls: one at a time, at the name they are about. *)
LEMMA CallRemembered ==
  ASSUME OneProcess, Remembered, NEW c \in Call, Calls(c)
  PROVE  Remembered'
<1> DEFINE p == ProcOf(c)
           n == NameOf(c)
<1>0. /\ TypeOK /\ Typed /\ Past /\ Named /\ NotYet /\ Lives /\ p \in Process /\ n \in Name
      /\ \A q \in Process : q = p /\ Collected(q) /\ \A m \in Name : Covered(q, m)
  BY OpFacts DEF Remembered, Typed, OneProcess
<1>1. /\ UNCHANGED <<clock, loop, crashes, fired, stray>> /\ RestKept(p, n)
      /\ \A m \in Name \ {n} : db'[m] = db[m]
      /\ CallSteps(c) /\ TypeOK' /\ Typed'
  BY <1>0, CallEffect DEF Typed, Current
<1>2. \A d \in Call \ {c} : call'[d] = call[d]
  BY <1>1 DEF CallSteps, CallGoes
<1>3. Fresh(c).def = c /\ Fresh(c).last = None /\ clock \in Time /\ clock # None
  BY <1>0, EntryFacts, TimeFacts, TypeFacts
<1>4. Past'
  <2>1. baseline'[p][n] # None => baseline'[p][n] <= clock
    BY <1>0, <1>1, <1>3, TimeFacts DEF CallSteps, Past, Time
  <2> QED BY <1>0, <1>1, <2>1 DEF Past, RestKept
<1>5. Named'
  <2>1. tasks'[p][n] # None => NameOf(tasks'[p][n].def) = n
    BY <1>0, <1>1, <1>3 DEF CallSteps, Named
  <2>2. db'[n] # None => NameOf(db'[n].def) = n
    BY <1>0, <1>1, <1>3 DEF CallSteps, Named
  <2> QED BY <1>0, <1>1, <2>1, <2>2 DEF Named, RestKept
<1>6. NotYet'
  <2> SUFFICES ASSUME NEW d \in Call
               PROVE  /\ call'[d] = "new" => \A m \in Name : db'[m] # None => db'[m].def # d
                      /\ call'[d] \in {"new", "insert"} =>
                           fired[d] = {} /\ stray[d] = 0 /\ Unknown(d)'
    BY <1>1 DEF NotYet
  <2>1. \A m \in Name : db'[m] # None => db'[m] = db[m] \/ db'[m].def = c
    BY <1>0, <1>1, <1>3 DEF CallSteps
  <2>2. \A q \in Process : \A m \in Name : tasks'[q][m] # None =>
           tasks'[q][m] = tasks[q][m] \/ (tasks'[q][m].def = c /\ call'[c] = "rebase")
    BY <1>0, <1>1, <1>3 DEF CallSteps, RestKept, CallGoes
  <2>3. CASE d # c
    BY <1>0, <1>1, <1>2, <2>1, <2>2, <2>3 DEF NotYet, Unknown
  <2>4. CASE d = c
    <3>1. call'[c] \in {"new", "insert"} => call[c] = "new" /\ call'[c] = "insert"
      BY <1>1 DEF CallSteps, CallGoes
    <3> QED BY <1>0, <1>1, <2>2, <2>4, <3>1 DEF NotYet, Unknown
  <2> QED BY <2>3, <2>4
<1>7. Lives'
  <2>1. Running(p) /\ \A q \in Process : q = p
    BY <1>0, <1>1 DEF CallSteps, CallGoes, Lives, Busy
  <2> QED BY <1>1, <2>1, OpFacts DEF Lives, Running
<1>8. Collected(p)'
  <2>1. ASSUME tasks'[p][n] # None, tasks'[p][n] # tasks[p][n] PROVE fired[tasks'[p][n].def] = {}
    BY <1>0, <1>1, <1>3, <2>1 DEF CallSteps, CallGoes, NotYet
  <2>2. \A m \in Name : tasks'[p][m] # None =>
           tasks'[p][m] = tasks[p][m] \/ fired[tasks'[p][m].def] = {}
    BY <1>0, <1>1, <2>1 DEF RestKept
  <2>3. \A f \in loop[p].due : f.name \in Name
    BY <1>0, Instants, FiringFacts
  <2> QED BY <1>0, <1>1, <2>2, <2>3 DEF Collected, UpTo
<1>9. ASSUME NEW m \in Name PROVE Covered(p, m)'
  <2>1. CASE m # n
    <3>1. Waiting(m)' => Waiting(m)
      BY <1>2, <2>1 DEF Waiting
    <3>2. tasks'[p][m] = tasks[p][m] /\ baseline'[p][m] = baseline[p][m]
      BY <1>0, <1>1, <2>1 DEF RestKept
    <3> QED BY <1>0, <1>1, <3>1, <3>2 DEF Covered, Exposed, Recording
  <2>2. CASE m = n
    <3>0. Covered(p, n)
      BY <1>0
    <3>1. CASE CallGoes(c, "insert", "rebase") /\ tasks'[p][n] = Fresh(c)
      <4>1. fired[c] = {}
        BY <1>0, <3>1 DEF NotYet, CallGoes
      <4> QED BY <1>1, <1>3, <2>2, <3>1, <4>1 DEF Covered, UpTo
    <3>2. CASE CallGoes(c, "rebase", "ok") /\ baseline'[p][n] = clock /\ tasks' = tasks
      <4>1. Waiting(n)' => Waiting(n)
        BY <1>2, <3>2 DEF Waiting, CallGoes
      <4>2. tasks[p][n] # None => UpTo(fired[tasks[p][n].def], clock)
        BY <1>0, Instants, EntryFacts DEF Past
      <4> QED BY <1>1, <1>3, <2>2, <3>0, <3>2, <4>1, <4>2 DEF Covered, Exposed, Recording
    <3>3. CASE tasks'[p][n] = None
      BY <2>2, <3>3 DEF Covered
    <3>4. CASE CallGoes(c, "unbase", "delete") /\ baseline'[p][n] = None /\ tasks' = tasks
      <4>1. Waiting(n)
        BY <3>4 DEF Waiting, CallGoes
      <4> QED BY <1>1, <2>2, <3>0, <3>4, <4>1 DEF Covered, Exposed, Recording
    <3>5. CASE tasks' = tasks /\ baseline' = baseline /\ call'[c] # "unbase"
      <4>1. Waiting(n)' => Waiting(n)
        BY <1>2, <3>5 DEF Waiting
      <4> QED BY <1>1, <2>2, <3>0, <3>5, <4>1 DEF Covered, Exposed, Recording
    <3> QED BY <1>1, <3>1, <3>2, <3>3, <3>4, <3>5 DEF CallSteps, CallGoes
  <2> QED BY <2>1, <2>2
<1> QED BY <1>0, <1>1, <1>4, <1>5, <1>6, <1>7, <1>8, <1>9 DEF Remembered

LEMMA TickRemembered ==
  ASSUME OneProcess, Remembered, NEW p \in Process, Seed(p) \/ Tick(p) \/ Snapshot(p)
  PROVE  Remembered'
<1>0. /\ TypeOK /\ Typed /\ Past /\ Named /\ NotYet /\ Lives
      /\ \A q \in Process : q = p /\ Collected(q) /\ \A m \in Name : Covered(q, m)
      /\ Typed'
  BY LoopTyped DEF Remembered, Typed, OneProcess, Loop
<1>1. UNCHANGED <<clock, tasks, db, call, fired, stray>>
  BY <1>0, SeedEffect, TickEffect, SnapshotEffect DEF store, ghosts
<1>2. Named'
  BY <1>1 , <1>0 DEF Named
<1>3. CASE Seed(p)
  <2>1. /\ loop[p].pc = "seed" /\ LoopGoes(p, "idle", loop[p].now, loop[p].due, loop[p].cur)
        /\ \A n \in Name : baseline'[p][n] =
             IF tasks[p][n] # None /\ baseline[p][n] = None THEN clock ELSE baseline[p][n]
    BY <1>0, <1>3, SeedEffect
  <2>2. Past' /\ Lives' /\ NotYet' /\ Collected(p)'
    <3>1. Past'
      BY <1>0, <1>1, <2>1, Instants, TimeFacts DEF Past, LoopGoes
    <3>2. Lives'
      BY <1>0, <1>1, <2>1, OpFacts DEF Lives, LoopGoes, Running, Busy
    <3>3. NotYet'
      BY <1>0, <1>1, <2>1 DEF NotYet, Unknown, LoopGoes
    <3>4. Collected(p)'
      BY <1>0, <1>1, <2>1 DEF Collected, LoopGoes
    <3> QED BY <3>1, <3>2, <3>3, <3>4
  <2>3. ASSUME NEW n \in Name PROVE Covered(p, n)'
    <3> SUFFICES ASSUME tasks[p][n] # None PROVE Covered(p, n)'
      BY <1>1 DEF Covered
    <3>1. UpTo(fired[tasks[p][n].def], clock)
      BY <1>0, Instants, EntryFacts DEF Past
    <3>2. baseline'[p][n] # None /\ clock # None
      BY <1>0, <2>1, Instants, TimeFacts
    <3>3. Exposed(p, n)' => Exposed(p, n) /\ baseline'[p][n] # None
      BY <1>1, <3>2 DEF Exposed, Waiting
    <3>4. baseline[p][n] # None => baseline'[p][n] = baseline[p][n]
      BY <2>1
    <3>5. baseline[p][n] = None => baseline'[p][n] = clock
      BY <2>1
    <3> QED BY <1>0, <1>1, <2>1, <3>1, <3>3, <3>4, <3>5 DEF Covered, LoopGoes, Recording
  <2> QED BY <1>0, <1>2, <2>2, <2>3 DEF Remembered
<1>4. CASE Tick(p)
  <2>1. /\ loop[p].pc = "idle" /\ LoopGoes(p, "snapshot", clock, loop[p].due, loop[p].cur)
        /\ baseline' = baseline
    BY <1>0, <1>4, TickEffect DEF store
  <2>2. Past' /\ Lives' /\ NotYet'
    <3>1. Past'
      BY <1>0, <1>1, <2>1, Instants, TimeFacts DEF Past, LoopGoes
    <3>2. Lives'
      BY <1>0, <1>1, <2>1, OpFacts DEF Lives, LoopGoes, Running, Busy
    <3>3. NotYet'
      BY <1>0, <1>1, <2>1 DEF NotYet, Unknown, LoopGoes
    <3> QED BY <3>1, <3>2, <3>3
  <2>3. Collected(p)'
    BY <1>0, <1>1, <2>1 DEF Collected, LoopGoes
  <2>4. ASSUME NEW n \in Name PROVE Covered(p, n)'
    <3> SUFFICES ASSUME tasks[p][n] # None PROVE Covered(p, n)'
      BY <1>1 DEF Covered
    <3>1. UpTo(fired[tasks[p][n].def], clock)
      BY <1>0, Instants, EntryFacts DEF Past
    <3>2. Exposed(p, n)' => Exposed(p, n)
      BY <1>1, <2>1 DEF Exposed, Waiting
    <3> QED BY <1>0, <1>1, <2>1, <3>1, <3>2 DEF Covered, LoopGoes, Recording
  <2> QED BY <1>0, <1>2, <2>2, <2>3, <2>4 DEF Remembered
<1>5. CASE Snapshot(p)
  <2>1. /\ loop[p].pc = "snapshot" /\ baseline' = baseline
        /\ LoopGoes(p, IF DueTasks(p) = {} THEN "idle" ELSE "fire", loop[p].now, DueTasks(p),
                     loop[p].cur)
    BY <1>0, <1>5, SnapshotEffect DEF store
  <2>2. \A f \in DueTasks(p) :
          /\ f.name \in Name /\ tasks[p][f.name] # None /\ f.def = tasks[p][f.name].def
          /\ f.window = Window(f.def, After(p, f.name), loop[p].now) /\ f.window # {}
          /\ f = [name |-> f.name, def |-> f.def, window |-> f.window]
    BY DEF DueTasks
  <2>3. Past' /\ Lives'
    <3>1. Past'
      BY <1>0, <1>1, <2>1 DEF Past, LoopGoes
    <3>2. Lives'
      BY <1>0, <1>1, <2>1, OpFacts DEF Lives, LoopGoes, Running, Busy
    <3> QED BY <3>1, <3>2
  <2>4. NotYet'
    <3>1. \A c \in Call : Unknown(c) => Unknown(c)'
      BY <1>0, <1>1, <2>1, <2>2 DEF Unknown, LoopGoes
    <3> QED BY <1>0, <1>1, <3>1 DEF NotYet
  <2>5. ASSUME NEW f \in DueTasks(p)
        PROVE  /\ f.name = NameOf(f.def)
               /\ UpTo(f.window, loop[p].now) /\ UpTo(fired[f.def], loop[p].now)
               /\ \A t \in fired[f.def] : \A u \in f.window : t < u
    <3> DEFINE n == f.name
               e == tasks[p][n]
    <3>1. /\ n \in Name /\ e \in Entry /\ e.def \in Call /\ f.def = e.def /\ NameOf(e.def) = n
          /\ f.window = Window(e.def, After(p, n), loop[p].now) /\ f.window # {}
          /\ Covered(p, n) /\ loop[p].now \in Nat /\ e.last \in Time \cup {None}
          /\ baseline[p][n] \in Time \cup {None} /\ e # None
          /\ fired[e.def] \subseteq Nat
      BY <1>0, <2>2, Instants, EntryFacts, TimeFacts DEF Named
    <3>2. \A u \in f.window : u \in Nat /\ After(p, n) < u /\ u <= loop[p].now
      BY <3>1, OpFacts, TimeFacts DEF Window
    <3>3. UpTo(fired[e.def], After(p, n)) /\ After(p, n) \in Nat
      <4>1. CASE baseline[p][n] # None
        BY <3>1, <4>1, TimeFacts DEF Covered, After
      <4>2. CASE baseline[p][n] = None /\ e.last # None
        <5>1. Exposed(p, n) /\ ~ Recording(p, n)
          BY <2>1, <4>2 DEF Exposed, Recording
        <5> QED BY <3>1, <4>2, <5>1, TimeFacts DEF Covered, After
      <4>3. CASE baseline[p][n] = None /\ e.last = None
        <5>1. After(p, n) = loop[p].now
          BY <4>3 DEF After
        <5> QED BY <3>1, <3>2, <5>1
      <4> QED BY <4>1, <4>2, <4>3
    <3>4. \A t \in fired[e.def] : \A u \in f.window : t < u
      BY <3>1, <3>2, <3>3 DEF UpTo
    <3>5. UpTo(fired[e.def], loop[p].now)
      BY <3>1, <3>2, <3>4 DEF UpTo
    <3> QED BY <3>1, <3>2, <3>4, <3>5 DEF UpTo
  <2>6. Collected(p)'
    <3>1. \A f, g \in DueTasks(p) : f.name = g.name => f = g
      BY <2>2
    <3>2. \A f \in DueTasks(p) : tasks[p][f.name].def = f.def
      BY <2>2
    <3> QED BY <1>1, <2>1, <2>5, <3>1, <3>2 DEF Collected, LoopGoes
  <2>7. ASSUME NEW n \in Name PROVE Covered(p, n)'
    <3>1. Exposed(p, n)' => Exposed(p, n)
      BY <1>1, <2>1 DEF Exposed, Waiting
    <3> QED BY <1>0, <1>1, <2>1, <3>1 DEF Covered, LoopGoes, Recording
  <2> QED BY <1>0, <1>2, <2>3, <2>4, <2>6, <2>7 DEF Remembered
<1> QED BY <1>3, <1>4, <1>5

(* The firing: the baseline takes over what the tick had collected. *)
LEMMA FireRemembered ==
  ASSUME OneProcess, Remembered, NEW p \in Process, NEW f \in loop[p].due, Fire(p, f)
  PROVE  Remembered'
<1> DEFINE n == f.name
<1>0. /\ TypeOK /\ Typed /\ Past /\ Named /\ NotYet /\ Lives
      /\ \A q \in Process : q = p /\ Collected(q) /\ \A m \in Name : Covered(q, m)
      /\ Typed'
  BY LoopTyped DEF Remembered, Typed, OneProcess, Loop
<1>1. /\ f \in Firing /\ n \in Name /\ f.def \in Call /\ f.window \subseteq Time /\ n = NameOf(f.def)
      /\ loop[p].now \in Time /\ loop[p].now <= clock /\ clock \in Time
      /\ loop[p].due \subseteq Firing
  BY <1>0, Instants, FiringFacts DEF Collected, Past
<1>2. /\ UNCHANGED <<clock, tasks, db, call>> /\ loop[p].pc = "fire"
      /\ LoopGoes(p, "running", loop[p].now, loop[p].due \ {f}, f)
      /\ baseline'[p][n] = loop[p].now
      /\ RestKept(p, n)
      /\ \A c \in Call \ {f.def} : fired'[c] = fired[c] /\ stray'[c] = stray[c]
      /\ fired'[f.def] = fired[f.def] \cup f.window
  BY <1>0, FireEffect
<1>3. UpTo(f.window, loop[p].now) /\ UpTo(fired[f.def], loop[p].now) /\ UpTo(fired'[f.def], loop[p].now)
  BY <1>0, <1>2 DEF Collected, UpTo
<1>4. Named'
  BY <1>0, <1>2 DEF Named
<1>5. Past'
  <2>1. UpTo(fired'[f.def], clock)
    BY <1>0, <1>1, <1>2, <1>3, Instants, TimeFacts DEF Past, UpTo
  <2> QED BY <1>0, <1>1, <1>2, <2>1 DEF Past, LoopGoes, RestKept
<1>6. Lives'
  BY <1>0, <1>2, OpFacts DEF Lives, LoopGoes, Running, Busy
<1>7. NotYet'
  BY <1>0, <1>2 DEF NotYet, Unknown, LoopGoes
<1>8. Collected(p)'
  <2>1. ASSUME NEW g \in loop[p].due \ {f}
        PROVE  /\ g.name \in Name /\ g.def \in Call /\ g.name # n /\ g.def # f.def
               /\ tasks[p][g.name] # None =>
                    tasks[p][g.name].def \in Call /\ tasks[p][g.name].def # f.def
    <3>1. g \in Firing /\ g.name # n /\ g.name = NameOf(g.def)
      BY <1>0, <1>1 DEF Collected
    <3>2. g.name \in Name /\ g.def \in Call
      BY <3>1, FiringFacts
    <3>3. tasks[p][g.name] # None =>
            tasks[p][g.name].def \in Call /\ NameOf(tasks[p][g.name].def) = g.name
      BY <1>0, <3>2, Instants, EntryFacts DEF Named
    <3> QED BY <1>1, <3>1, <3>2, <3>3
  <2> QED BY <1>0, <1>2, <2>1 DEF Collected, LoopGoes
<1>9. ASSUME NEW m \in Name PROVE Covered(p, m)'
  <2> SUFFICES ASSUME tasks[p][m] # None PROVE Covered(p, m)'
    BY <1>2 DEF Covered
  <2>0. tasks[p][m].def \in Call /\ NameOf(tasks[p][m].def) = m
    BY <1>0, Instants, EntryFacts DEF Named
  <2>1. CASE m # n
    <3>1. /\ tasks[p][m].def # f.def /\ baseline'[p][m] = baseline[p][m]
      BY <1>0, <1>1, <1>2, <2>0, <2>1 DEF RestKept
    <3>2. Exposed(p, m)' => Exposed(p, m)
      BY <1>2, <3>1 DEF Exposed, Waiting
    <3>3. ~ Recording(p, m)
      BY <1>2 DEF Recording
    <3>4. fired'[tasks[p][m].def] = fired[tasks[p][m].def]
      BY <1>2, <2>0, <3>1
    <3> QED BY <1>0, <1>2, <3>1, <3>2, <3>3, <3>4 DEF Covered, LoopGoes
  <2>2. CASE m = n
    <3>1. UpTo(fired'[tasks[p][n].def], loop[p].now)
      <4>1. CASE tasks[p][n].def = f.def
        BY <1>3, <4>1
      <4>2. CASE tasks[p][n].def # f.def
        <5>1. UpTo(fired[tasks[p][n].def], loop[p].now)
          BY <1>0, <2>2 DEF Collected
        <5> QED BY <1>2, <2>0, <2>2, <4>2, <5>1
      <4> QED BY <4>1, <4>2
    <3>2. Recording(p, n)'
      BY <1>2 DEF Recording, LoopGoes
    <3> QED BY <1>2, <2>2, <3>1, <3>2 DEF Covered, LoopGoes
  <2> QED BY <2>1, <2>2
<1> QED BY <1>0, <1>4, <1>5, <1>6, <1>7, <1>8, <1>9 DEF Remembered

LEMMA RecordRemembered ==
  ASSUME OneProcess, Remembered, NEW p \in Process, Record(p)
  PROVE  Remembered'
<1> DEFINE n == loop[p].cur.name
<1>0. /\ TypeOK /\ Typed /\ Past /\ Named /\ NotYet /\ Lives
      /\ \A q \in Process : q = p /\ Collected(q) /\ \A m \in Name : Covered(q, m)
      /\ Typed'
  BY LoopTyped DEF Remembered, Typed, OneProcess, Loop
<1>1. /\ loop[p].pc = "running" /\ n \in Name
      /\ UNCHANGED <<clock, baseline, db, call, crashes, since, fired, stray>>
      /\ RestKept(p, n)
      /\ \/ /\ tasks[p][n] = None /\ tasks' = tasks
            /\ LoopGoes(p, Following(p), loop[p].now, loop[p].due, None)
         \/ /\ tasks[p][n] # None /\ tasks[p][n] \in Entry
            /\ tasks'[p][n] = [tasks[p][n] EXCEPT !.runs = tasks[p][n].runs + 1,
                                                  !.last = loop[p].now]
            /\ LoopGoes(p, "persist", loop[p].now, loop[p].due, loop[p].cur)
  BY <1>0, RecordEffect
<1>2. PICK to \in {"persist", "idle", "fire"}, cur \in {loop[p].cur, None} :
        LoopGoes(p, to, loop[p].now, loop[p].due, cur) /\ (to = "idle" => loop[p].due = {})
  BY <1>1 DEF Following
<1>3. \A m \in Name : tasks'[p][m] # None =>
        /\ tasks[p][m] # None /\ tasks'[p][m].def = tasks[p][m].def
        /\ m # n => tasks'[p][m] = tasks[p][m]
        /\ m = n => tasks'[p][m].last = loop[p].now
  <2>1. ASSUME tasks'[p][n] # None
        PROVE  /\ tasks[p][n] # None /\ tasks'[p][n].def = tasks[p][n].def
               /\ tasks'[p][n].last = loop[p].now
    <3>1. tasks[p][n] \in Entry /\ tasks[p][n] # None
      BY <1>1, <2>1
    <3>2. tasks'[p][n] = [tasks[p][n] EXCEPT !.runs = tasks[p][n].runs + 1, !.last = loop[p].now]
      BY <1>1, <3>1
    <3> QED BY <3>1, <3>2 DEF Entry
  <2> QED BY <1>1, <2>1 DEF RestKept
<1>4. Named' /\ Past'
  BY <1>0, <1>1, <1>2, <1>3 DEF Named, Past, LoopGoes
<1>5. Lives'
  BY <1>0, <1>1, <1>2, OpFacts DEF Lives, LoopGoes, Running, Busy
<1>6. NotYet'
  BY <1>0, <1>1, <1>2, <1>3 DEF NotYet, Unknown, LoopGoes
<1>7. Collected(p)'
  <2>1. \A f \in loop[p].due : f.name \in Name
    BY <1>0, Instants, FiringFacts
  <2> QED BY <1>0, <1>1, <1>2, <1>3, <2>1 DEF Collected, LoopGoes
<1>8. ASSUME NEW m \in Name PROVE Covered(p, m)'
  <2>1. Exposed(p, m)' => Exposed(p, m)
    BY <1>1, <1>2 DEF Exposed, Waiting, LoopGoes
  <2>2. m # n => ~ Recording(p, m)
    BY DEF Recording
  <2> QED BY <1>0, <1>1, <1>2, <1>3, <2>1, <2>2 DEF Covered, LoopGoes
<1> QED BY <1>0, <1>4, <1>5, <1>6, <1>7, <1>8 DEF Remembered

LEMMA PersistRemembered ==
  ASSUME OneProcess, Remembered, NEW p \in Process, Persist(p) \/ PersistFails(p)
  PROVE  Remembered'
<1> DEFINE n == loop[p].cur.name
<1>0. /\ TypeOK /\ Typed /\ Past /\ Named /\ NotYet /\ Lives
      /\ \A q \in Process : q = p /\ Collected(q) /\ \A m \in Name : Covered(q, m)
      /\ Typed'
  BY LoopTyped DEF Remembered, Typed, OneProcess, Loop
<1>1. /\ loop[p].pc = "persist" /\ n \in Name
      /\ LoopGoes(p, Following(p), loop[p].now, loop[p].due, None)
      /\ UNCHANGED <<clock, tasks, baseline, call, crashes, since, fired, stray>>
      /\ Following(p) \in {"idle", "fire"} /\ (Following(p) = "idle" => loop[p].due = {})
  BY <1>0, PersistEffect DEF Following
<1>2. \A m \in Name : db'[m] # None => db[m] # None /\ db'[m].def = db[m].def
  <2>1. ASSUME db'[n] # None PROVE db[n] # None /\ db'[n].def = db[n].def
    <3>1. /\ db[n] # None /\ db[n] \in Entry
          /\ db'[n] \in {db[n], [db[n] EXCEPT !.runs = loop[p].count, !.last = loop[p].now]}
      BY <1>0, <2>1, PersistEffect
    <3> QED BY <3>1 DEF Entry
  <2>2. \A m \in Name \ {n} : db'[m] = db[m]
    BY <1>0, PersistEffect
  <2> QED BY <2>1, <2>2
<1>3. Named' /\ Past'
  BY <1>0, <1>1, <1>2 DEF Named, Past, LoopGoes
<1>4. Lives'
  BY <1>0, <1>1, OpFacts DEF Lives, LoopGoes, Running, Busy
<1>5. NotYet'
  BY <1>0, <1>1, <1>2 DEF NotYet, Unknown, LoopGoes
<1>6. Collected(p)'
  BY <1>0, <1>1 DEF Collected, LoopGoes
<1>7. ASSUME NEW m \in Name PROVE Covered(p, m)'
  <2>1. Exposed(p, m)' => Exposed(p, m)
    BY <1>1 DEF Exposed, Waiting, LoopGoes
  <2>2. ~ Recording(p, m)
    BY <1>1 DEF Recording
  <2> QED BY <1>0, <1>1, <2>1, <2>2 DEF Covered, LoopGoes
<1> QED BY <1>0, <1>3, <1>4, <1>5, <1>6, <1>7 DEF Remembered

LEMMA StartRemembered ==
  ASSUME OneProcess, Remembered, NEW p \in Process, Start(p)
  PROVE  Remembered'
<1>0. /\ TypeOK /\ Typed /\ Past /\ Named /\ NotYet /\ Lives
      /\ \A q \in Process : q = p /\ Collected(q) /\ \A m \in Name : Covered(q, m)
  BY DEF Remembered, Typed, OneProcess
<1>1. /\ loop[p].pc = "down" /\ LoopGoes(p, "seed", loop[p].now, loop[p].due, loop[p].cur)
      /\ tasks'[p] = db
      /\ UNCHANGED <<clock, baseline, db, call, crashes, fired, dirty>>
      /\ \A c \in Call : stray'[c] = IF Stored(c) THEN 0 ELSE stray[c]
      /\ TypeOK'
  BY <1>0, StartEffect
<1>2. /\ \A c \in Call : ~ Busy(c)
      /\ loop[p].due = {} /\ \A n \in Name : baseline[p][n] = None
  BY <1>0, <1>1, OpFacts DEF Lives, Running
<1>3. Named' /\ Past' /\ Typed'
  <2>1. Named' /\ Past'
    BY <1>0, <1>1 DEF Named, Past, LoopGoes
  <2>2. Typed'
    BY <1>0, <1>1 DEF Typed, Current, LoopGoes
  <2> QED BY <2>1, <2>2
<1>4. Lives'
  BY <1>0, <1>1, <1>2 DEF Lives, LoopGoes, Running, Busy
<1>5. NotYet'
  BY <1>0, <1>1, <1>2 DEF NotYet, Unknown, LoopGoes, Busy
<1>6. Collected(p)'
  BY <1>1, <1>2 DEF Collected, LoopGoes
<1>7. ASSUME NEW m \in Name PROVE Covered(p, m)'
  <2>1. ~ Exposed(p, m)'
    BY <1>1, <1>2 DEF Exposed, Waiting, LoopGoes, Busy
  <2> QED BY <1>1, <1>2, <2>1 DEF Covered
<1> QED BY <1>0, <1>3, <1>4, <1>5, <1>6, <1>7 DEF Remembered

LEMMA CrashRemembered ==
  ASSUME OneProcess, Remembered, NEW p \in Process, Crash(p)
  PROVE  Remembered'
<1>0. /\ TypeOK /\ Typed /\ Past /\ Named /\ NotYet /\ Lives
      /\ \A q \in Process : q = p /\ Collected(q) /\ \A m \in Name : Covered(q, m)
  BY DEF Remembered, Typed, OneProcess
<1>1. /\ LoopGoes(p, "down", 0, {}, None)
      /\ \A n \in Name : tasks'[p][n] = None /\ baseline'[p][n] = None
      /\ \A c \in Call : call'[c] = IF Busy(c) /\ ProcOf(c) = p THEN "lost" ELSE call[c]
      /\ UNCHANGED <<clock, db, fired, stray>>
      /\ TypeOK'
  BY <1>0, CrashEffect DEF ghosts
<1>2. \A c \in Call : ~ Busy(c)' /\ (call'[c] \in {"new", "insert"} => call'[c] = call[c])
  BY <1>0, <1>1, OpFacts DEF Busy
<1>3. Named' /\ Past' /\ Typed'
  <2>1. clock \in Nat
    BY <1>0, Instants, TimeFacts
  <2>2. Named' /\ Past'
    BY <1>0, <1>1, <2>1 DEF Named, Past, LoopGoes
  <2>3. Typed'
    BY <1>0, <1>1 DEF Typed, Current, LoopGoes
  <2> QED BY <2>2, <2>3
<1>4. Lives'
  BY <1>0, <1>1, <1>2 DEF Lives, LoopGoes, Running
<1>5. NotYet'
  BY <1>0, <1>1, <1>2 DEF NotYet, Unknown, LoopGoes
<1>6. Collected(p)'
  BY <1>1 DEF Collected, LoopGoes
<1>7. ASSUME NEW m \in Name PROVE Covered(p, m)'
  BY <1>1 DEF Covered
<1> QED BY <1>0, <1>3, <1>4, <1>5, <1>6, <1>7 DEF Remembered

LEMMA NextRemembered == OneProcess /\ Remembered /\ [Next]_vars => Remembered'
<1> SUFFICES ASSUME OneProcess, Remembered, [Next]_vars PROVE Remembered'
  OBVIOUS
<1>1. CASE Advance
  <2>1. TypeOK /\ Past /\ Typed'
    BY NextTyped DEF Remembered, Typed
  <2>2. Past'
    BY <1>1, <2>1, Instants, TimeFacts DEF Advance, Past, UpTo, store, ghosts
  <2> QED BY <1>1, <2>1, <2>2 DEF Remembered, Advance, store, ghosts, Named, NotYet, Unknown, Lives, Busy,
           Running, Collected, Covered, Exposed, Waiting, Recording
<1>2. CASE UNCHANGED vars
  <2>1. Typed'
    BY NextTyped DEF Remembered
  <2> QED BY <1>2, <2>1 DEF Remembered, vars, Past, Named, NotYet, Unknown, Lives, Busy,
           Running, Collected, Covered, Exposed, Waiting, Recording
<1> QED BY <1>1, <1>2, CallRemembered, TickRemembered, FireRemembered, RecordRemembered,
           PersistRemembered, StartRemembered, CrashRemembered DEF Next, Loop

(* On a machine where one process runs the scheduler no occurrence of a
   definition is fired twice, whatever `add` and `remove` do between the locked
   sections of a tick, and whenever the process dies and loads the file again. *)
THEOREM OncePerOccurrenceHolds ==
  ASSUME OneProcess
  PROVE  Spec => OncePerOccurrence
<1>1. Remembered => \A p \in Process : \A f \in loop[p].due : f.window \cap fired[f.def] = {}
  <2> SUFFICES ASSUME Remembered, NEW p \in Process, NEW f \in loop[p].due,
                      NEW t \in f.window, t \in fired[f.def]
               PROVE  FALSE
    OBVIOUS
  <2>1. f \in Firing /\ t < t
    BY Instants DEF Remembered, Typed, Collected
  <2>2. t \in Nat
    BY <2>1, FiringFacts, TimeFacts
  <2> QED BY <2>1, <2>2
<1>2. Remembered /\ [Next]_vars =>
        [\A p \in Process : \A f \in loop[p].due : Fire(p, f) => f.window \cap fired[f.def] = {}]_vars
  BY <1>1
<1> QED BY <1>2, InitRemembered, NextRemembered, PTL DEF Spec, OncePerOccurrence

-----------------------------------------------------------------------------
(* Definitions that have left memory *)

(* A definition that may still be fired has not run since it left memory. *)
Ready(c) == Held(c) \/ \E p \in Process : \E f \in loop[p].due : f.def = c
Strays == \A c \in Call : stray[c] \in {0, 1} /\ (Ready(c) => stray[c] = 0)

LEMMA StraysStep ==
  ASSUME OneProcess, Remembered, Strays, Next
  PROVE  Strays'
<1>0. TypeOK /\ Typed /\ NotYet /\ Lives /\ \A q \in Process : Collected(q)
  BY DEF Remembered, Typed
<1>1. ASSUME stray' = stray, \A c \in Call : Ready(c)' => Ready(c) \/ stray[c] = 0
      PROVE  Strays'
  BY <1>1 DEF Strays
<1>2. CASE Advance
  BY <1>1, <1>2 DEF Advance, Ready, Held, store, ghosts
<1>3. ASSUME NEW c \in Call, Calls(c) PROVE Strays'
  <2>1. /\ stray' = stray /\ loop' = loop /\ RestKept(ProcOf(c), NameOf(c)) /\ CallSteps(c)
        /\ ProcOf(c) \in Process /\ NameOf(c) \in Name
    BY <1>0, <1>3, CallEffect, OpFacts
  <2>2. CASE call[c] = "insert"
    <3>1. stray[c] = 0 /\ Fresh(c).def = c
      BY <1>0, <2>2, EntryFacts DEF NotYet
    <3>2. \A q \in Process : \A m \in Name : tasks'[q][m] # None =>
            tasks'[q][m] = tasks[q][m] \/ tasks'[q][m].def = c
      BY <2>1, <2>2, <3>1 DEF CallSteps, CallGoes, RestKept
    <3> QED BY <1>1, <2>1, <3>1, <3>2 DEF Ready, Held
  <2>3. CASE call[c] # "insert"
    <3>1. \A q \in Process : \A m \in Name : tasks'[q][m] # None => tasks'[q][m] = tasks[q][m]
      BY <2>1, <2>3 DEF CallSteps, CallGoes, RestKept
    <3> QED BY <1>1, <2>1, <3>1 DEF Ready, Held
  <2> QED BY <2>2, <2>3
<1>4. ASSUME NEW p \in Process, Seed(p) \/ Tick(p) PROVE Strays'
  <2>1. UNCHANGED <<tasks, stray>> /\ \A q \in Process : loop'[q].due = loop[q].due
    BY <1>0, <1>4, SeedEffect, TickEffect DEF LoopGoes, store, ghosts
  <2> QED BY <1>1, <2>1 DEF Ready, Held
<1>5. ASSUME NEW p \in Process, Snapshot(p) PROVE Strays'
  <2>1. /\ UNCHANGED <<tasks, stray>> /\ loop'[p].due = DueTasks(p)
        /\ \A q \in Process \ {p} : loop'[q] = loop[q]
    BY <1>0, <1>5, SnapshotEffect DEF LoopGoes, store, ghosts
  <2>2. \A f \in DueTasks(p) : Held(f.def)
    BY DEF DueTasks, Held
  <2> QED BY <1>1, <2>1, <2>2 DEF Ready, Held
<1>6. ASSUME NEW p \in Process, NEW f \in loop[p].due, Fire(p, f) PROVE Strays'
  <2>1. /\ tasks' = tasks /\ loop'[p].due = loop[p].due \ {f} /\ f.def \in Call
        /\ \A c \in Call \ {f.def} : stray'[c] = stray[c]
        /\ stray'[f.def] = IF Held(f.def) THEN 0 ELSE stray[f.def] + 1
    BY <1>0, <1>6, FireEffect, Instants, FiringFacts DEF LoopGoes
  <2>2. \A q \in Process : q = p
    BY DEF OneProcess
  <2>3. \A g \in loop[p].due : g.def = f.def => g = f
    BY <1>0 DEF Collected
  <2>4. stray[f.def] = 0
    BY <2>1 DEF Strays, Ready
  <2>5. Held(f.def)' = Held(f.def) /\ (~ Held(f.def) => ~ Ready(f.def)')
    BY <2>1, <2>2, <2>3 DEF Ready, Held
  <2>6. \A c \in Call \ {f.def} : Ready(c)' => Ready(c)
    BY <2>1, <2>2 DEF Ready, Held
  <2> QED BY <2>1, <2>4, <2>5, <2>6 DEF Strays
<1>7. ASSUME NEW p \in Process, Record(p) PROVE Strays'
  <2>1. stray' = stray /\ \A q \in Process : loop'[q].due = loop[q].due
    BY <1>0, <1>7, RecordEffect DEF LoopGoes
  <2>2. \A q \in Process : \A m \in Name : tasks'[q][m] # None =>
          tasks[q][m] # None /\ tasks'[q][m].def = tasks[q][m].def
    <3> DEFINE n == loop[p].cur.name
    <3>1. RestKept(p, n) /\ (tasks' = tasks \/
            (/\ tasks[p][n] # None /\ tasks[p][n] \in Entry
             /\ tasks'[p][n] = [tasks[p][n] EXCEPT !.runs = tasks[p][n].runs + 1,
                                                   !.last = loop[p].now]))
      BY <1>0, <1>7, RecordEffect
    <3>2. tasks' = tasks \/ (tasks[p][n] # None /\ tasks'[p][n].def = tasks[p][n].def)
      BY <3>1 DEF Entry
    <3> QED BY <3>1, <3>2 DEF RestKept
  <2> QED BY <1>1, <2>1, <2>2 DEF Ready, Held
<1>8. ASSUME NEW p \in Process, Persist(p) \/ PersistFails(p) PROVE Strays'
  <2>1. UNCHANGED <<tasks, stray>> /\ \A q \in Process : loop'[q].due = loop[q].due
    BY <1>0, <1>8, PersistEffect DEF LoopGoes
  <2> QED BY <1>1, <2>1 DEF Ready, Held
<1>9. ASSUME NEW p \in Process, Start(p) PROVE Strays'
  <2>1. /\ loop'[p].due = {} /\ tasks'[p] = db
        /\ \A c \in Call : stray'[c] = IF Stored(c) THEN 0 ELSE stray[c]
    BY <1>0, <1>9, StartEffect DEF LoopGoes, Lives, Running
  <2>2. \A c \in Call : Ready(c)' => Stored(c)
    BY <2>1 DEF Ready, Held, Stored, OneProcess
  <2> QED BY <2>1, <2>2 DEF Strays
<1>10. ASSUME NEW p \in Process, Crash(p) PROVE Strays'
  <2>1. /\ stray' = stray /\ loop'[p].due = {} /\ \A n \in Name : tasks'[p][n] = None
    BY <1>0, <1>10, CrashEffect DEF LoopGoes, ghosts
  <2> QED BY <1>1, <2>1 DEF Ready, Held, OneProcess
<1> QED BY <1>2, <1>3, <1>4, <1>5, <1>6, <1>7, <1>8, <1>9, <1>10 DEF Next, Loop

(* On such a machine a definition that was removed or replaced runs at most once
   more: the tick that collected it before may still reach it, no later one does. *)
THEOREM StrayRunsOnceHolds ==
  ASSUME OneProcess
  PROVE  Spec => []StrayRunsOnce
<1>1. Init => Strays
  BY DEF Init, Strays, Ready, Held, Stopped
<1>2. Remembered /\ Strays /\ [Next]_vars => Strays'
  BY StraysStep DEF Strays, Ready, Held, vars
<1>3. Strays => StrayRunsOnce
  BY DEF Strays, StrayRunsOnce
<1> QED BY <1>1, <1>2, <1>3, InitRemembered, NextRemembered, PTL DEF Spec

-----------------------------------------------------------------------------
(* Memory and file *)

Writing(p, n) == loop[p].pc = "persist" /\ loop[p].cur.name = n

(* Where an operation is alone on a name, what it has written so far is known. *)
Mirrors(p, n) ==
  n \notin dirty /\ Running(p) =>
    /\ Active(n) = {} => tasks[p][n] = db[n]
    /\ \A c \in Call : NameOf(c) = n =>
         /\ call[c] = "insert" => db[n] = Fresh(c)
         /\ call[c] = "rebase" => tasks[p][n] = db[n]
         /\ call[c] \in {"unbase", "delete"} => tasks[p][n] = None
    /\ Writing(p, n) =>
         /\ db[n] # None
         /\ tasks[p][n] = [db[n] EXCEPT !.runs = loop[p].count, !.last = loop[p].now]

(* Operations that overlap make their name dirty. *)
Marked == Overlapped \subseteq dirty

Mirroring == Marked /\ \A p \in Process : \A n \in Name : Mirrors(p, n)

LEMMA ActiveFacts ==
  ASSUME NEW n \in Name
  PROVE  /\ \A c \in Call : Busy(c) /\ NameOf(c) = n => c \in Active(n)
         /\ \A p \in Process : Writing(p, n) => p \in Active(n)
         /\ \A c \in Call : c \in Active(n) => Busy(c) /\ NameOf(c) = n
         /\ \A x \in Active(n) : x \in Call \/ \E p \in Process : x = p /\ Writing(p, n)
         /\ Marked /\ n \notin dirty => \A x, y \in Active(n) : x = y
  BY NoneFresh DEF Active, Writing, Overlapped, Marked

(* An operation alone on a name that is not dirty: no other call is in progress
   on it, nor is the run loop about to write to it. *)
LEMMA Alone ==
  ASSUME NEW n \in Name, n \notin Overlapped, NEW c \in Call, Busy(c), NameOf(c) = n
  PROVE  /\ \A d \in Call : NameOf(d) = n /\ Busy(d) => d = c
         /\ \A p \in Process : ~ Writing(p, n)
  BY ActiveFacts, NoneFresh DEF Overlapped

LEMMA AloneWriting ==
  ASSUME NEW n \in Name, n \notin Overlapped, NEW p \in Process, Writing(p, n)
  PROVE  \A d \in Call : NameOf(d) = n => ~ Busy(d)
  BY ActiveFacts, NoneFresh DEF Overlapped

LEMMA CallTaints ==
  ASSUME NEW c \in Call, Calls(c)
  PROVE  /\ dirty \subseteq dirty'
         /\ \/ Overlapped' \subseteq dirty'
            \/ call[c] = "new" /\ call' = [call EXCEPT ![c] = "error"] /\ UNCHANGED <<loop, dirty>>
  BY DEF Calls, Add, AddFails, AddInsert, AddBaseline, Remove, RemoveBaseline, RemoveDelete,
         RemoveFails, Taint, Goto, ghosts

(* A step that makes no operation active overlaps none. *)
LEMMA MarkedStays ==
  ASSUME Marked, dirty \subseteq dirty', \A n \in Name : Active(n)' \subseteq Active(n)
  PROVE  Marked'
  BY DEF Marked, Overlapped

LEMMA CallMirrors ==
  ASSUME OneProcess, Remembered, Mirroring, NEW c \in Call, Calls(c)
  PROVE  Mirroring'
<1> DEFINE p == ProcOf(c)
           n == NameOf(c)
<1>0. /\ TypeOK /\ p \in Process /\ n \in Name /\ \A q \in Process : q = p
      /\ Marked /\ \A m \in Name : Mirrors(p, m)
  BY OpFacts DEF Remembered, Typed, OneProcess, Mirroring
<1>1. /\ loop' = loop /\ RestKept(p, n) /\ \A m \in Name \ {n} : db'[m] = db[m]
      /\ CallSteps(c) /\ dirty \subseteq dirty'
      /\ \A d \in Call \ {c} : call'[d] = call[d]
  BY <1>0, CallEffect, CallTaints DEF CallSteps, CallGoes
<1>2. Marked'
  <2>1. CASE Overlapped' \subseteq dirty'
    BY <2>1 DEF Marked
  <2>2. CASE call[c] = "new" /\ call' = [call EXCEPT ![c] = "error"] /\ UNCHANGED <<loop, dirty>>
    <3>1. call \in [Call -> {"new", "insert", "rebase", "unbase", "delete", "ok", "error", "lost"}]
      BY <1>0, TypeFacts
    <3>2. \A m \in Name : Active(m)' \subseteq Active(m)
      BY <2>2, <3>1 DEF Active, Busy
    <3> QED BY <1>0, <2>2, <3>2, MarkedStays
  <2> QED BY <2>1, <2>2, CallTaints
<1>3. ASSUME NEW m \in Name, m # n PROVE Mirrors(p, m)'
  <2>1. Active(m)' = Active(m)
    BY <1>1, <1>3 DEF Active, Busy
  <2>2. tasks'[p][m] = tasks[p][m] /\ db'[m] = db[m]
    BY <1>0, <1>1, <1>3 DEF RestKept
  <2>3. Mirrors(p, m)
    BY <1>0
  <2> QED BY <1>1, <1>3, <2>1, <2>2, <2>3 DEF Mirrors, Running, Writing
<1>4. Mirrors(p, n)'
  <2> SUFFICES ASSUME n \notin dirty', Running(p)'
               PROVE  Mirrors(p, n)'
    BY DEF Mirrors
  <2>1. n \notin dirty /\ Running(p) /\ Mirrors(p, n) /\ n \notin Overlapped /\ n \notin Overlapped'
    BY <1>0, <1>1, <1>2 DEF Running, Marked
  <2>2. Busy(c)' => /\ \A d \in Call : NameOf(d) = n /\ Busy(d)' => d = c
                    /\ ~ Writing(p, n)' /\ Active(n)' # {}
    <3> SUFFICES ASSUME Busy(c)'
                 PROVE  /\ \A d \in Call : NameOf(d) = n /\ Busy(d)' => d = c
                        /\ ~ Writing(p, n)' /\ Active(n)' # {}
      OBVIOUS
    <3>1. c \in Active(n)' /\ (Writing(p, n)' => p \in Active(n)')
      BY <1>0 DEF Active, Writing
    <3>2. \A d \in Call : NameOf(d) = n /\ Busy(d)' => d \in Active(n)'
      BY DEF Active
    <3>3. \A x, y \in Active(n)' : x = y
      BY <1>0, <2>1 DEF Overlapped
    <3> QED BY <1>0, <3>1, <3>2, <3>3, NoneFresh
  <2>3. Busy(c) => /\ \A d \in Call : NameOf(d) = n /\ Busy(d) => d = c
                   /\ ~ Writing(p, n)
    BY <1>0, <2>1, Alone
  <2>4. CASE Busy(c)'
    <3>1. \A d \in Call \ {c} : NameOf(d) = n =>
            call'[d] \notin {"insert", "rebase", "unbase", "delete"}
      BY <2>2, <2>4 DEF Busy
    <3>2. /\ call'[c] = "insert" => db'[n] = Fresh(c)
          /\ call'[c] = "rebase" => tasks'[p][n] = db'[n]
          /\ call'[c] \in {"unbase", "delete"} => tasks'[p][n] = None
      BY <1>1, <2>1, <2>4 DEF CallSteps, CallGoes, Mirrors, Busy
    <3> QED BY <2>2, <2>4, <3>1, <3>2 DEF Mirrors
  <2>5. CASE ~ Busy(c)' /\ Busy(c)
    <3>1. \A d \in Call : NameOf(d) = n =>
            call'[d] \notin {"insert", "rebase", "unbase", "delete"}
      BY <1>1, <2>3, <2>5 DEF Busy
    <3>2. ~ Writing(p, n)'
      BY <1>1, <2>3, <2>5 DEF Writing
    <3>3. tasks'[p][n] = db'[n]
      BY <1>1, <2>1, <2>5 DEF CallSteps, CallGoes, Mirrors, Busy
    <3> QED BY <3>1, <3>2, <3>3 DEF Mirrors
  <2>6. CASE ~ Busy(c)' /\ ~ Busy(c)
    <3>1. UNCHANGED <<tasks, db>>
      BY <1>1, <2>6 DEF CallSteps, CallGoes, Busy
    <3>2. Active(n)' = Active(n)
      BY <1>1, <2>6 DEF Active, Busy
    <3>3. \A d \in Call : Busy(d)' => call'[d] = call[d]
      BY <1>1, <2>6
    <3> QED BY <1>1, <2>1, <3>1, <3>2, <3>3 DEF Mirrors, Busy, Writing
  <2> QED BY <2>4, <2>5, <2>6
<1> QED BY <1>0, <1>2, <1>3, <1>4 DEF Mirroring

LEMMA LoopMirrors ==
  ASSUME OneProcess, Remembered, Mirroring, NEW p \in Process, Loop(p)
  PROVE  Mirroring'
<1>0. /\ TypeOK /\ Typed /\ \A q \in Process : q = p
      /\ Marked /\ \A m \in Name : Mirrors(p, m)
  BY DEF Remembered, Typed, OneProcess, Mirroring
<1>1. ASSUME NEW m \in Name, call' = call, dirty \subseteq dirty', Writing(p, m)' <=> Writing(p, m),
             loop'[p].count = loop[p].count \/ ~ Writing(p, m), loop'[p].now = loop[p].now \/ ~ Writing(p, m),
             loop[p].pc # "down", tasks'[p][m] = tasks[p][m], db'[m] = db[m]
      PROVE  Active(m)' = Active(m) /\ Mirrors(p, m)'
  <2>1. Active(m)' = Active(m)
    BY <1>0, <1>1 DEF Active, Busy, Writing
  <2> QED BY <1>0, <1>1, <2>1 DEF Mirrors, Running
<1>2. ASSUME call' = call, dirty' = dirty, tasks' = tasks, db' = db, loop[p].pc \notin {"down", "persist"},
             loop'[p].pc # "persist"
      PROVE  Mirroring'
  <2>1. \A m \in Name : Active(m)' = Active(m) /\ Mirrors(p, m)'
    BY <1>1, <1>2 DEF Writing
  <2>2. Marked'
    BY <1>0, <1>2, <2>1, MarkedStays
  <2> QED BY <1>0, <2>1, <2>2 DEF Mirroring
<1>3. CASE Seed(p) \/ Tick(p) \/ Snapshot(p)
  BY <1>0, <1>2, <1>3, SeedEffect, TickEffect, SnapshotEffect DEF LoopGoes, store, ghosts
<1>4. ASSUME NEW f \in loop[p].due, Fire(p, f) PROVE Mirroring'
  BY <1>0, <1>2, <1>4, FireEffect DEF LoopGoes
<1>5. CASE Record(p)
  <2>0. PICK n \in Name : n = loop[p].cur.name
    BY <1>0, <1>5, RecordEffect
  <2>1. /\ loop[p].pc = "running" /\ n = loop[p].cur.name
        /\ UNCHANGED <<clock, baseline, db, call, crashes, since, fired, stray>>
        /\ RestKept(p, n)
        /\ dirty \subseteq dirty' /\ Marked'
    BY <1>0, <1>5, <2>0, RecordEffect DEF Record, Taint, Marked
  <2>2. CASE tasks[p][n] = None
    <3>1. tasks' = tasks /\ loop'[p].pc # "persist"
      BY <1>0, <1>5, <2>1, <2>2, RecordEffect, FollowingType DEF LoopGoes
    <3>2. \A m \in Name : Mirrors(p, m)'
      BY <1>1, <2>1, <3>1 DEF Writing
    <3> QED BY <1>0, <2>1, <3>2 DEF Mirroring
  <2>3. CASE tasks[p][n] # None
    <3>1. /\ tasks[p][n] \in Entry
          /\ tasks'[p][n] = [tasks[p][n] EXCEPT !.runs = tasks[p][n].runs + 1, !.last = loop[p].now]
          /\ loop'[p].pc = "persist" /\ loop'[p].cur = loop[p].cur /\ loop'[p].now = loop[p].now
          /\ loop'[p].count = tasks[p][n].runs + 1
      BY <1>0, <1>5, <2>1, <2>3, RecordEffect DEF LoopGoes
    <3>2. ASSUME NEW m \in Name, m # n PROVE Mirrors(p, m)'
      BY <1>1, <2>1, <3>1, <3>2 DEF Writing, RestKept
    <3>3. ASSUME n \notin dirty' PROVE Mirrors(p, n)'
      <4>1. n \notin dirty /\ n \notin Overlapped'
        BY <2>1, <3>3 DEF Marked
      <4>2. Writing(p, n)' /\ p \in Active(n)'
        BY <2>1, <3>1 DEF Writing, Active
      <4>3. \A d \in Call : NameOf(d) = n => ~ Busy(d)'
        <5>1. \A d \in Call : NameOf(d) = n /\ Busy(d)' => d \in Active(n)'
          BY DEF Active
        <5>2. \A x, y \in Active(n)' : x = y
          BY <2>1, <4>1 DEF Overlapped
        <5> QED BY <4>2, <5>1, <5>2, NoneFresh
      <4>4. Active(n) = {}
        <5>1. \A d \in Call : NameOf(d) = n => ~ Busy(d)
          BY <2>1, <4>3 DEF Busy
        <5>2. \A q \in Process : loop[q].pc # "persist"
          BY <1>0, <2>1
        <5> QED BY <5>1, <5>2 DEF Active
      <4>5. tasks[p][n] = db[n]
        BY <1>0, <2>1, <4>1, <4>4 DEF Mirrors, Running
      <4> QED BY <2>1, <2>3, <3>1, <4>2, <4>3, <4>5 DEF Mirrors, Busy
    <3>4. Mirrors(p, n)'
      BY <3>3 DEF Mirrors
    <3> QED BY <1>0, <2>1, <3>2, <3>4 DEF Mirroring
  <2> QED BY <2>2, <2>3
<1>6. CASE Persist(p) \/ PersistFails(p)
  <2>0. PICK n \in Name : n = loop[p].cur.name
    BY <1>0, <1>6, PersistEffect
  <2>1. /\ loop[p].pc = "persist" /\ n = loop[p].cur.name
        /\ loop'[p].pc \notin {"persist", "down"}
        /\ UNCHANGED <<clock, tasks, baseline, call, crashes, since, fired, stray>>
        /\ \A m \in Name \ {n} : db'[m] = db[m]
    BY <1>0, <1>6, <2>0, PersistEffect, FollowingType DEF LoopGoes
  <2>2. dirty \subseteq dirty' /\ Marked'
    BY <1>6 DEF Persist, PersistFails, Taint, Marked
  <2>3. ASSUME NEW m \in Name, m # n PROVE Mirrors(p, m)'
    BY <1>1, <2>1, <2>2, <2>3 DEF Writing
  <2>4. ASSUME n \notin dirty' PROVE Mirrors(p, n)'
    <3>1. n \notin dirty /\ n \notin Overlapped /\ Writing(p, n) /\ Mirrors(p, n) /\ Running(p)
      BY <1>0, <2>1, <2>2, <2>4 DEF Marked, Writing, Running
    <3>2. /\ db[n] # None
          /\ tasks[p][n] = [db[n] EXCEPT !.runs = loop[p].count, !.last = loop[p].now]
      BY <3>1 DEF Mirrors
    <3>3. db' = [db EXCEPT ![n] = IF @ = None THEN None
                             ELSE [@ EXCEPT !.runs = loop[p].count, !.last = loop[p].now]]
      BY <1>6, <2>1, <2>4 DEF Persist, PersistFails, Taint
    <3>4. tasks'[p][n] = db'[n]
      BY <1>0, <2>1, <3>2, <3>3, TypeFacts
    <3>5. \A d \in Call : NameOf(d) = n => ~ Busy(d)'
      BY <2>1, <3>1, AloneWriting DEF Busy
    <3>6. ~ Writing(p, n)'
      BY <2>1 DEF Writing
    <3> QED BY <3>4, <3>5, <3>6 DEF Mirrors, Busy
  <2>5. Mirrors(p, n)'
    BY <2>4 DEF Mirrors
  <2> QED BY <1>0, <2>2, <2>3, <2>5 DEF Mirroring
<1> QED BY <1>3, <1>4, <1>5, <1>6 DEF Loop

LEMMA NextMirrors == OneProcess /\ Remembered /\ Mirroring /\ [Next]_vars => Mirroring'
<1> SUFFICES ASSUME OneProcess, Remembered, Mirroring, [Next]_vars PROVE Mirroring'
  OBVIOUS
<1>0. TypeOK /\ Lives /\ Marked
  BY DEF Remembered, Typed, Mirroring
<1>1. CASE Advance \/ UNCHANGED vars
  <2>1. UNCHANGED <<tasks, db, call, loop, dirty>>
    BY <1>1 DEF Advance, vars, store, ghosts
  <2>2. \A n \in Name : Active(n)' = Active(n)
    BY <2>1 DEF Active, Busy
  <2>3. Marked'
    BY <1>0, <2>1, <2>2, MarkedStays
  <2>4. ASSUME NEW p \in Process, NEW n \in Name PROVE Mirrors(p, n)'
    <3>1. Mirrors(p, n)
      BY DEF Mirroring
    <3> QED BY <2>1, <2>2, <3>1 DEF Mirrors, Running, Writing
  <2> QED BY <2>3, <2>4 DEF Mirroring
<1>2. ASSUME NEW p \in Process, Start(p) PROVE Mirroring'
  <2>1. /\ loop[p].pc = "down" /\ loop'[p].pc = "seed" /\ tasks'[p] = db
        /\ UNCHANGED <<db, call, dirty>> /\ \A q \in Process : q = p
    BY <1>0, <1>2, StartEffect DEF LoopGoes, OneProcess
  <2>2. \A c \in Call : ~ Busy(c)'
    BY <1>0, <2>1, OpFacts DEF Lives, Running, Busy
  <2>3. \A n \in Name : Active(n)' = {}
    BY <2>1, <2>2 DEF Active
  <2>4. Marked'
    BY <2>3 DEF Marked, Overlapped
  <2> QED BY <2>1, <2>2, <2>3, <2>4 DEF Mirroring, Mirrors, Busy, Writing
<1>3. ASSUME NEW p \in Process, Crash(p) PROVE Mirroring'
  <2>1. /\ loop'[p].pc = "down" /\ dirty' = dirty /\ \A q \in Process : q = p
        /\ \A c \in Call : call'[c] = IF Busy(c) /\ ProcOf(c) = p THEN "lost" ELSE call[c]
    BY <1>0, <1>3, CrashEffect DEF LoopGoes, OneProcess, ghosts
  <2>2. \A n \in Name : Active(n)' = {}
    BY <2>1, OpFacts DEF Active, Busy
  <2>3. Marked'
    BY <2>2 DEF Marked, Overlapped
  <2> QED BY <2>1, <2>3 DEF Mirroring, Mirrors, Running
<1> QED BY <1>1, <1>2, <1>3, CallMirrors, LoopMirrors DEF Next

(* On such a machine memory and file agree on every name that no two operations
   have overlapped on and no write has failed for, whenever nothing is in
   progress on it: also after a crash between any two steps. *)
THEOREM MirroredHolds ==
  ASSUME OneProcess
  PROVE  Spec => []Mirrored
<1>1. Init => Mirroring
  BY DEF Init, Mirroring, Marked, Overlapped, Active, Busy, Mirrors, Running, Stopped
<1>2. Mirroring => Mirrored
  <2> SUFFICES ASSUME Mirroring, NEW p \in Process, NEW n \in Name \ dirty,
                      loop[p].pc \notin {"down", "persist"}, Active(n) = {}
               PROVE  tasks[p][n] = db[n]
    BY DEF Mirrored
  <2> QED BY DEF Mirroring, Mirrors, Running
<1> QED BY <1>1, <1>2, InitRemembered, NextRemembered, NextMirrors, PTL DEF Spec
=============================================================================
