-------------------------------- MODULE Tasks --------------------------------
(***************************************************************************)
(* Autonomous tasks, from the controller's dispatch to the cancelled        *)
(* reminder: the task store of a host (crates/mcp-server/src/autonomous.rs),*)
(* the watched dispatch of relay_api.rs, and the controller's handling of   *)
(* completion events (register_watch, task_wait and handle_event in         *)
(* relay_controller.rs).  The row of a task is in SQLite and outlives the   *)
(* host's process; the runner, the event queue and the reminders' watch     *)
(* list do not.                                                             *)
(***************************************************************************)
EXTENDS Naturals, FiniteSets

CONSTANTS
  Task,       \* the tasks dispatched, each by one watched dispatch
  Wait,       \* the task_wait calls
  TaskOf,     \* the task each of them waits for
  MaxCrashes  \* how many times the host's process may die

ASSUME TasksAssumption ==
  IsFiniteSet(Task) /\ TaskOf \in [Wait -> Task] /\ MaxCrashes \in Nat

VARIABLES
  call,      \* where the watched dispatch of each task is
  toHost,    \* TaskDispatch commands on their way
  row,       \* the status column of each task's row
  child,     \* run_task: "none", "queued", "running" or "over"
  unsaved,   \* tasks whose last UPDATE failed (ghost)
  crashes,   \* crashes so far
  inbox,     \* completion events on their way: pairs of a task and a status
  handler,   \* the event handle_event works on, and its next step
  events,    \* RoomShared.events: the final status, by task
  gen,       \* how often events_notify was notified
  watched,   \* RoomShared.watched
  stranded,  \* tasks whose reminder nobody cancels any more: they were registered after
             \* their event had looked for a watch, or the cancellation was lost (ghost)
  reminder,  \* the reminder crons set on the own agent
  cancels,   \* ScheduleRemove commands on their way
  wait       \* task_wait calls: pc, the notification they armed, what they return

host == <<row, child, unsaved, crashes>>
ctl  == <<handler, events, gen, watched, stranded>>
vars == <<call, toHost, host, inbox, ctl, reminder, cancels, wait>>

Final  == {"done", "failed"}
Status == {"queued", "running"} \cup Final
Idle   == [task |-> "none", status |-> "none", step |-> "none"]

TypeOK ==
  /\ call \in [Task -> {"new", "sent", "queued", "remind", "register", "ok", "error"}]
  /\ toHost \subseteq Task
  /\ row \in [Task -> Status \cup {"none"}]
  /\ child \in [Task -> {"none", "queued", "running", "over"}]
  /\ unsaved \subseteq Task /\ crashes \in 0..MaxCrashes
  /\ inbox \subseteq Task \X Final
  /\ handler \in {Idle} \cup
       [task: Task, status: Final, step: {"record", "notify", "cancel"}]
  /\ events \in [Task -> Final \cup {"none"}]
  /\ gen \in 0..Cardinality(Task)
  /\ watched \subseteq Task /\ stranded \subseteq Task
  /\ reminder \subseteq Task /\ cancels \subseteq Task
  /\ wait \in [Wait -> [pc: {"new", "check", "sleep", "fetch", "end"},
                        armed: Nat, by: {"none", "event", "deadline"},
                        result: Status \cup {"none", "error"}]]

Init ==
  /\ call = [t \in Task |-> "new"] /\ toHost = {}
  /\ row = [t \in Task |-> "none"] /\ child = [t \in Task |-> "none"]
  /\ unsaved = {} /\ crashes = 0 /\ inbox = {}
  /\ handler = Idle /\ events = [t \in Task |-> "none"] /\ gen = 0
  /\ watched = {} /\ stranded = {} /\ reminder = {} /\ cancels = {}
  /\ wait = [w \in Wait |-> [pc |-> "new", armed |-> 0, by |-> "none", result |-> "none"]]

-----------------------------------------------------------------------------
(* The watched dispatch of the controller *)

Dispatch(t) ==
  /\ call[t] = "new"
  /\ call' = [call EXCEPT ![t] = "sent"] /\ toHost' = toHost \cup {t}
  /\ UNCHANGED <<host, inbox, ctl, reminder, cancels, wait>>

(* send_command gives up: the command may still be carried out. *)
GiveUp(t) ==
  /\ call[t] \in {"sent", "queued", "remind"}
  /\ call' = [call EXCEPT ![t] = "error"]
  /\ UNCHANGED <<toHost, host, inbox, ctl, reminder, cancels, wait>>

(* The task id is back: a reminder is added to the own agent's schedule. *)
AddReminder(t) ==
  /\ call[t] = "queued"
  /\ call' = [call EXCEPT ![t] = "remind"] /\ reminder' = reminder \cup {t}
  /\ UNCHANGED <<toHost, host, inbox, ctl, cancels, wait>>

ReminderAdded(t) ==
  /\ call[t] = "remind"
  /\ call' = [call EXCEPT ![t] = "register"]
  /\ UNCHANGED <<toHost, host, inbox, ctl, reminder, cancels, wait>>

(* Only now is the task watched: an event that came before finds no watch. *)
RegisterWatch(t) ==
  /\ call[t] = "register"
  /\ call' = [call EXCEPT ![t] = "ok"]
  /\ watched' = watched \cup {t}
  /\ stranded' = IF /\ events[t] # "none"
                /\ ~ (handler.task = t /\ handler.step \in {"notify", "cancel"})
             THEN stranded \cup {t} ELSE stranded
  /\ UNCHANGED <<toHost, host, inbox, handler, events, gen, reminder, cancels, wait>>

-----------------------------------------------------------------------------
(* The host *)

(* dispatch_with_runner: the row is inserted, then the runner's task is spawned. *)
Insert(t) ==
  /\ t \in toHost /\ toHost' = toHost \ {t}
  /\ \/ /\ row' = [row EXCEPT ![t] = "queued"] /\ child' = [child EXCEPT ![t] = "queued"]
        /\ call' = IF call[t] = "sent" THEN [call EXCEPT ![t] = "queued"] ELSE call
     \/ /\ call' = IF call[t] = "sent" THEN [call EXCEPT ![t] = "error"] ELSE call
        /\ UNCHANGED <<row, child>>
  /\ UNCHANGED <<unsaved, crashes, inbox, ctl, reminder, cancels, wait>>

(* mark_running ignores a failed UPDATE. *)
MarkRunning(t) ==
  /\ child[t] = "queued" /\ child' = [child EXCEPT ![t] = "running"]
  /\ \/ row' = [row EXCEPT ![t] = "running"]
     \/ UNCHANGED row
  /\ UNCHANGED <<call, toHost, unsaved, crashes, inbox, ctl, reminder, cancels, wait>>

(* finish: the row, unless the UPDATE fails, and then the event, in one locked section.  *)
(* An empty runner fails at once; a runner that cannot be spawned, fails, breaks or      *)
(* runs out of time fails later.                                                         *)
(* Mutant: the event is pushed before the row is saved. *)
SaveLater(t, s) == IF t \in unsaved' THEN row ELSE [row EXCEPT ![t] = "running"]

Save(t, s) == IF t \in unsaved' THEN row ELSE [row EXCEPT ![t] = s]

Finish(t, s) ==
  /\ child[t] = "running" \/ (child[t] = "queued" /\ s = "failed")
  /\ child' = [child EXCEPT ![t] = "over"]
  /\ unsaved' \in {unsaved, unsaved \cup {t}}
  /\ row' = Save(t, s)
  /\ inbox' = inbox \cup {<<t, s>>}
  /\ UNCHANGED <<call, toHost, crashes, ctl, reminder, cancels, wait>>

(* The process dies and is started again: load leaves the rows as they are. *)
Crash ==
  /\ crashes < MaxCrashes /\ crashes' = crashes + 1
  /\ child' = [t \in Task |-> IF child[t] \in {"queued", "running"} THEN "over" ELSE child[t]]
  /\ UNCHANGED <<call, toHost, row, unsaved, inbox, ctl, reminder, cancels, wait>>

(* An event is lost with a connection. *)
LoseEvent ==
  /\ \E e \in inbox : inbox' = inbox \ {e}
  /\ UNCHANGED <<call, toHost, host, ctl, reminder, cancels, wait>>

-----------------------------------------------------------------------------
(* The controller's receive task: handle_event, one locked section at a time *)

Receive ==
  /\ handler = Idle
  /\ \E e \in inbox :
       /\ inbox' = inbox \ {e}
       /\ handler' = [task |-> e[1], status |-> e[2], step |-> "record"]
  /\ UNCHANGED <<call, toHost, host, events, gen, watched, stranded, reminder, cancels, wait>>

(* Mutant: only a task that succeeded lets go of its reminder. *)
DoneOnly(t) == IF handler.status = "done" /\ t \in watched THEN cancels \cup {t} ELSE cancels

(* A ScheduleRemove for the watched task, once. *)
Cancel(t) == IF t \in watched THEN cancels \cup {t} ELSE cancels

(* Mutant: the waiters are notified before the event is recorded. *)
NotifyFirst ==
  LET t == handler.task IN
  /\ \/ /\ handler.step = "record"
        /\ gen' = gen + 1 /\ handler' = [handler EXCEPT !.step = "notify"]
        /\ UNCHANGED <<events, watched, cancels>>
     \/ /\ handler.step = "notify"
        /\ events' = [events EXCEPT ![t] = handler.status]
        /\ handler' = [handler EXCEPT !.step = "cancel"]
        /\ UNCHANGED <<gen, watched, cancels>>
     \/ /\ handler.step = "cancel"
        /\ watched' = watched \ {t}
        /\ cancels' = Cancel(t)
        /\ handler' = Idle
        /\ UNCHANGED <<events, gen>>
  /\ UNCHANGED <<call, toHost, host, inbox, stranded, reminder, wait>>

HandleEvent ==
  LET t == handler.task IN
  /\ \/ /\ handler.step = "record"
        /\ events' = [events EXCEPT ![t] = handler.status]
        /\ handler' = [handler EXCEPT !.step = "notify"]
        /\ UNCHANGED <<gen, watched, cancels>>
     \/ /\ handler.step = "notify"
        /\ gen' = gen + 1
        /\ handler' = [handler EXCEPT !.step = "cancel"]
        /\ UNCHANGED <<events, watched, cancels>>
     \/ /\ handler.step = "cancel"
        /\ watched' = watched \ {t}
        /\ cancels' = Cancel(t)
        /\ handler' = Idle
        /\ UNCHANGED <<events, gen>>
  /\ UNCHANGED <<call, toHost, host, inbox, stranded, reminder, wait>>

(* The own agent removes the reminder. *)
RemoveReminder(t) ==
  /\ t \in cancels
  /\ cancels' = cancels \ {t} /\ reminder' = reminder \ {t}
  /\ UNCHANGED <<call, toHost, host, inbox, ctl, wait>>

(* A cancellation is sent once and its answer is nobody's: it may be lost with a
   connection, or fail. *)
LoseCancel(t) ==
  /\ t \in cancels /\ cancels' = cancels \ {t}
  /\ stranded' = stranded \cup {t}
  /\ UNCHANGED <<call, toHost, host, inbox, handler, events, gen, watched, reminder, wait>>

-----------------------------------------------------------------------------
(* task_wait *)

Set(w, r) == wait' = [wait EXCEPT ![w] = r]

(* The waiter is armed before the events are read. *)
Arm(w) ==
  /\ wait[w].pc = "new"
  /\ Set(w, [wait[w] EXCEPT !.pc = "check", !.armed = gen])
  /\ UNCHANGED <<call, toHost, host, inbox, ctl, reminder, cancels>>

Check(w) ==
  /\ wait[w].pc = "check"
  /\ Set(w, IF events[TaskOf[w]] \in Final
            THEN [wait[w] EXCEPT !.pc = "fetch", !.by = "event"]
            ELSE [wait[w] EXCEPT !.pc = "sleep"])
  /\ UNCHANGED <<call, toHost, host, inbox, ctl, reminder, cancels>>

Woken(w) ==
  /\ wait[w].pc = "sleep" /\ wait[w].armed # gen
  /\ Set(w, [wait[w] EXCEPT !.pc = "new"])
  /\ UNCHANGED <<call, toHost, host, inbox, ctl, reminder, cancels>>

Deadline(w) ==
  /\ wait[w].pc = "sleep"
  /\ Set(w, [wait[w] EXCEPT !.pc = "fetch", !.by = "deadline"])
  /\ UNCHANGED <<call, toHost, host, inbox, ctl, reminder, cancels>>

(* The row is fetched from the host, or the fetch fails. *)
Fetch(w) ==
  /\ wait[w].pc = "fetch"
  /\ \E r \in {row[TaskOf[w]], "error"} :
       /\ r # "none" /\ Set(w, [wait[w] EXCEPT !.pc = "end", !.result = r])
  /\ UNCHANGED <<call, toHost, host, inbox, ctl, reminder, cancels>>

-----------------------------------------------------------------------------
Next ==
  \/ \E t \in Task : \/ Dispatch(t) \/ GiveUp(t) \/ AddReminder(t) \/ ReminderAdded(t)
                     \/ RegisterWatch(t) \/ Insert(t) \/ MarkRunning(t)
                     \/ RemoveReminder(t) \/ LoseCancel(t)
                     \/ \E s \in Final : Finish(t, s)
  \/ Crash \/ LoseEvent \/ Receive \/ HandleEvent
  \/ \E w \in Wait : Arm(w) \/ Check(w) \/ Woken(w) \/ Deadline(w) \/ Fetch(w)

(* The receive task and the callers' tasks run; nothing makes a deadline come early. *)
Fairness ==
  /\ WF_vars(HandleEvent)
  /\ \A w \in Wait : WF_vars(Arm(w)) /\ WF_vars(Check(w)) /\ WF_vars(Woken(w))

Spec == Init /\ [][Next]_vars /\ Fairness

-----------------------------------------------------------------------------
(* A wait that the event ended returns the final row, with the status the event  *)
(* announced, unless the host failed to save it (its UPDATE's error is ignored). *)
EventMeansResult ==
  \A w \in Wait : LET t == TaskOf[w] IN
    wait[w].by = "event" /\ wait[w].result \notin {"none", "error"} /\ t \notin unsaved
      => wait[w].result = events[t]

(* Once the event is recorded, no call waits for its deadline: the notification *)
(* cannot fall between its look at the events and its sleep.                    *)
NoLostWakeup ==
  \A w \in Wait : events[TaskOf[w]] # "none" ~> wait[w].pc \notin {"check", "sleep"}

(* Once a watched task's event is handled its reminder is cancelled, unless the *)
(* event had come before the watch or the cancellation is lost on its way: then *)
(* the reminder stays for good.                                                 *)
ReminderCancelled ==
  \A t \in Task :
    /\ call[t] = "ok" /\ events[t] # "none" /\ handler.task # t /\ t \in reminder
    => t \in cancels \cup stranded

=============================================================================
