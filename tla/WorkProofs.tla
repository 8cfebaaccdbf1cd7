--------------------------------- MODULE WorkProofs ---------------------------------
(***************************************************************************)
(* What holds of work that is waited for: what a completion event announced  *)
(* is what is fetched afterwards, and a task that ended lets go of its       *)
(* reminder (Tasks); an order is refused for a reason and leaves nothing     *)
(* behind (Sourcing).                                                        *)
(***************************************************************************)
EXTENDS Tasks, Sourcing, FiniteSetTheorems, TLAPS

(***************************************************************************)
(* Tasks, for any tasks, waits and number of crashes                         *)
(***************************************************************************)

(* TypeOK, but for the number of notifications. *)
Typed ==
  /\ call \in [Task -> {"new", "sent", "queued", "remind", "register", "ok", "error"}]
  /\ toHost \subseteq Task
  /\ row \in [Task -> Status \cup {"none"}]
  /\ child \in [Task -> {"none", "queued", "running", "over"}]
  /\ unsaved \subseteq Task /\ crashes \in 0..MaxCrashes
  /\ inbox \subseteq Task \X Final
  /\ handler \in {Idle} \cup
       [task: Task, status: Final, step: {"record", "notify", "cancel"}]
  /\ events \in [Task -> Final \cup {"none"}]
  /\ gen \in Nat
  /\ watched \subseteq Task /\ stranded \subseteq Task
  /\ reminder \subseteq Task /\ cancels \subseteq Task
  /\ wait \in [Wait -> [pc: {"new", "check", "sleep", "fetch", "end"},
                        armed: Nat, by: {"none", "event", "deadline"},
                        result: Status \cup {"none", "error"}]]

Handling(t) == handler # Idle /\ handler.task = t

(* A task ended with a status, and its row says so unless it could not be saved. *)
Ended(t, s) == child[t] = "over" /\ (t \notin unsaved => row[t] = s)

(* A task reaches the host once. *)
Queued ==
  /\ \A t \in toHost : call[t] # "new" /\ child[t] = "none"
  /\ \A t \in Task : child[t] # "none" => call[t] # "new"

(* Its one event is on its way, then handled, then recorded. *)
Announced ==
  /\ \A e \in inbox : Ended(e[1], e[2]) /\ events[e[1]] = "none" /\ ~ Handling(e[1])
  /\ \A e, f \in inbox : e[1] = f[1] => e = f
  /\ handler # Idle => /\ Ended(handler.task, handler.status)
                       /\ handler.step = "record" => events[handler.task] = "none"
  /\ \A t \in Task : events[t] # "none" => Ended(t, events[t])

(* A call has a result when it is over. *)
Unread == \A w \in Wait : wait[w].pc # "end" => wait[w].result = "none"

(* What a call fetched once the event had come is the row, which stays as it is. *)
Fetched ==
  \A w \in Wait : LET t == TaskOf[w] IN
    wait[w].by = "event" =>
      /\ events[t] # "none"
      /\ wait[w].result \notin {"none", "error"} /\ t \notin unsaved => wait[w].result = row[t]

(* Every recorded event is notified once. *)
Notified ==
  gen + (IF handler.step = "notify" THEN 1 ELSE 0) = Cardinality({t \in Task : events[t] # "none"})

(* A watched task keeps its watch or its cancellation for as long as its reminder, and
   an event that finds the watch is still being handled. *)
Watched ==
  \A t \in Task : call[t] = "ok" /\ t \in reminder =>
    /\ t \in watched \cup cancels \cup stranded
    /\ events[t] # "none" /\ t \notin cancels \cup stranded =>
         handler.task = t /\ handler.step \in {"notify", "cancel"}

IInv == Typed /\ Queued /\ Announced /\ Unread /\ Fetched /\ Notified /\ Watched

-----------------------------------------------------------------------------
(* Each part of the invariant is kept by every step. *)

(* The steps by what they change, for the invariants' proofs. *)
Calls(t) == Dispatch(t) \/ GiveUp(t) \/ AddReminder(t) \/ ReminderAdded(t) \/ RegisterWatch(t)
Waits(w) == Arm(w) \/ Check(w) \/ Woken(w) \/ Deadline(w) \/ Fetch(w)

LEMMA Steps ==
  ASSUME [Next]_vars
  PROVE  \/ \E t \in Task : \/ Calls(t) \/ Insert(t) \/ MarkRunning(t) \/ RemoveReminder(t)
                           \/ LoseCancel(t) \/ \E s \in Final : Finish(t, s)
         \/ Crash \/ LoseEvent \/ Receive \/ HandleEvent
         \/ \E w \in Wait : Waits(w)
         \/ UNCHANGED vars
BY DEF Next, Calls, Waits

LEMMA TypedKept ==
  ASSUME Typed, [Next]_vars
  PROVE  Typed'
<1> USE DEF Typed, host, ctl
<1>1. ASSUME NEW t \in Task, Calls(t) PROVE Typed'
  <2>1. CASE Dispatch(t)
    BY <2>1 DEF Dispatch
  <2>2. CASE GiveUp(t)
    BY <2>2 DEF GiveUp
  <2>3. CASE AddReminder(t)
    BY <2>3 DEF AddReminder
  <2>4. CASE ReminderAdded(t)
    BY <2>4 DEF ReminderAdded
  <2>5. CASE RegisterWatch(t)
    BY <2>5 DEF RegisterWatch
  <2> QED BY <1>1, <2>1, <2>2, <2>3, <2>4, <2>5 DEF Calls
<1>2. ASSUME NEW t \in Task, Insert(t) PROVE Typed'
  BY <1>2 DEF Insert, Status
<1>3. ASSUME NEW t \in Task, MarkRunning(t) PROVE Typed'
  BY <1>3 DEF MarkRunning, Status
<1>4. ASSUME NEW t \in Task, RemoveReminder(t) PROVE Typed'
  BY <1>4 DEF RemoveReminder
<1>5. ASSUME NEW t \in Task, NEW s \in Final, Finish(t, s) PROVE Typed'
  BY <1>5 DEF Finish, Save, Status
<1>6. CASE Crash
  BY <1>6, TasksAssumption DEF Crash
<1>7. CASE LoseEvent
  BY <1>7 DEF LoseEvent
<1>8. CASE Receive
  BY <1>8 DEF Receive
<1>9. CASE HandleEvent
  <2>1. handler.step \in {"record", "notify", "cancel"}
    BY <1>9 DEF HandleEvent
  <2>2. handler \in [task: Task, status: Final, step: {"record", "notify", "cancel"}]
    BY <2>1 DEF Idle
  <2> QED BY <1>9, <2>2 DEF HandleEvent, Cancel
<1>10. ASSUME NEW w \in Wait, Waits(w) PROVE Typed'
  <2> DEFINE Calling == [pc: {"new", "check", "sleep", "fetch", "end"},
                         armed: Nat, by: {"none", "event", "deadline"},
                         result: Status \cup {"none", "error"}]
  <2>1. wait[w] \in Calling /\ wait \in [Wait -> Calling]
    OBVIOUS
  <2>2. \E r \in Calling : wait' = [wait EXCEPT ![w] = r]
    <3>1. CASE Arm(w)
      <4>1. [wait[w] EXCEPT !.pc = "check", !.armed = gen] \in Calling
        BY <2>1
      <4> QED BY <3>1, <4>1 DEF Arm, Set
    <3>2. CASE Check(w)
      <4>1. [wait[w] EXCEPT !.pc = "fetch", !.by = "event"] \in Calling
        BY <2>1
      <4>2. [wait[w] EXCEPT !.pc = "sleep"] \in Calling
        BY <2>1
      <4> QED BY <3>2, <4>1, <4>2 DEF Check, Set
    <3>3. CASE Woken(w)
      <4>1. [wait[w] EXCEPT !.pc = "new"] \in Calling
        BY <2>1
      <4> QED BY <3>3, <4>1 DEF Woken, Set
    <3>4. CASE Deadline(w)
      <4>1. [wait[w] EXCEPT !.pc = "fetch", !.by = "deadline"] \in Calling
        BY <2>1
      <4> QED BY <3>4, <4>1 DEF Deadline, Set
    <3>5. CASE Fetch(w)
      <4>1. PICK r \in {row[TaskOf[w]], "error"} : Set(w, [wait[w] EXCEPT !.pc = "end", !.result = r])
        BY <3>5 DEF Fetch
      <4>2. r \in Status \cup {"none", "error"}
        BY <4>1, TasksAssumption
      <4>3. [wait[w] EXCEPT !.pc = "end", !.result = r] \in Calling
        BY <2>1, <4>2
      <4> QED BY <4>1, <4>3 DEF Set
    <3> QED BY <1>10, <3>1, <3>2, <3>3, <3>4, <3>5 DEF Waits
  <2>3. wait' \in [Wait -> Calling]
    BY <2>1, <2>2
  <2> QED BY <1>10, <2>3 DEF Waits, Arm, Check, Woken, Deadline, Fetch
<1>11. ASSUME NEW t \in Task, LoseCancel(t) PROVE Typed'
  BY <1>11 DEF LoseCancel
<1>12. CASE UNCHANGED vars
  BY <1>12 DEF vars
<1> QED BY Steps, <1>1, <1>2, <1>3, <1>4, <1>5, <1>6, <1>7, <1>8, <1>9, <1>10, <1>11, <1>12

LEMMA QueuedKept ==
  ASSUME Typed, Queued, [Next]_vars
  PROVE  Queued'
<1> USE DEF Typed, Queued, host, ctl
<1>1. CASE UNCHANGED <<call, toHost, child>>
  BY <1>1
<1>2. ASSUME NEW t \in Task, Calls(t) PROVE Queued'
  BY <1>2 DEF Calls, Dispatch, GiveUp, AddReminder, ReminderAdded, RegisterWatch
<1>3. ASSUME NEW t \in Task, Insert(t) PROVE Queued'
  BY <1>3 DEF Insert
<1>4. ASSUME NEW t \in Task, MarkRunning(t) PROVE Queued'
  BY <1>4 DEF MarkRunning
<1>5. ASSUME NEW t \in Task, NEW s \in Final, Finish(t, s) PROVE Queued'
  BY <1>5 DEF Finish
<1>6. CASE Crash
  BY <1>6 DEF Crash
<1> QED BY Steps, <1>1, <1>2, <1>3, <1>4, <1>5, <1>6 DEF vars, RemoveReminder, LoseEvent,
           LoseCancel, Receive, HandleEvent, Waits, Arm, Check, Woken, Deadline, Fetch

(* What happened to an ended task's row is over. *)
LEMMA EndedKept ==
  ASSUME Typed, Queued, [Next]_vars, NEW t \in Task, child[t] = "over"
  PROVE  child'[t] = "over" /\ row'[t] = row[t] /\ unsaved \subseteq unsaved'
<1> USE DEF Typed, Queued, host, ctl
<1>1. ASSUME NEW u \in Task, Insert(u) PROVE child'[t] = "over" /\ row'[t] = row[t] /\ unsaved \subseteq unsaved'
  BY <1>1 DEF Insert
<1>2. ASSUME NEW u \in Task, MarkRunning(u) PROVE child'[t] = "over" /\ row'[t] = row[t] /\ unsaved \subseteq unsaved'
  BY <1>2 DEF MarkRunning
<1>3. ASSUME NEW u \in Task, NEW s \in Final, Finish(u, s)
      PROVE  child'[t] = "over" /\ row'[t] = row[t] /\ unsaved \subseteq unsaved'
  BY <1>3 DEF Finish, Save
<1>4. CASE Crash
  BY <1>4 DEF Crash
<1> QED BY Steps, <1>1, <1>2, <1>3, <1>4 DEF vars, Calls, Dispatch, GiveUp, AddReminder,
           ReminderAdded, RegisterWatch, RemoveReminder, LoseEvent,
           LoseCancel, Receive, HandleEvent, Waits,
           Arm, Check, Woken, Deadline, Fetch

LEMMA AnnouncedKept ==
  ASSUME Typed, Queued, Announced, [Next]_vars
  PROVE  Announced'
<1> USE DEF Typed, Announced, host, ctl
<1>1. \A t \in Task, s \in Final : Ended(t, s) => Ended(t, s)'
  BY EndedKept DEF Ended
<1>2. CASE inbox' \subseteq inbox /\ UNCHANGED <<handler, events>>
  BY <1>1, <1>2 DEF Handling
<1>3. ASSUME NEW t \in Task, NEW s \in Final, Finish(t, s) PROVE Announced'
  <2>1. /\ inbox' = inbox \cup {<<t, s>>} /\ UNCHANGED <<handler, events>>
        /\ child[t] # "over" /\ child'[t] = "over"
        /\ t \notin unsaved' => row'[t] = s
    BY <1>3 DEF Finish, Save
  <2>2. /\ \A e \in inbox : e[1] # t
        /\ events[t] = "none" /\ ~ Handling(t)
    BY <2>1 DEF Ended, Handling
  <2>3. Ended(t, s)'
    BY <2>1 DEF Ended
  <2>4. <<t, s>>[1] = t /\ <<t, s>>[2] = s
    OBVIOUS
  <2> QED BY <1>1, <2>1, <2>2, <2>3, <2>4 DEF Handling
<1>4. CASE Receive
  <2>1. PICK e \in inbox : /\ inbox' = inbox \ {e}
                           /\ handler' = [task |-> e[1], status |-> e[2], step |-> "record"]
    BY <1>4 DEF Receive
  <2>2. handler = Idle /\ events' = events /\ e[1] \in Task /\ e[2] \in Final
    BY <1>4 DEF Receive
  <2>3. handler'.task = e[1] /\ handler'.status = e[2] /\ handler'.step = "record"
    BY <2>1
  <2> QED BY <1>1, <2>1, <2>2, <2>3 DEF Handling
<1>5. CASE HandleEvent
  <2> DEFINE t == handler.task
  <2>1. /\ handler \in [task: Task, status: Final, step: {"record", "notify", "cancel"}]
        /\ handler # Idle /\ inbox' = inbox
    BY <1>5 DEF HandleEvent, Idle
  <2>2. \A e \in inbox : e[1] # t
    BY <2>1 DEF Handling
  <2>3. CASE handler.step = "record"
    <3>1. /\ events' = [events EXCEPT ![t] = handler.status]
          /\ handler'.task = t /\ handler'.status = handler.status /\ handler'.step = "notify"
      BY <1>5, <2>1, <2>3 DEF HandleEvent
    <3> QED BY <1>1, <2>1, <2>2, <3>1 DEF Handling, Idle
  <2>4. CASE handler.step = "notify"
    <3>1. /\ events' = events
          /\ handler'.task = t /\ handler'.status = handler.status /\ handler'.step = "cancel"
      BY <1>5, <2>1, <2>4 DEF HandleEvent
    <3> QED BY <1>1, <2>1, <2>2, <3>1 DEF Handling, Idle
  <2>5. CASE handler.step = "cancel"
    <3>1. events' = events /\ handler' = Idle
      BY <1>5, <2>1, <2>5 DEF HandleEvent
    <3> QED BY <1>1, <2>1, <2>2, <3>1 DEF Handling
  <2> QED BY <2>1, <2>3, <2>4, <2>5
<1> QED BY Steps, <1>2, <1>3, <1>4, <1>5 DEF vars, Calls, Dispatch, GiveUp, AddReminder,
           ReminderAdded, RegisterWatch, Insert, MarkRunning, RemoveReminder, Crash, LoseEvent,
           LoseCancel, Waits, Arm, Check, Woken, Deadline, Fetch

LEMMA UnreadKept ==
  ASSUME Typed, Unread, [Next]_vars
  PROVE  Unread'
<1> USE DEF Typed, Unread
<1>1. CASE wait' = wait
  BY <1>1
<1>2. ASSUME NEW v \in Wait, Waits(v) PROVE Unread'
  <2>1. \A x \in Wait \ {v} : wait'[x] = wait[x]
    BY <1>2 DEF Waits, Arm, Check, Woken, Deadline, Fetch, Set
  <2>2. wait[v] \in [pc: {"new", "check", "sleep", "fetch", "end"},
                     armed: Nat, by: {"none", "event", "deadline"},
                     result: Status \cup {"none", "error"}]
    OBVIOUS
  <2>3. wait'[v].pc # "end" => wait'[v].result = "none"
    <3>1. CASE Arm(v)
      BY <2>2, <3>1 DEF Arm, Set
    <3>2. CASE Check(v)
      BY <2>2, <3>2 DEF Check, Set
    <3>3. CASE Woken(v)
      BY <2>2, <3>3 DEF Woken, Set
    <3>4. CASE Deadline(v)
      BY <2>2, <3>4 DEF Deadline, Set
    <3>5. CASE Fetch(v)
      <4>1. PICK r \in {row[TaskOf[v]], "error"} :
              wait' = [wait EXCEPT ![v] = [wait[v] EXCEPT !.pc = "end", !.result = r]]
        BY <3>5 DEF Fetch, Set
      <4>2. wait'[v].pc = "end"
        BY <2>2, <4>1
      <4> QED BY <4>2
    <3> QED BY <1>2, <3>1, <3>2, <3>3, <3>4, <3>5 DEF Waits
  <2> QED BY <2>1, <2>3
<1> QED BY Steps, <1>1, <1>2 DEF vars, Calls, Dispatch, GiveUp, AddReminder, host, ctl,
           ReminderAdded, RegisterWatch, Insert, MarkRunning, RemoveReminder, Finish, Crash,
           LoseEvent, LoseCancel, Receive, HandleEvent

LEMMA FetchedKept ==
  ASSUME Typed, Queued, Announced, Unread, Fetched, [Next]_vars
  PROVE  Fetched'
<1> USE DEF Typed, host, ctl
<1>1. SUFFICES ASSUME NEW w \in Wait, wait'[w].by = "event"
               PROVE  LET t == TaskOf[w] IN
                      /\ events'[t] # "none"
                      /\ wait'[w].result \notin {"none", "error"} /\ t \notin unsaved'
                           => wait'[w].result = row'[t]
  BY DEF Fetched
<1> DEFINE t == TaskOf[w]
<1>2. t \in Task
  BY TasksAssumption
(* What is recorded stays so, and the row of an ended task stays as it is. *)
<1>3. ASSUME events[t] # "none"
      PROVE  events'[t] # "none" /\ row'[t] = row[t] /\ unsaved \subseteq unsaved'
  <2>1. row'[t] = row[t] /\ unsaved \subseteq unsaved'
    BY <1>2, <1>3, EndedKept DEF Announced, Ended
  <2>2. CASE HandleEvent
    <3>1. events' = events \/ (handler # Idle /\ events' = [events EXCEPT ![handler.task] = handler.status])
      BY <2>2 DEF HandleEvent, Idle
    <3>2. handler # Idle => handler.status # "none"
      BY DEF Final
    <3> QED BY <1>2, <1>3, <2>1, <3>1, <3>2
  <2>3. CASE events' = events
    BY <1>3, <2>1, <2>3
  <2> QED BY Steps, <2>2, <2>3 DEF vars, Calls, Dispatch, GiveUp, AddReminder, ReminderAdded,
             RegisterWatch, Insert, MarkRunning, RemoveReminder, Finish, Crash, LoseEvent,
             LoseCancel, Receive, Waits, Arm, Check, Woken, Deadline, Fetch
<1>4. CASE wait' = wait
  BY <1>1, <1>3, <1>4 DEF Fetched
<1>5. ASSUME NEW v \in Wait, Waits(v) PROVE Fetched'
  <2>1. UNCHANGED <<events, row, unsaved>>
    BY <1>5 DEF Waits, Arm, Check, Woken, Deadline, Fetch
  <2>2. \A x \in Wait \ {v} : wait'[x] = wait[x]
    BY <1>5 DEF Waits, Arm, Check, Woken, Deadline, Fetch, Set
  <2>3. ASSUME wait'[v].by = "event"
        PROVE  /\ events[TaskOf[v]] # "none"
               /\ wait'[v].result \notin {"none", "error"} /\ TaskOf[v] \notin unsaved
                    => wait'[v].result = row[TaskOf[v]]
    <3>0. wait[v] \in [pc: {"new", "check", "sleep", "fetch", "end"},
                       armed: Nat, by: {"none", "event", "deadline"},
                       result: Status \cup {"none", "error"}]
      OBVIOUS
    <3>1. CASE Arm(v) \/ Woken(v)
      <4>1. CASE Arm(v)
        BY <2>3, <3>0, <4>1 DEF Arm, Set, Fetched
      <4>2. CASE Woken(v)
        BY <2>3, <3>0, <4>2 DEF Woken, Set, Fetched
      <4> QED BY <3>1, <4>1, <4>2
    <3>2. CASE Check(v)
      <4>1. CASE events[TaskOf[v]] \in Final
        <5>1. wait'[v].result = wait[v].result
          BY <3>0, <3>2, <4>1 DEF Check, Set
        <5>2. wait[v].result = "none"
          BY <3>2 DEF Check, Unread
        <5> QED BY <4>1, <5>1, <5>2 DEF Fetched, Final
      <4>2. CASE events[TaskOf[v]] \notin Final
        <5>1. wait'[v].by = wait[v].by /\ wait'[v].result = wait[v].result
          BY <3>0, <3>2, <4>2 DEF Check, Set
        <5> QED BY <2>3, <5>1 DEF Fetched
      <4> QED BY <4>1, <4>2
    <3>3. CASE Deadline(v)
      <4>1. wait'[v].by = "deadline"
        BY <3>0, <3>3 DEF Deadline, Set
      <4> QED BY <2>3, <4>1
    <3>4. CASE Fetch(v)
      <4>1. PICK r \in {row[TaskOf[v]], "error"} :
              wait' = [wait EXCEPT ![v] = [wait[v] EXCEPT !.pc = "end", !.result = r]]
        BY <3>4 DEF Fetch, Set
      <4>2. wait'[v].by = wait[v].by /\ wait'[v].result = r
        BY <3>0, <4>1
      <4> QED BY <2>3, <4>1, <4>2 DEF Fetched
    <3> QED BY <1>5, <3>1, <3>2, <3>3, <3>4 DEF Waits
  <2> QED BY <2>1, <2>2, <2>3 DEF Fetched
<1>6. ASSUME Fetched' PROVE  LET u == TaskOf[w] IN
                      /\ events'[u] # "none"
                      /\ wait'[w].result \notin {"none", "error"} /\ u \notin unsaved'
                           => wait'[w].result = row'[u]
  BY <1>1, <1>6 DEF Fetched
<1> QED BY Steps, <1>4, <1>5, <1>6 DEF vars, Calls, Dispatch, GiveUp, AddReminder,
           ReminderAdded, RegisterWatch, Insert, MarkRunning, RemoveReminder, Finish, Crash,
           LoseEvent, LoseCancel, Receive, HandleEvent

LEMMA NotifiedKept ==
  ASSUME Typed, Announced, Notified, [Next]_vars
  PROVE  Notified'
<1> USE DEF Typed, host, ctl
<1> DEFINE Recorded == {t \in Task : events[t] # "none"}
<1>1. CASE UNCHANGED <<handler, events, gen>>
  BY <1>1 DEF Notified
<1>2. CASE Receive
  <2>1. handler = Idle /\ handler'.step = "record" /\ UNCHANGED <<events, gen>>
    BY <1>2 DEF Receive
  <2> QED BY <2>1 DEF Notified, Idle
<1>3. CASE HandleEvent
  <2>1. handler \in [task: Task, status: Final, step: {"record", "notify", "cancel"}] /\ handler # Idle
    BY <1>3 DEF HandleEvent, Idle
  <2>2. CASE handler.step = "record"
    <3>1. /\ events' = [events EXCEPT ![handler.task] = handler.status]
          /\ handler'.step = "notify" /\ gen' = gen
      BY <1>3, <2>1, <2>2 DEF HandleEvent
    <3>2. handler.task \in Task /\ handler.task \notin Recorded /\ handler.status # "none"
      BY <2>1, <2>2 DEF Announced, Final
    <3>3. Recorded' = Recorded \cup {handler.task}
      BY <3>1, <3>2
    <3>4. IsFiniteSet(Recorded)
      BY TasksAssumption, FS_Subset
    <3>5. Cardinality(Recorded \cup {handler.task}) = Cardinality(Recorded) + 1
      BY <3>2, <3>4, FS_AddElement
    <3>6. gen + 0 = Cardinality(Recorded)
      BY <2>2 DEF Notified
    <3>7. gen' + 1 = Cardinality(Recorded')
      <4>1. gen \in Nat /\ gen' = gen
        BY <3>1
      <4> HIDE DEF Recorded
      <4> QED BY <4>1, <3>3, <3>5, <3>6
    <3> QED BY <3>1, <3>7 DEF Notified
  <2>3. CASE handler.step = "notify"
    <3>1. events' = events /\ handler'.step = "cancel" /\ gen' = gen + 1
      BY <1>3, <2>1, <2>3 DEF HandleEvent
    <3> QED BY <2>3, <3>1 DEF Notified
  <2>4. CASE handler.step = "cancel"
    <3>1. events' = events /\ handler' = Idle /\ gen' = gen
      BY <1>3, <2>1, <2>4 DEF HandleEvent
    <3>2. Idle.step # "notify"
      BY DEF Idle
    <3> QED BY <2>4, <3>1, <3>2 DEF Notified
  <2> QED BY <2>1, <2>2, <2>3, <2>4
<1> QED BY Steps, <1>1, <1>2, <1>3 DEF vars, Calls, Dispatch, GiveUp, AddReminder, ReminderAdded,
           RegisterWatch, Insert, MarkRunning, RemoveReminder, Finish, Crash, LoseEvent, LoseCancel, Waits, Arm, Check, Woken, Deadline, Fetch

LEMMA WatchedKept ==
  ASSUME Typed, Watched, [Next]_vars
  PROVE  Watched'
<1> USE DEF Typed, Watched, host, ctl
<1>1. CASE UNCHANGED <<call, reminder, watched, cancels, stranded, handler, events>>
  BY <1>1
<1>2. ASSUME NEW t \in Task, Calls(t) PROVE Watched'
  <2>1. CASE Dispatch(t)
    BY <2>1 DEF Dispatch
  <2>2. CASE GiveUp(t)
    BY <2>2 DEF GiveUp
  <2>3. CASE AddReminder(t)
    BY <2>3 DEF AddReminder
  <2>4. CASE ReminderAdded(t)
    BY <2>4 DEF ReminderAdded
  <2>5. CASE RegisterWatch(t)
    BY <2>5 DEF RegisterWatch
  <2> QED BY <1>2, <2>1, <2>2, <2>3, <2>4, <2>5 DEF Calls
<1>3. ASSUME NEW t \in Task, Insert(t) PROVE Watched'
  BY <1>3 DEF Insert
<1>4. ASSUME NEW t \in Task, RemoveReminder(t) PROVE Watched'
  BY <1>4 DEF RemoveReminder
<1>5. CASE Receive
  <2>1. handler = Idle /\ handler.step = "none" /\ UNCHANGED <<call, reminder, watched, cancels, stranded, events>>
    BY <1>5 DEF Receive, Idle
  <2> QED BY <2>1
<1>6. CASE HandleEvent
  <2>1. handler \in [task: Task, status: Final, step: {"record", "notify", "cancel"}]
    BY <1>6 DEF HandleEvent, Idle
  <2>2. UNCHANGED <<call, reminder, stranded>>
    BY <1>6 DEF HandleEvent
  <2>3. CASE handler.step = "record"
    <3>1. /\ \A t \in Task \ {handler.task} : events'[t] = events[t]
          /\ handler'.step = "notify" /\ handler'.task = handler.task
          /\ UNCHANGED <<watched, cancels>>
      BY <1>6, <2>1, <2>3 DEF HandleEvent
    <3> QED BY <2>2, <2>3, <3>1
  <2>4. CASE handler.step = "notify"
    <3>1. /\ handler'.step = "cancel" /\ handler'.task = handler.task
          /\ UNCHANGED <<events, watched, cancels>>
      BY <1>6, <2>1, <2>4 DEF HandleEvent
    <3> QED BY <2>2, <3>1
  <2>5. CASE handler.step = "cancel"
    <3>1. /\ handler' = Idle /\ events' = events
          /\ watched' = watched \ {handler.task} /\ cancels' = Cancel(handler.task)
      BY <1>6, <2>1, <2>5 DEF HandleEvent
    <3> QED BY <2>2, <3>1 DEF Cancel
  <2> QED BY <2>1, <2>3, <2>4, <2>5
<1>7. ASSUME NEW t \in Task, LoseCancel(t) PROVE Watched'
  BY <1>7 DEF LoseCancel
<1> QED BY Steps, <1>1, <1>2, <1>3, <1>4, <1>5, <1>6, <1>7 DEF vars, MarkRunning, Finish, Crash,
           LoseEvent, Waits, Arm, Check, Woken, Deadline, Fetch

-----------------------------------------------------------------------------
(* What the parts imply. *)

LEMMA Invariance == Spec => []IInv
<1>1. Init => IInv
  <2> SUFFICES ASSUME Init PROVE IInv
    OBVIOUS
  <2>1. Typed
    BY TasksAssumption DEF Init, Typed, Idle
  <2>2. Queued /\ Unread /\ Fetched /\ Watched
    BY DEF Init, Queued, Unread, Fetched, Watched
  <2>3. Announced
    BY DEF Init, Announced
  <2>4. Notified
    <3>1. gen = 0 /\ handler.step # "notify" /\ {t \in Task : events[t] # "none"} = {}
      BY DEF Init, Idle
    <3>2. Cardinality({}) = 0
      BY FS_EmptySet
    <3> QED BY <3>1, <3>2 DEF Notified
  <2> QED BY <2>1, <2>2, <2>3, <2>4 DEF IInv
<1>2. IInv /\ [Next]_vars => IInv'
  BY TypedKept, QueuedKept, AnnouncedKept, UnreadKept, FetchedKept, NotifiedKept, WatchedKept
     DEF IInv
<1> QED BY <1>1, <1>2, PTL DEF Spec

(* Whatever crashes, is lost or fails, the variables keep their types; the waiters are
   notified at most once for each task. *)
THEOREM TypeCorrect == Spec => []TypeOK
<1>1. IInv => TypeOK
  <2> SUFFICES ASSUME IInv PROVE TypeOK
    OBVIOUS
  <2> DEFINE Recorded == {t \in Task : events[t] # "none"}
  <2>1. /\ IsFiniteSet(Recorded) /\ Cardinality(Recorded) <= Cardinality(Task)
    BY TasksAssumption, FS_Subset
  <2>2. Cardinality(Recorded) \in Nat /\ Cardinality(Task) \in Nat
    BY <2>1, TasksAssumption, FS_CardinalityType
  <2>3. gen \in Nat /\ (gen = Cardinality(Recorded) \/ gen + 1 = Cardinality(Recorded))
    BY DEF IInv, Typed, Notified
  <2>4. gen \in 0..Cardinality(Task)
    BY <2>1, <2>2, <2>3
  <2> QED BY <2>4 DEF IInv, Typed, TypeOK
<1> QED BY <1>1, Invariance, PTL

(* A wait that the event ended returns the final row, with the status the event
   announced, unless the host failed to save it: the row is saved before the event is
   pushed, and no crash or late step touches the row of a task that ended. *)
THEOREM EventMeansResultHolds == Spec => []EventMeansResult
<1>1. IInv => EventMeansResult
  BY TasksAssumption DEF IInv, Announced, Fetched, Ended, EventMeansResult
<1> QED BY <1>1, Invariance, PTL

(* Once a watched task's event is handled its reminder is cancelled, unless the event
   had come before the watch: whichever of register_watch and handle_event comes last
   finds what the other left. *)
THEOREM ReminderCancelledHolds == Spec => []ReminderCancelled
<1>1. IInv => ReminderCancelled
  BY DEF IInv, Watched, ReminderCancelled
<1> QED BY <1>1, Invariance, PTL

-----------------------------------------------------------------------------
(***************************************************************************)
(* Sourcing, for any nodes and orders                                        *)
(***************************************************************************)

(* A node's queue gains at most one frame, at its end, and loses at most one, in front,
   or all. *)
Moved(q, r, K) ==
  \/ r = q \/ r = <<>>
  \/ q # <<>> /\ r = Tail(q)
  \/ \E f \in K : r = Append(q, f)
  \/ q # <<>> /\ \E f \in K : r = Append(Tail(q), f)

LEMMA MovedIsQueue ==
  ASSUME NEW S, NEW q \in Seq(S), NEW r, Moved(q, r, S) PROVE r \in Seq(S)
<1>1. ASSUME NEW p \in Seq(S), NEW f \in S PROVE Append(p, f) \in Seq(S)
  OBVIOUS
<1>2. q # <<>> => Tail(q) \in Seq(S)
  OBVIOUS
<1>3. <<>> \in Seq(S)
  OBVIOUS
<1> QED BY <1>1, <1>2, <1>3 DEF Moved

(* Where a frame that is not new stood before. *)
Shifted(q, r, K, c) ==
  \A i \in DOMAIN r : \/ r[i] \in K /\ i = Len(r)
                      \/ i + c \in DOMAIN q /\ r[i] = q[i + c]

LEMMA MovedFrames ==
  ASSUME NEW S, NEW q \in Seq(S), NEW K \in SUBSET S, NEW r, Moved(q, r, K)
  PROVE  Shifted(q, r, K, 0) \/ Shifted(q, r, K, 1)
<1>1. CASE r = q
  BY <1>1 DEF Shifted
<1>2. CASE r = <<>>
  BY <1>2 DEF Shifted
<1>3. CASE q # <<>> /\ r = Tail(q)
  BY <1>3 DEF Shifted
<1>4. ASSUME NEW f \in K, r = Append(q, f) PROVE Shifted(q, r, K, 0)
  <2>1. \A i \in DOMAIN r : \/ r[i] \in K /\ i = Len(r)
                            \/ i + 0 \in DOMAIN q /\ r[i] = q[i + 0]
    BY <1>4
  <2> QED BY <2>1 DEF Shifted
<1>5. ASSUME NEW f \in K, q # <<>>, r = Append(Tail(q), f) PROVE Shifted(q, r, K, 1)
  <2>1. Tail(q) \in Seq(S) /\ Len(Tail(q)) = Len(q) - 1 /\ Len(q) \in Nat \ {0}
    BY <1>5
  <2>2. \A i \in DOMAIN r : \/ r[i] \in K /\ i = Len(r)
                            \/ i + 1 \in DOMAIN q /\ r[i] = q[i + 1]
    BY <1>5, <2>1
  <2> QED BY <2>2 DEF Shifted
<1> QED BY <1>1, <1>2, <1>3, <1>4, <1>5 DEF Moved

-----------------------------------------------------------------------------
(* SourceTypeOK *)

(* What the loop and the outcomes are; nothing here waits in a loop it holds. *)
LoopsFree == \A n \in Node : loop[n] # "order"

LEMMA NodesOfOrder ==
  ASSUME NEW o \in Order PROVE SourceOf(o) \in Node /\ DestinationOf(o) \in Node
BY SourcingAssumption DEF Node

LEMMA SentIsFrame ==
  ASSUME NEW o \in Order, NEW with \in Answers,
         NEW kind \in {"job", "order", "probed", "worked", "probe"} \cup Work
  PROVE  Sent(kind, o, with) \in Frame
BY DEF Sent, Frame

(* Every queue moves one frame at a time. *)
MovedAll(K) == mail' = [n \in Node |-> mail'[n]] /\ \A n \in Node : Moved(mail[n], mail'[n], K)

(* Frames other than orders. *)
Plain == {f \in Frame : f.kind # "order"}

LEMMA PutMoves ==
  ASSUME SourceTypeOK, NEW n \in Node, NEW f, NEW K, f \in K, Put(n, f)
  PROVE  MovedAll(K)
<1>1. mail' = [mail EXCEPT ![n] = Append(@, f)] /\ mail \in [Node -> Seq(Frame)]
  BY DEF Put, SourceTypeOK
<1>2. mail'[n] = Append(mail[n], f) /\ \A k \in Node : k # n => mail'[k] = mail[k]
  BY <1>1
<1>3. Moved(mail[n], mail'[n], K)
  BY <1>2 DEF Moved
<1>4. mail' = [k \in Node |-> mail'[k]]
  BY <1>1
<1>5. \A k \in Node : k # n => Moved(mail[k], mail'[k], K)
  BY <1>2 DEF Moved
<1> QED BY <1>3, <1>4, <1>5 DEF MovedAll

LEMMA ReadMoves ==
  ASSUME SourceTypeOK, NEW n \in Node, ReadNext(n) PROVE MovedAll(Plain)
<1> DEFINE f == Head(mail[n])
           rest == [mail EXCEPT ![n] = Tail(@)]
<1>1. mail \in [Node -> Seq(Frame)] /\ mail[n] # <<>> /\ f \in Frame
  <2>1. mail \in [Node -> Seq(Frame)]
    BY DEF SourceTypeOK
  <2>2. mail[n] # <<>>
    BY DEF ReadNext
  <2> QED BY <2>1, <2>2
<1>2. f.order \in Order /\ SourceOf(f.order) \in Node
  BY <1>1, NodesOfOrder DEF Frame
<1>3. /\ rest \in [Node -> Seq(Frame)] /\ rest[n] = Tail(mail[n])
      /\ \A k \in Node : k # n => rest[k] = mail[k]
  BY <1>1
<1>4. CASE mail' = rest
  <2>1. \A k \in Node : Moved(mail[k], rest[k], Plain)
    BY <1>1, <1>3 DEF Moved
  <2>2. rest = [k \in Node |-> rest[k]]
    BY <1>3
  <2> QED BY <1>4, <2>1, <2>2 DEF MovedAll
<1>5. ASSUME NEW kind \in {"probed", "worked"}, NEW with \in Answers,
             mail' = [rest EXCEPT ![SourceOf(f.order)] = Append(@, Sent(kind, f.order, with))]
      PROVE  MovedAll(Plain)
  <2> DEFINE s == SourceOf(f.order)
             g == Sent(kind, f.order, with)
  <2>1. g \in Plain
    BY <1>2, SentIsFrame DEF Sent, Plain
  <2> HIDE DEF rest, g, f
  <2>2. mail'[s] = Append(rest[s], g) /\ \A k \in Node : k # s => mail'[k] = rest[k]
    BY <1>2, <1>3, <1>5 DEF g
  <2>3. Moved(mail[s], mail'[s], Plain)
    BY <1>1, <1>2, <1>3, <2>1, <2>2 DEF Moved
  <2>4. \A k \in Node : k # s => Moved(mail[k], mail'[k], Plain)
    BY <1>1, <1>3, <2>2 DEF Moved
  <2>5. mail' = [k \in Node |-> mail'[k]]
    BY <1>3, <1>5
  <2> QED BY <2>3, <2>4, <2>5 DEF MovedAll
<1>6. \A m \in Modes : mode[n] = m => mode[n] \in Answers
  BY DEF Answers
<1>7. mode[n] \in Modes
  BY DEF SourceTypeOK
<1>8. "error" \in Answers /\ "ok" \in Answers
  BY DEF Answers
<1> QED BY <1>4, <1>5, <1>6, <1>7, <1>8 DEF ReadNext

LEMMA MovedTyped ==
  ASSUME SourceTypeOK, NEW K \in SUBSET Frame, MovedAll(K)
  PROVE  mail' \in [Node -> Seq(Frame)]
<1>1. \A n \in Node : mail'[n] \in Seq(Frame)
  <2> SUFFICES ASSUME NEW n \in Node PROVE mail'[n] \in Seq(Frame)
    OBVIOUS
  <2>1. mail[n] \in Seq(Frame) /\ Moved(mail[n], mail'[n], K)
    BY DEF SourceTypeOK, MovedAll
  <2>2. Moved(mail[n], mail'[n], Frame)
    BY <2>1 DEF Moved
  <2> QED BY <2>1, <2>2, MovedIsQueue
<1> QED BY <1>1 DEF MovedAll

LEMMA RequestMoves ==
  ASSUME SourceTypeOK, NEW o \in Order, NEW kind \in {"probe"} \cup Work, SendRequest(o, kind)
  PROVE  MovedAll(Plain)
<1> DEFINE back == Sent(IF kind = "probe" THEN "probed" ELSE "worked", o, "error")
           out == Sent(kind, o, "ok")
<1>1. back \in Plain /\ out \in Plain
  <2>1. "error" \in Answers /\ "ok" \in Answers
    BY DEF Answers
  <2>2. kind # "order"
    BY DEF Work
  <2> QED BY <2>1, <2>2 DEF Plain, Sent, Frame
<1>2. PICK n \in Node, g \in Plain : Put(n, g)
  BY <1>1, NodesOfOrder DEF SendRequest
<1> QED BY <1>2, PutMoves

(* Orders move as they are told, everything else without them. *)
LEMMA AllMove ==
  ASSUME SourceTypeOK, [SourceNext]_sourceVars
  PROVE  \/ MovedAll(Plain)
         \/ \E o \in Order : Tell(o)
<1>1. ASSUME UNCHANGED mail PROVE MovedAll(Plain)
  <2>1. mail' = [n \in Node |-> mail'[n]]
    BY <1>1 DEF SourceTypeOK
  <2> QED BY <1>1, <2>1 DEF MovedAll, Moved
<1>2. ASSUME NEW o \in Order, OrderTask(o) PROVE MovedAll(Plain)
  <2>1. CASE BeginOrder(o)
    <3>1. CASE SendRequest(o, "probe")
      BY <3>1, RequestMoves
    <3> QED BY <2>1, <3>1, <1>1 DEF BeginOrder, RefuseOrder, Mint
  <2>2. CASE Probed(o)
    BY <2>2, <1>1 DEF Probed, Fails, RefuseOrder, Mint
  <2>3. CASE ProbeTimesOut(o)
    BY <2>3, <1>1 DEF ProbeTimesOut, Fails, RefuseOrder
  <2>4. CASE Send(o)
    <3>1. Head(unsent[o]) \in Work
      BY <2>4 DEF Send, SourceTypeOK
    <3> QED BY <2>4, <3>1, RequestMoves DEF Send
  <2> QED BY <1>1, <1>2, <2>1, <2>2, <2>3, <2>4 DEF OrderTask, Worked, Complete
<1>3. ASSUME NEW n \in Node, LoseFrame(n) \/ Leave(n) PROVE MovedAll(Plain)
  <2> DEFINE r == IF Leave(n) THEN <<>> ELSE Tail(mail[n])
  <2>1. mail' = [mail EXCEPT ![n] = r] /\ (r = <<>> \/ (mail[n] # <<>> /\ r = Tail(mail[n])))
    <3>1. CASE Leave(n)
      <4>1. r = <<>>
        BY <3>1
      <4>2. mail' = [mail EXCEPT ![n] = <<>>]
        BY <3>1 DEF Leave
      <4> HIDE DEF r
      <4>3. mail' = [mail EXCEPT ![n] = r]
        BY <4>1, <4>2
      <4> QED BY <4>1, <4>3
    <3>2. CASE ~ Leave(n)
      BY <1>3, <3>2 DEF LoseFrame
    <3> QED BY <3>1, <3>2
  <2> HIDE DEF r
  <2>2. mail' = [k \in Node |-> mail'[k]]
    BY <2>1 DEF SourceTypeOK
  <2>3. \A k \in Node : mail'[k] = IF k = n THEN r ELSE mail[k]
    BY <2>1 DEF SourceTypeOK
  <2>4. \A k \in Node : Moved(mail[k], mail'[k], Plain)
    BY <2>1, <2>3 DEF Moved
  <2> QED BY <2>2, <2>4 DEF MovedAll
<1>4. ASSUME NEW n \in Node, NEW o \in Order, Occupy(n, o) PROVE MovedAll(Plain)
  <2>1. Sent("job", o, "ok") \in Plain
    BY DEF Sent, Plain, Frame, Answers
  <2> QED BY <1>4, <2>1, PutMoves DEF Occupy
<1>5. ASSUME NEW n \in Node, \/ JobEnds(n) \/ \E m \in Modes : SetMode(n, m)
                             \/ \E d \in Node : Refresh(n, d)
      PROVE  MovedAll(Plain)
  BY <1>1, <1>5 DEF JobEnds, SetMode, Refresh
<1>6. CASE UNCHANGED sourceVars
  BY <1>1, <1>6 DEF sourceVars
<1> QED BY <1>2, <1>3, <1>4, <1>5, <1>6, ReadMoves DEF SourceNext

LEMMA SourceTypeNext ==
  ASSUME SourceTypeOK, [SourceNext]_sourceVars PROVE SourceTypeOK'
<1>1. mail' \in [Node -> Seq(Frame)]
  <2>1. CASE MovedAll(Plain)
    BY <2>1, MovedTyped DEF Plain
  <2>2. ASSUME NEW o \in Order, Tell(o) PROVE mail' \in [Node -> Seq(Frame)]
    <3>1. "ok" \in Answers
      BY DEF Answers
    <3>2. Sent("order", o, "ok") \in Frame
      BY <3>1, SentIsFrame
    <3> HIDE DEF Frame
    <3>3. MovedAll(Frame)
      BY <2>2, <3>2, PutMoves, NodesOfOrder DEF Tell
    <3> QED BY <3>3, MovedTyped
  <2> QED BY <2>1, <2>2, AllMove
<1> DEFINE Rest ==
             /\ loop \in [Node -> {"idle", "job", "order"}]
             /\ wedged \subseteq Node /\ gone \subseteq Node
             /\ mode \in [Node -> Modes]
             /\ cached \in [Node -> [Node -> Modes \cup {"absent"}]]
             /\ stage \in [Order -> {"new", "sent", "begin", "probing", "checked", "ready",
                                  "working", "over"}]
             /\ unsent \in [Order -> Seq(Work)]
             /\ reply \in [Order -> Answers \cup {"none"}]
             /\ awaited \subseteq Order
             /\ answer \in [Order -> {"none", "queued"} \cup Refusals]
             /\ store \in [Order -> {"none", "queued", "done", "failed"}]
             /\ blame \in [Order -> SUBSET Reasons]
             /\ used \in [jobs: 0..MaxJobs, changes: 0..MaxChanges, lost: 0..MaxLost]
<1>2. Rest
  BY DEF SourceTypeOK
<1>3. ASSUME NEW o \in Order, Tell(o) PROVE Rest'
  BY <1>2, <1>3 DEF Tell, Step, world, outcome
<1>4. ASSUME NEW o \in Order, OrderTask(o) PROVE Rest'
  <2>1. \A p \in Order : Released(p) \in [Node -> {"idle", "job", "order"}]
    BY <1>2 DEF Released
  <2>2. ASSUME NEW why \in Refusals, NEW reason \in SUBSET Reasons, RefuseOrder(o, why, reason),
               UNCHANGED <<world, unsent, used>>, reply' = reply, awaited' \subseteq awaited
        PROVE  Rest'
    BY <1>2, <2>1, <2>2 DEF RefuseOrder, Step, world
  <2>3. ASSUME Mint(o), UNCHANGED <<world, unsent, used>>, reply' = reply, awaited' \subseteq awaited
        PROVE  Rest'
    BY <1>2, <2>1, <2>3 DEF Mint, Step, world
  <2>4. ASSUME NEW kind, SendRequest(o, kind)
        PROVE  reply' \in [Order -> Answers \cup {"none"}] /\ awaited' \subseteq Order
    BY <1>2, <2>4 DEF SendRequest
  <2>5. CASE BeginOrder(o)
    <3>1. CASE SendRequest(o, "probe") /\ Step(o, "probing") /\ UNCHANGED <<loop, outcome>>
      BY <1>2, <2>4, <2>5, <3>1 DEF BeginOrder, Step, world, outcome
    <3>2. "source" \in Refusals /\ "unknown" \in Refusals
      BY DEF Refusals
    <3> QED BY <2>2, <2>3, <2>5, <3>1, <3>2 DEF BeginOrder
  <2>6. Causes(o) \in SUBSET Reasons /\ {"answered"} \in SUBSET Reasons
    BY DEF Causes, Reasons
  <2>7. "silent" \in Refusals /\ "mode" \in Refusals
    BY DEF Refusals
  <2>8. CASE Probed(o)
    BY <2>2, <2>3, <2>6, <2>7, <2>8 DEF Probed, Fails
  <2>9. CASE ProbeTimesOut(o)
    BY <2>2, <2>6, <2>7, <2>9 DEF ProbeTimesOut, Fails
  <2>10. CASE Send(o)
    <3>1. unsent'[o] \in Seq(Work) /\ unsent' \in [Order -> Seq(Work)]
      BY <1>2, <2>10 DEF Send
    <3> QED BY <1>2, <2>4, <2>10, <3>1 DEF Send, Step, world, outcome
  <2>11. CASE Worked(o)
    BY <1>2, <2>11 DEF Worked, End, Step, world
  <2>12. CASE Complete(o)
    BY <1>2, <2>12 DEF Complete, End, Step, world
  <2> QED BY <1>4, <2>5, <2>8, <2>9, <2>10, <2>11, <2>12 DEF OrderTask
<1>5. ASSUME NEW n \in Node, ReadNext(n) PROVE Rest'
  <2> DEFINE f == Head(mail[n])
  <2>1. f \in Frame
    <3>1. mail[n] \in Seq(Frame) /\ mail[n] # <<>>
      BY <1>5 DEF ReadNext, SourceTypeOK
    <3> QED BY <3>1
  <2>2. f.order \in Order /\ f.with \in Answers
    BY <2>1 DEF Frame
  <2> HIDE DEF f
  <2>3. UNCHANGED <<world, unsent, outcome, used>>
    BY <1>5 DEF ReadNext
  <2>4. loop' = loop \/ loop' = [loop EXCEPT ![n] = "idle"] \/ loop' = [loop EXCEPT ![n] = "job"]
    BY <1>5 DEF ReadNext, OrderRuns
  <2>5. stage' = stage \/ stage' = [stage EXCEPT ![f.order] = "begin"]
    BY <1>5 DEF ReadNext, Step, f
  <2>6. reply' = reply \/ reply' = [reply EXCEPT ![f.order] = f.with]
    BY <1>5 DEF ReadNext, f
  <2>7. awaited' \subseteq awaited
    BY <1>5 DEF ReadNext
  <2> QED BY <1>2, <2>2, <2>3, <2>4, <2>5, <2>6, <2>7 DEF world, outcome
<1>6. ASSUME NEW n \in Node, JobEnds(n) PROVE Rest'
  BY <1>2, <1>6 DEF JobEnds, world, outcome
<1> DEFINE Bounds == [jobs: 0..MaxJobs, changes: 0..MaxChanges, lost: 0..MaxLost]
<1>7. ASSUME NEW n \in Node, LoseFrame(n) PROVE Rest'
  <2>1. used' \in Bounds
    <3>1. used.lost < MaxLost /\ used' = [used EXCEPT !.lost = @ + 1]
      BY <1>7 DEF LoseFrame
    <3>2. used \in Bounds
      BY <1>2
    <3> QED BY <3>1, <3>2, SourcingAssumption
  <2> QED BY <1>2, <1>7, <2>1 DEF LoseFrame, world, outcome
<1>8. ASSUME NEW n \in Node, Leave(n) PROVE Rest'
  <2>1. used' \in Bounds
    <3>1. used.changes < MaxChanges /\ used' = [used EXCEPT !.changes = @ + 1]
      BY <1>8 DEF Leave
    <3>2. used \in Bounds
      BY <1>2
    <3> QED BY <3>1, <3>2, SourcingAssumption
  <2> QED BY <1>2, <1>8, <2>1 DEF Leave, outcome
<1>9. ASSUME NEW n \in Node, NEW o \in Order, Occupy(n, o) PROVE Rest'
  <2>1. used' \in Bounds
    <3>1. used.jobs < MaxJobs /\ used' = [used EXCEPT !.jobs = @ + 1]
      BY <1>9 DEF Occupy
    <3>2. used \in Bounds
      BY <1>2
    <3> QED BY <3>1, <3>2, SourcingAssumption
  <2> QED BY <1>2, <1>9, <2>1 DEF Occupy, world, outcome
<1>10. ASSUME NEW n \in Node, NEW m \in Modes, SetMode(n, m) PROVE Rest'
  <2>1. used' \in Bounds
    <3>1. used.changes < MaxChanges /\ used' = [used EXCEPT !.changes = @ + 1]
      BY <1>10 DEF SetMode
    <3>2. used \in Bounds
      BY <1>2
    <3> QED BY <3>1, <3>2, SourcingAssumption
  <2>2. mode' \in [Node -> Modes]
    BY <1>2, <1>10 DEF SetMode
  <2> QED BY <1>2, <1>10, <2>1, <2>2 DEF SetMode, outcome
<1>11. ASSUME NEW n \in Node, NEW d \in Node, Refresh(n, d) PROVE Rest'
  BY <1>2, <1>11 DEF Refresh, outcome
<1>12. ASSUME UNCHANGED sourceVars PROVE Rest'
  <2>1. UNCHANGED <<loop, wedged, gone, mode, cached, stage, unsent, reply, awaited, answer, store,
                    blame, used>>
    BY <1>12 DEF sourceVars
  <2> QED BY <1>2, <2>1
<1>13. Rest'
  <2> HIDE DEF Rest
  <2>1. CASE \E o \in Order : Tell(o) \/ OrderTask(o)
    BY <1>3, <1>4, <2>1
  <2>2. CASE \E n \in Node : \/ ReadNext(n) \/ JobEnds(n) \/ LoseFrame(n) \/ Leave(n)
                             \/ \E o \in Order : Occupy(n, o)
                             \/ \E m \in Modes : SetMode(n, m)
                             \/ \E d \in Node : Refresh(n, d)
    BY <1>5, <1>6, <1>7, <1>8, <1>9, <1>10, <1>11, <2>2
  <2>3. SourceNext \/ UNCHANGED sourceVars
    OBVIOUS
  <2> QED BY <1>12, <2>1, <2>2, <2>3 DEF SourceNext
<1> QED BY <1>1, <1>13 DEF SourceTypeOK

(* The types hold for any nodes, orders and bounds. *)
THEOREM SourceTypeCorrect == SourceSpec => []SourceTypeOK
<1>1. SourceInit => SourceTypeOK
  <2> SUFFICES ASSUME SourceInit PROVE SourceTypeOK
    OBVIOUS
  <2>1. mode \in [Node -> Modes] /\ cached = [n \in Node |-> mode]
    BY DEF SourceInit
  <2>2. cached \in [Node -> [Node -> Modes \cup {"absent"}]]
    BY <2>1
  <2>3. <<"slice">> \in Seq(Work) /\ <<"manifest", "slice">> \in Seq(Work)
    BY DEF Work
  <2>4. unsent \in [Order -> Seq(Work)]
    BY <2>3 DEF SourceInit
  <2>5. wedged \subseteq Node /\ gone \subseteq Node
    BY NodesOfOrder DEF SourceInit
  <2>6. mail \in [Node -> Seq(Frame)]
    BY DEF SourceInit
  <2>7. used \in [jobs: 0..MaxJobs, changes: 0..MaxChanges, lost: 0..MaxLost]
    BY SourcingAssumption DEF SourceInit
  <2> QED BY <2>1, <2>2, <2>4, <2>5, <2>6, <2>7 DEF SourceInit, SourceTypeOK
<1> QED BY <1>1, SourceTypeNext, PTL DEF SourceSpec

-----------------------------------------------------------------------------
(* BlamedForAReason: no loop waits for an order, so whatever keeps a request from being
   answered is one of the causes that are counted. *)

LEMMA CausesFound ==
  ASSUME SourceTypeOK, LoopsFree, NEW o \in Order, TimesOut(o) PROVE Causes(o) # {}
<1>1. CASE Holders(o) = {}
  BY <1>1 DEF Causes
<1>2. ASSUME NEW n \in Holders(o) PROVE Causes(o) # {}
  <2>1. n \in Node /\ Hindered(n)
    BY <1>2 DEF Holders, TimesOut
  <2>2. n \in wedged \/ loop[n] = "job"
    BY <2>1 DEF Hindered, LoopsFree, SourceTypeOK
  <2>3. CASE n \in wedged
    BY <1>2, <2>3 DEF Causes
  <2>4. CASE loop[n] = "job"
    <3>1. (IF n = SourceOf(o) THEN "source busy" ELSE "destination busy") \in Causes(o)
      BY <1>2, <2>4 DEF Causes
    <3> QED BY <3>1
  <2> QED BY <2>2, <2>3, <2>4
<1> QED BY <1>1, <1>2

LEMMA BlamedNext ==
  ASSUME SourceTypeOK, LoopsFree, BlamedForAReason, [SourceNext]_sourceVars
  PROVE  LoopsFree' /\ BlamedForAReason'
<1>1. LoopsFree'
  <2>1. \A p \in Order : \A n \in Node : Released(p)[n] # "order"
    BY DEF Released, LoopsFree, SourceTypeOK
  <2>2. ASSUME NEW o \in Order, OrderTask(o)
        PROVE  loop' = loop \/ loop' = Released(o)
    BY <2>2 DEF OrderTask, BeginOrder, Probed, ProbeTimesOut, Fails, RefuseOrder, Mint, Send, Worked,
                Complete
  <2>3. ASSUME NEW o \in Order, Tell(o) \/ \E n \in Node : Occupy(n, o)
        PROVE  loop' = loop
    BY <2>3 DEF Tell, Occupy
  <2>4. ASSUME NEW n \in Node, ReadNext(n) \/ JobEnds(n)
        PROVE  loop' \in {loop, [loop EXCEPT ![n] = "idle"], [loop EXCEPT ![n] = "job"]}
    BY <2>4 DEF ReadNext, OrderRuns, JobEnds
  <2>5. ASSUME NEW n \in Node, \/ LoseFrame(n)
                               \/ Leave(n)
                               \/ \E m \in Modes : SetMode(n, m)
                               \/ \E d \in Node : Refresh(n, d)
        PROVE  loop' = loop
    BY <2>5 DEF LoseFrame, Leave, SetMode, Refresh
  <2>6. CASE \E o \in Order : loop' = Released(o)
    BY <2>1, <2>6 DEF LoopsFree
  <2>7. CASE loop' = loop
    BY <2>7 DEF LoopsFree
  <2>8. CASE \E n \in Node : loop' \in {[loop EXCEPT ![n] = "idle"], [loop EXCEPT ![n] = "job"]}
    BY <2>8 DEF LoopsFree, SourceTypeOK
  <2> QED BY <2>2, <2>3, <2>4, <2>5, <2>6, <2>7, <2>8 DEF SourceNext, sourceVars
<1>2. ASSUME NEW o \in Order, NEW why, NEW reason, RefuseOrder(o, why, reason),
             why = "silent" => reason # {}
      PROVE  BlamedForAReason'
  BY <1>2 DEF RefuseOrder, BlamedForAReason, SourceTypeOK
<1>3. ASSUME NEW o \in Order, Mint(o) PROVE BlamedForAReason'
  BY <1>3 DEF Mint, BlamedForAReason, SourceTypeOK
<1>4. ASSUME UNCHANGED <<answer, blame>> PROVE BlamedForAReason'
  BY <1>4 DEF BlamedForAReason
<1>5. ASSUME NEW o \in Order, OrderTask(o) PROVE BlamedForAReason'
  <2>1. CASE BeginOrder(o)
    BY <1>2, <1>3, <1>4, <2>1 DEF BeginOrder, outcome
  <2>2. CASE Probed(o)
    <3>1. {"answered"} # {}
      OBVIOUS
    <3> QED BY <1>2, <1>3, <2>2, <3>1 DEF Probed, Fails
  <2>3. CASE ProbeTimesOut(o)
    <3>1. Causes(o) # {}
      BY <2>3, CausesFound DEF ProbeTimesOut
    <3> QED BY <1>2, <2>3, <3>1 DEF ProbeTimesOut, Fails
  <2>4. CASE Send(o) \/ Worked(o) \/ Complete(o)
    BY <1>4, <2>4 DEF Send, Worked, Complete, outcome
  <2> QED BY <1>5, <2>1, <2>2, <2>3, <2>4 DEF OrderTask
<1>6. ASSUME NEW o \in Order, Tell(o) PROVE BlamedForAReason'
  BY <1>4, <1>6 DEF Tell, outcome
<1>7. ASSUME NEW n \in Node, \/ ReadNext(n)
                             \/ JobEnds(n)
                             \/ LoseFrame(n)
                             \/ Leave(n)
                             \/ \E o \in Order : Occupy(n, o)
                             \/ \E m \in Modes : SetMode(n, m)
                             \/ \E d \in Node : Refresh(n, d)
      PROVE  BlamedForAReason'
  BY <1>4, <1>7 DEF ReadNext, JobEnds, LoseFrame, Leave, Occupy, SetMode, Refresh, outcome
<1>8. ASSUME UNCHANGED sourceVars PROVE BlamedForAReason'
  BY <1>4, <1>8 DEF sourceVars
<1> QED BY <1>1, <1>5, <1>6, <1>7, <1>8 DEF SourceNext

(* A destination is only said to be silent when something kept it from answering, or its
   answer from being read: whatever the nodes, however many commands are sent. *)
THEOREM BlamedForAReasonHolds == SourceSpec => []BlamedForAReason
<1>1. SourceInit => LoopsFree /\ BlamedForAReason
  BY DEF SourceInit, LoopsFree, BlamedForAReason
<1> QED BY <1>1, BlamedNext, SourceTypeCorrect, PTL DEF SourceSpec

-----------------------------------------------------------------------------
(* RefusedLeavesNothing and RequestsReleased: a task starts once. *)

IsOrder(n, i) == i \in DOMAIN mail[n] /\ mail[n][i].kind = "order"

(* An order that is not read yet is on its way once, and nobody works on it. *)
OrderedOnce ==
  /\ \A n \in Node : \A i : IsOrder(n, i) => stage[mail[n][i].order] = "sent"
  /\ \A n, k \in Node : \A i, j :
       IsOrder(n, i) /\ IsOrder(k, j) /\ mail[n][i].order = mail[k][j].order
       => n = k /\ i = j

(* How far an order is, what was said of it, and which requests wait. *)
Staged ==
  \A o \in Order :
    /\ stage[o] \in {"new", "sent", "begin", "probing"} => answer[o] = "none" /\ store[o] = "none"
    /\ stage[o] \in {"ready", "working"} => answer[o] = "queued"
    /\ answer[o] \in Refusals => store[o] = "none"
    /\ o \in awaited => stage[o] \in {"probing", "working"}
    /\ stage[o] # "checked"

LEMMA OrderFrame ==
  ASSUME SourceTypeOK, NEW n \in Node, NEW i, IsOrder(n, i)
  PROVE  mail[n][i] \in Frame /\ mail[n][i].order \in Order
<1>1. mail[n] \in Seq(Frame) /\ i \in DOMAIN mail[n]
  BY DEF SourceTypeOK, IsOrder
<1>2. mail[n][i] \in Frame
  BY <1>1
<1> QED BY <1>2 DEF Frame

(* An order still on its way was on its way before. *)
LEMMA OrdersMoved ==
  ASSUME SourceTypeOK, OrderedOnce, MovedAll(Plain)
  PROVE  /\ \A n \in Node : \A i : IsOrder(n, i)' =>
              \E j : IsOrder(n, j) /\ mail'[n][i] = mail[n][j]
         /\ \A n, k \in Node : \A i, j :
              IsOrder(n, i)' /\ IsOrder(k, j)' /\ mail'[n][i].order = mail'[k][j].order
              => n = k /\ i = j
<1>1. ASSUME NEW n \in Node
      PROVE  \E c \in {0, 1} : \A i : IsOrder(n, i)' =>
               IsOrder(n, i + c) /\ mail'[n][i] = mail[n][i + c] /\ i \in Nat
  <2>1. mail[n] \in Seq(Frame) /\ Moved(mail[n], mail'[n], Plain) /\ Plain \in SUBSET Frame
    BY DEF SourceTypeOK, MovedAll, Plain
  <2>2. PICK c \in {0, 1} : Shifted(mail[n], mail'[n], Plain, c)
    <3>1. Shifted(mail[n], mail'[n], Plain, 0) \/ Shifted(mail[n], mail'[n], Plain, 1)
      BY <2>1, MovedFrames
    <3> QED BY <3>1
  <2>3. mail'[n] \in Seq(Frame)
    BY <2>1, MovedTyped
  <2>4. ASSUME NEW i, IsOrder(n, i)'
        PROVE  IsOrder(n, i + c) /\ mail'[n][i] = mail[n][i + c] /\ i \in Nat
    <3>1. i \in DOMAIN mail'[n] /\ mail'[n][i].kind = "order"
      BY <2>4 DEF IsOrder
    <3>2. mail'[n][i] \notin Plain
      BY <3>1 DEF Plain
    <3>3. i + c \in DOMAIN mail[n] /\ mail'[n][i] = mail[n][i + c]
      BY <2>2, <3>1, <3>2 DEF Shifted
    <3>4. i \in Nat
      BY <2>3, <3>1
    <3> QED BY <3>1, <3>3, <3>4 DEF IsOrder
  <2> QED BY <2>4
<1>2. ASSUME NEW n \in Node, NEW k \in Node, NEW i, NEW j, IsOrder(n, i)', IsOrder(k, j)',
             mail'[n][i].order = mail'[k][j].order
      PROVE  n = k /\ i = j
  <2>1. PICK c \in {0, 1} : \A l : IsOrder(n, l)' =>
               IsOrder(n, l + c) /\ mail'[n][l] = mail[n][l + c] /\ l \in Nat
    BY <1>1
  <2>2. PICK d \in {0, 1} : \A l : IsOrder(k, l)' =>
               IsOrder(k, l + d) /\ mail'[k][l] = mail[k][l + d] /\ l \in Nat
    BY <1>1
  <2>3. n = k /\ i + c = j + d
    BY <1>2, <2>1, <2>2 DEF OrderedOnce
  <2>4. IsOrder(n, j + c) /\ mail'[n][j] = mail[n][j + c] /\ i \in Nat /\ j \in Nat
    BY <1>2, <2>1, <2>3
  <2>5. i + c = j + c
    BY <1>2, <2>1, <2>3, <2>4 DEF OrderedOnce
  <2> QED BY <2>3, <2>4, <2>5
<1> QED BY <1>1, <1>2

LEMMA OrderedKept ==
  ASSUME SourceTypeOK, OrderedOnce, MovedAll(Plain),
         \A o \in Order : stage[o] = "sent" => stage'[o] = "sent"
  PROVE  OrderedOnce'
<1>1. ASSUME NEW n \in Node, NEW i, IsOrder(n, i)' PROVE stage'[mail'[n][i].order] = "sent"
  <2>1. PICK j : IsOrder(n, j) /\ mail'[n][i] = mail[n][j]
    BY <1>1, OrdersMoved
  <2>2. mail[n][j].order \in Order
    BY <2>1, OrderFrame
  <2> QED BY <2>1, <2>2 DEF OrderedOnce
<1> QED BY <1>1, OrdersMoved DEF OrderedOnce

(* A node that reads an order reads one that nobody works on yet. *)
LEMMA OrderRead ==
  ASSUME SourceTypeOK, OrderedOnce, NEW n \in Node, ReadNext(n), Head(mail[n]).kind = "order"
  PROVE  /\ OrderedOnce'
         /\ stage[Head(mail[n]).order] = "sent" /\ Head(mail[n]).order \in Order
         /\ stage' = [stage EXCEPT ![Head(mail[n]).order] = "begin"]
<1> DEFINE o == Head(mail[n]).order
<1>1. mail[n] \in Seq(Frame) /\ mail[n] # <<>> /\ mail \in [Node -> Seq(Frame)]
  BY DEF ReadNext, SourceTypeOK
<1>2. Head(mail[n]) = mail[n][1] /\ IsOrder(n, 1) /\ o \in Order
  <2>1. Head(mail[n]) = mail[n][1] /\ 1 \in DOMAIN mail[n]
    BY <1>1
  <2>2. IsOrder(n, 1)
    BY <2>1 DEF IsOrder
  <2> QED BY <2>1, <2>2, OrderFrame
<1>3. "order" \notin Work
  BY DEF Work
<1>4. mail' = [mail EXCEPT ![n] = Tail(@)] /\ stage' = [stage EXCEPT ![o] = "begin"]
  BY <1>3 DEF ReadNext, Step
<1>5. ASSUME NEW k \in Node, NEW i, IsOrder(k, i)'
      PROVE  \E j : /\ IsOrder(k, j) /\ mail'[k][i] = mail[k][j] /\ ~ (k = n /\ j = 1)
                    /\ i \in Nat /\ j = i + (IF k = n THEN 1 ELSE 0)
  <2>1. i \in DOMAIN mail'[k] /\ mail'[k][i].kind = "order"
    BY <1>5 DEF IsOrder
  <2>2. CASE k = n
    <3>1. mail'[k] = Tail(mail[n])
      BY <1>1, <1>4, <2>2
    <3>2. i \in Nat /\ i >= 1 /\ i + 1 \in DOMAIN mail[n] /\ mail'[k][i] = mail[n][i + 1]
      BY <1>1, <2>1, <3>1
    <3> QED BY <2>1, <2>2, <3>2 DEF IsOrder
  <2>3. CASE k # n
    <3>1. mail'[k] = mail[k] /\ mail[k] \in Seq(Frame)
      BY <1>1, <1>4, <2>3
    <3>2. i \in Nat
      BY <2>1, <3>1
    <3> QED BY <2>1, <2>3, <3>1, <3>2 DEF IsOrder
  <2> QED BY <2>2, <2>3
<1>6. ASSUME NEW k \in Node, NEW i, IsOrder(k, i)' PROVE stage'[mail'[k][i].order] = "sent"
  <2>1. PICK j : IsOrder(k, j) /\ mail'[k][i] = mail[k][j] /\ ~ (k = n /\ j = 1)
    BY <1>5, <1>6
  <2>2. mail[k][j].order \in Order /\ stage[mail[k][j].order] = "sent"
    BY <2>1, OrderFrame DEF OrderedOnce
  <2>3. mail[k][j].order # o
    BY <1>2, <2>1 DEF OrderedOnce
  <2>4. stage \in [Order -> {"new", "sent", "begin", "probing", "checked", "ready", "working",
                         "over"}]
    BY DEF SourceTypeOK
  <2> HIDE DEF o
  <2> QED BY <1>2, <1>4, <2>1, <2>2, <2>3, <2>4
<1>7. ASSUME NEW k \in Node, NEW l \in Node, NEW i, NEW j, IsOrder(k, i)', IsOrder(l, j)',
             mail'[k][i].order = mail'[l][j].order
      PROVE  k = l /\ i = j
  <2>1. PICK a : /\ IsOrder(k, a) /\ mail'[k][i] = mail[k][a]
                 /\ i \in Nat /\ a = i + (IF k = n THEN 1 ELSE 0)
    BY <1>5, <1>7
  <2>2. PICK b : /\ IsOrder(l, b) /\ mail'[l][j] = mail[l][b]
                 /\ j \in Nat /\ b = j + (IF l = n THEN 1 ELSE 0)
    BY <1>5, <1>7
  <2>3. k = l /\ a = b
    BY <1>7, <2>1, <2>2 DEF OrderedOnce
  <2> QED BY <2>1, <2>2, <2>3
<1>8. OrderedOnce'
  BY <1>6, <1>7 DEF OrderedOnce
<1>9. stage[o] = "sent"
  BY <1>2 DEF OrderedOnce
<1> QED BY <1>2, <1>4, <1>8, <1>9

LEMMA OrderTold ==
  ASSUME SourceTypeOK, OrderedOnce, NEW o \in Order, Tell(o) PROVE OrderedOnce'
<1> DEFINE s == SourceOf(o)
           g == Sent("order", o, "ok")
<1>1. mail \in [Node -> Seq(Frame)] /\ s \in Node /\ mail[s] \in Seq(Frame)
  BY NodesOfOrder DEF SourceTypeOK
<1>2. mail' = [mail EXCEPT ![s] = Append(@, g)] /\ stage' = [stage EXCEPT ![o] = "sent"] /\ stage[o] = "new"
  BY DEF Tell, Put, Step
<1>3. g.order = o
  BY DEF Sent
<1> HIDE DEF g, s
<1>4. ASSUME NEW k \in Node, NEW i, IsOrder(k, i)'
      PROVE  \/ IsOrder(k, i) /\ mail'[k][i] = mail[k][i] /\ mail[k][i].order # o
             \/ k = s /\ i = Len(mail[s]) + 1 /\ mail'[k][i] = g
  <2>1. i \in DOMAIN mail'[k] /\ mail'[k][i].kind = "order"
    BY <1>4 DEF IsOrder
  <2>2. CASE k = s /\ i = Len(mail[s]) + 1
    <3>1. mail'[k] = Append(mail[s], g)
      BY <1>1, <1>2, <2>2
    <3>2. mail'[k][i] = g
      BY <1>1, <2>2, <3>1
    <3> QED BY <2>2, <3>2
  <2>3. CASE ~ (k = s /\ i = Len(mail[s]) + 1)
    <3>1. i \in DOMAIN mail[k] /\ mail'[k][i] = mail[k][i]
      <4>1. CASE k = s
        <5>1. mail'[k] = Append(mail[s], g) /\ mail[k] = mail[s]
          BY <1>1, <1>2, <4>1
        <5> QED BY <1>1, <2>1, <2>3, <4>1, <5>1
      <4>2. CASE k # s
        BY <1>1, <1>2, <2>1, <4>2
      <4> QED BY <4>1, <4>2
    <3>2. IsOrder(k, i)
      BY <2>1, <3>1 DEF IsOrder
    <3>3. stage[mail[k][i].order] = "sent"
      BY <3>2 DEF OrderedOnce
    <3> QED BY <1>2, <3>1, <3>2, <3>3
  <2> QED BY <2>2, <2>3
<1>5. ASSUME NEW k \in Node, NEW i, IsOrder(k, i)' PROVE stage'[mail'[k][i].order] = "sent"
  <2>1. stage \in [Order -> {"new", "sent", "begin", "probing", "checked", "ready", "working",
                         "over"}]
    BY DEF SourceTypeOK
  <2>2. CASE IsOrder(k, i) /\ mail'[k][i] = mail[k][i]
    <3>1. mail[k][i].order \in Order /\ stage[mail[k][i].order] = "sent"
      BY <2>2, OrderFrame DEF OrderedOnce
    <3> QED BY <1>2, <2>1, <2>2, <3>1
  <2>3. CASE mail'[k][i] = g
    BY <1>2, <1>3, <2>1, <2>3
  <2> QED BY <1>4, <1>5, <2>2, <2>3
<1>6. ASSUME NEW k \in Node, NEW l \in Node, NEW i, NEW j, IsOrder(k, i)', IsOrder(l, j)',
             mail'[k][i].order = mail'[l][j].order
      PROVE  k = l /\ i = j
  <2>1. \/ IsOrder(k, i) /\ mail'[k][i] = mail[k][i] /\ mail[k][i].order # o
        \/ k = s /\ i = Len(mail[s]) + 1 /\ mail'[k][i] = g
    BY <1>4, <1>6
  <2>2. \/ IsOrder(l, j) /\ mail'[l][j] = mail[l][j] /\ mail[l][j].order # o
        \/ l = s /\ j = Len(mail[s]) + 1 /\ mail'[l][j] = g
    BY <1>4, <1>6
  <2> QED BY <1>3, <1>6, <2>1, <2>2 DEF OrderedOnce
<1> QED BY <1>5, <1>6 DEF OrderedOnce

(* Steps that start no order and read none. *)
LEMMA OrdersElsewhere ==
  ASSUME SourceTypeOK, OrderedOnce, [SourceNext]_sourceVars,
         \A o \in Order : ~ Tell(o),
         \A n \in Node : ~ (ReadNext(n) /\ Head(mail[n]).kind = "order")
  PROVE  OrderedOnce'
<1>1. MovedAll(Plain)
  BY AllMove
<1>2. ASSUME NEW o \in Order, stage[o] = "sent" PROVE stage'[o] = "sent"
  <2>1. ASSUME NEW p \in Order, OrderTask(p) PROVE stage'[o] = "sent"
    <3>1. p # o
      BY <1>2, <2>1 DEF OrderTask, BeginOrder, Probed, ProbeTimesOut, Send, Worked, Complete
    <3>2. stage' = [stage EXCEPT ![p] = stage'[p]]
      BY <2>1 DEF OrderTask, BeginOrder, Probed, ProbeTimesOut, Send, Worked, Complete, RefuseOrder, Mint,
                  Fails, SendRequest, End, Step, SourceTypeOK
    <3> QED BY <1>2, <3>1, <3>2 DEF SourceTypeOK
  <2>2. ASSUME NEW n \in Node, ReadNext(n) PROVE stage'[o] = "sent"
    BY <1>2, <2>2 DEF ReadNext
  <2>3. ASSUME NEW n \in Node, \/ JobEnds(n)
                               \/ LoseFrame(n)
                               \/ Leave(n)
                               \/ \E p \in Order : Occupy(n, p)
                               \/ \E m \in Modes : SetMode(n, m)
                               \/ \E d \in Node : Refresh(n, d)
        PROVE  stage'[o] = "sent"
    BY <1>2, <2>3 DEF JobEnds, LoseFrame, Leave, Occupy, SetMode, Refresh
  <2> QED BY <1>2, <2>1, <2>2, <2>3 DEF SourceNext, sourceVars
<1> QED BY <1>1, <1>2, OrderedKept

LEMMA StagedNext ==
  ASSUME SourceTypeOK, OrderedOnce, Staged, [SourceNext]_sourceVars
  PROVE  OrderedOnce' /\ Staged'
<1> USE DEF Staged
<1>1. ASSUME NEW o \in Order, Tell(o) PROVE Staged'
  BY <1>1 DEF Tell, Step, outcome, SourceTypeOK
<1>2. ASSUME NEW o \in Order, OrderTask(o) PROVE Staged'
  <2>1. ASSUME NEW why \in Refusals, NEW reason, RefuseOrder(o, why, reason),
               awaited' = awaited \ {o} \/ awaited' = awaited,
               stage[o] = "begin" \/ (stage[o] = "probing" /\ awaited' = awaited \ {o})
        PROVE  Staged'
    <3>1. "none" \notin Refusals /\ "queued" \notin Refusals
      BY DEF Refusals
    <3> QED BY <2>1, <3>1 DEF RefuseOrder, Step, SourceTypeOK
  <2>2. ASSUME Mint(o), awaited' = awaited \ {o} \/ awaited' = awaited,
               stage[o] = "begin" \/ (stage[o] = "probing" /\ awaited' = awaited \ {o})
        PROVE  Staged'
    <3>1. "queued" \notin Refusals
      BY DEF Refusals
    <3> QED BY <2>2, <3>1 DEF Mint, Step, SourceTypeOK
  <2>3. {"source", "unknown", "silent", "mode"} \subseteq Refusals
    BY DEF Refusals
  <2>4. CASE BeginOrder(o)
    <3>1. CASE SendRequest(o, "probe") /\ Step(o, "probing") /\ UNCHANGED <<loop, outcome>>
      BY <2>4, <3>1 DEF BeginOrder, SendRequest, Step, outcome, SourceTypeOK
    <3> QED BY <2>1, <2>2, <2>3, <2>4, <3>1 DEF BeginOrder
  <2>5. CASE Probed(o)
    BY <2>1, <2>2, <2>3, <2>5 DEF Probed, Fails
  <2>6. CASE ProbeTimesOut(o)
    BY <2>1, <2>3, <2>6 DEF ProbeTimesOut, Fails
  <2>7. CASE Send(o)
    BY <2>7 DEF Send, SendRequest, Step, outcome, SourceTypeOK
  <2>8. "queued" \notin Refusals
    BY DEF Refusals
  <2>9. CASE Worked(o)
    BY <2>8, <2>9 DEF Worked, End, Step, SourceTypeOK
  <2>10. CASE Complete(o)
    BY <2>8, <2>10 DEF Complete, End, Step, SourceTypeOK
  <2> QED BY <1>2, <2>4, <2>5, <2>6, <2>7, <2>9, <2>10 DEF OrderTask
<1>3. ASSUME NEW n \in Node, ReadNext(n) PROVE Staged'
  <2>1. awaited' \subseteq awaited /\ UNCHANGED <<answer, store>>
    BY <1>3 DEF ReadNext, outcome
  <2>2. CASE Head(mail[n]).kind = "order"
    <3> DEFINE o == Head(mail[n]).order
    <3>1. stage[o] = "sent" /\ o \in Order /\ stage' = [stage EXCEPT ![o] = "begin"]
      BY <1>3, <2>2, OrderRead
    <3> HIDE DEF o
    <3>2. stage'[o] = "begin" /\ \A p \in Order : p # o => stage'[p] = stage[p]
      BY <3>1 DEF SourceTypeOK
    <3>3. o \notin awaited
      BY <3>1
    <3> QED BY <2>1, <3>1, <3>2, <3>3
  <2>3. CASE Head(mail[n]).kind # "order"
    <3>1. stage' = stage
      BY <1>3, <2>3 DEF ReadNext
    <3> QED BY <2>1, <3>1
  <2> QED BY <2>2, <2>3
<1>4. ASSUME NEW n \in Node, \/ JobEnds(n)
                             \/ LoseFrame(n)
                             \/ Leave(n)
                             \/ \E p \in Order : Occupy(n, p)
                             \/ \E m \in Modes : SetMode(n, m)
                             \/ \E d \in Node : Refresh(n, d)
      PROVE  Staged'
  <2>1. UNCHANGED <<stage, awaited, answer, store>>
    BY <1>4 DEF JobEnds, LoseFrame, Leave, Occupy, SetMode, Refresh, outcome
  <2> QED BY <2>1
<1>5. ASSUME UNCHANGED sourceVars PROVE Staged'
  BY <1>5 DEF sourceVars
<1>6. OrderedOnce'
  BY OrdersElsewhere, OrderRead, OrderTold
<1>7. Staged'
  <2> HIDE DEF Staged
  <2> QED BY <1>1, <1>2, <1>3, <1>4, <1>5 DEF SourceNext
<1> QED BY <1>6, <1>7

LEMMA StagedAlways == SourceSpec => []Staged
<1>1. SourceInit => OrderedOnce /\ Staged
  <2> SUFFICES ASSUME SourceInit PROVE OrderedOnce /\ Staged
    OBVIOUS
  <2>1. \A n \in Node : mail[n] = <<>>
    BY DEF SourceInit
  <2>2. "none" \notin Refusals
    BY DEF Refusals
  <2>3. Staged
    BY <2>2 DEF SourceInit, Staged
  <2>4. \A n \in Node : \A i : ~ IsOrder(n, i)
    BY <2>1 DEF IsOrder
  <2> QED BY <2>3, <2>4 DEF OrderedOnce
<1> QED BY <1>1, StagedNext, SourceTypeCorrect, PTL DEF SourceSpec

(* An order that was refused has left no transfer behind. *)
THEOREM RefusedLeavesNothingHolds == SourceSpec => []RefusedLeavesNothing
<1>1. Staged => RefusedLeavesNothing
  BY DEF Staged, RefusedLeavesNothing
<1> QED BY <1>1, StagedAlways, PTL

(* No request stays registered when the task that waited for it is over. *)
THEOREM RequestsReleasedHolds == SourceSpec => []RequestsReleased
<1>1. Staged => RequestsReleased
  BY DEF Staged, RequestsReleased
<1> QED BY <1>1, StagedAlways, PTL
=============================================================================
