------------------------------ MODULE Reminders ------------------------------
(* The tasks of deals and the reminders of their terms: remindTasks and       *)
(* cleanup of service/worker.go, the tasks of store/deal_comms.go and         *)
(* service/pipeline.go.                                                       *)
(*                                                                            *)
(* cmd/api and cmd/worker both run the loops of the worker, each with a map   *)
(* of its own that says when it reminded of a task. The loop that reminds and *)
(* the loop that cleans are two goroutines of one process and share the map   *)
(* without a lock. Time goes in units of 24 hours / Day.                      *)
EXTENDS Integers, FiniteSets

CONSTANTS Tasks,      \* identifiers of tasks
          Processes,  \* processes that run the loops of the worker
          Day,        \* units of 24 hours: a term is near, a mark is fresh
          Keep,       \* units of 48 hours: a mark is kept at least so long
          Limit,      \* rows DueTasks returns
          Horizon,    \* bound: the farthest term of a task
          MaxFaults   \* bound: crashes and failed writes

VARIABLES tasks,     \* rows of deal_tasks
          reminded,  \* remindedTasks: the age of the mark of a task, by process
          remind,    \* the loop that reminds, by process
          clean,     \* the loop that cleans, by process
          written,   \* history: the age of the reminder this life of a process wrote in the last day
          faults     \* crashes and failed writes so far

vars == <<tasks, reminded, remind, clean, written, faults>>
loops == <<reminded, remind, clean, written, faults>>

\* The age of a mark, and of a reminder: nothing is told apart beyond Keep.
Never == -1
Age == Never .. Keep + 1
Older(a) == IF a \in {Never, Keep + 1} THEN a ELSE a + 1

\* Terms are counted down; 0 is a term that has passed.
NoTerm == -1
Term == NoTerm .. Horizon
Task == [status : {"open", "done"}, due : Term]
NoTask == [status |-> "absent", due |-> NoTerm]

Idle == [at |-> "idle", tasks |-> {}]

ASSUME RemindersAssumption ==
    /\ IsFiniteSet(Tasks) /\ Day \in Nat \ {0} /\ Keep \in Nat /\ Keep >= Day
    /\ Limit \in Nat \ {0} /\ Horizon \in Nat /\ MaxFaults \in Nat

Forgotten == [t \in Tasks |-> Never]

Init ==
    /\ tasks = [t \in Tasks |-> NoTask]
    /\ reminded = [p \in Processes |-> Forgotten]
    /\ remind = [p \in Processes |-> Idle]
    /\ clean = [p \in Processes |-> "idle"]
    /\ written = [p \in Processes |-> Forgotten]
    /\ faults = 0

Fault == faults < MaxFaults /\ faults' = faults + 1

-----------------------------------------------------------------------------
(* The dealer's tasks. The assignee is always set: the dealer by default.     *)

NewTask(due) == [status |-> "open", due |-> due]

CreateTask(t, due) ==
    /\ tasks[t] = NoTask
    /\ tasks' = [tasks EXCEPT ![t] = NewTask(due)]
    /\ UNCHANGED loops

\* The mark of a task that is done is set and taken back as often as one likes.
ToggleTask(t, done) ==
    /\ tasks[t] # NoTask
    /\ tasks' = [tasks EXCEPT ![t].status = IF done THEN "done" ELSE "open"]
    /\ UNCHANGED loops

DeleteTask(t) ==
    /\ tasks[t] # NoTask
    /\ tasks' = [tasks EXCEPT ![t] = NoTask]
    /\ UNCHANGED loops

-----------------------------------------------------------------------------
(* The loop that reminds. *)

\* Mutant of Due: a term that has passed is not reminded of.
DueAhead(t) == tasks[t].status = "open" /\ tasks[t].due \in 1 .. Day

\* A term within a day, and every term that has passed.
Due(t) == tasks[t].status = "open" /\ tasks[t].due \in 0 .. Day

\* Mutant of DueTasks: the rows are not limited.
DueTasksAll == {{t \in Tasks : Due(t)}}

\* DueTasks: the Limit nearest terms, in any order when they are equal.
DueTasks ==
    LET due == {t \in Tasks : Due(t)}
    IN {rows \in SUBSET due :
          /\ Cardinality(rows) = IF Cardinality(due) < Limit THEN Cardinality(due) ELSE Limit
          /\ \A t \in rows, x \in due \ rows : tasks[t].due <= tasks[x].due}

ReadDue(p) ==
    /\ remind[p].at = "idle"
    /\ \E rows \in DueTasks : remind' = [remind EXCEPT ![p] = [at |-> "marking", tasks |-> rows]]
    /\ UNCHANGED <<tasks, reminded, clean, written, faults>>

\* A task is left out while its mark is younger than a day.
Fresh(p, t) == reminded[p][t] \in 0 .. Day - 1

\* The mark is set before the reminder is written.
MarkTasks(p, items) ==
    reminded' = [reminded EXCEPT ![p] = [t \in Tasks |-> IF t \in items THEN 0 ELSE @[t]]]

Mark(p) ==
    /\ remind[p].at = "marking"
    /\ LET items == {t \in remind[p].tasks : ~Fresh(p, t)}
       IN /\ MarkTasks(p, items)
          /\ remind' = [remind EXCEPT ![p] =
                          IF items = {} THEN Idle ELSE [at |-> "writing", tasks |-> items]]
    /\ UNCHANGED <<tasks, clean, written, faults>>

\* One batch without a transaction of its own: all of the reminders or none.
CreateMany(p) ==
    written' = [written EXCEPT ![p] = [t \in Tasks |-> IF t \in remind[p].tasks THEN 0 ELSE @[t]]]

\* The error of a write is logged; the marks stay.
Write(p) ==
    /\ remind[p].at = "writing"
    /\ \/ CreateMany(p) /\ UNCHANGED faults
       \/ Fault /\ UNCHANGED written
    /\ remind' = [remind EXCEPT ![p] = Idle]
    /\ UNCHANGED <<tasks, reminded, clean>>

-----------------------------------------------------------------------------
(* The loop that cleans. *)

StartCleanup(p) ==
    /\ clean[p] = "idle"
    /\ clean' = [clean EXCEPT ![p] = "forgetting"]
    /\ UNCHANGED <<tasks, reminded, remind, written, faults>>

\* Mutant of TooOld: the threshold lies in the future.
TooOldAll(a) == a # Never

\* A mark from before the threshold.
TooOld(a) == a > Keep

ForgetOldReminders(p) ==
    /\ clean[p] = "forgetting"
    /\ reminded' = [reminded EXCEPT ![p] = [t \in Tasks |-> IF TooOld(@[t]) THEN Never ELSE @[t]]]
    /\ clean' = [clean EXCEPT ![p] = "cleaned"]
    /\ UNCHANGED <<tasks, remind, written, faults>>

-----------------------------------------------------------------------------
(* Processes and time. *)

\* The container is started again, with an empty map.
Restart(p) ==
    /\ reminded' = [reminded EXCEPT ![p] = Forgotten]
    /\ written' = [written EXCEPT ![p] = Forgotten]
    /\ remind' = [remind EXCEPT ![p] = Idle]
    /\ clean' = [clean EXCEPT ![p] = "idle"]
    /\ UNCHANGED tasks

\* A release, a signal or a crash, between two statements of the loops.
Crash(p) == Fault /\ Restart(p)

\* The runtime may find the map written by one goroutine while the other goes
\* through it: it ends the process, and recover does not help.
ConcurrentMap(p) ==
    /\ remind[p].at = "marking" /\ clean[p] = "forgetting"
    /\ Fault /\ Restart(p)

\* A run ends in two minutes: the loops are idle when a unit of time ends. The
\* cleaning, every 6 hours, runs at most once in a unit.
Tick ==
    /\ \A p \in Processes : remind[p] = Idle /\ clean[p] # "forgetting"
    /\ clean' = [p \in Processes |-> "idle"]
    /\ tasks' = [t \in Tasks |-> [tasks[t] EXCEPT !.due = IF @ > 0 THEN @ - 1 ELSE @]]
    /\ reminded' = [p \in Processes |-> [t \in Tasks |-> Older(reminded[p][t])]]
    /\ written' = [p \in Processes |-> [t \in Tasks |->
                    IF written[p][t] = Day - 1 THEN Never ELSE Older(written[p][t])]]
    /\ UNCHANGED <<remind, faults>>

\* The manager of the deal changes a task that is there.
OwnTasks(t) == DeleteTask(t) \/ \E done \in BOOLEAN : ToggleTask(t, done)

Dealer == \E t \in Tasks : OwnTasks(t) \/ \E due \in Term : CreateTask(t, due)

Remind(p) == ReadDue(p) \/ Mark(p) \/ Write(p)
Cleanup(p) == StartCleanup(p) \/ ForgetOldReminders(p)

Next ==
    \/ Dealer \/ Tick
    \/ \E p \in Processes : Remind(p) \/ Cleanup(p) \/ Crash(p) \/ ConcurrentMap(p)

\* The loops tick as long as the process lives. Time goes on: the loops are
\* idle again and again, for minutes between runs of two minutes at most.
Fairness ==
    /\ SF_vars(Tick)
    /\ \A p \in Processes : WF_vars(Remind(p)) /\ WF_vars(ForgetOldReminders(p))

Spec == Init /\ [][Next]_vars /\ Fairness

-----------------------------------------------------------------------------
(* Properties. *)

TypeOK ==
    /\ tasks \in [Tasks -> Task \cup {NoTask}]
    /\ reminded \in [Processes -> [Tasks -> Age]]
    /\ written \in [Processes -> [Tasks -> Never .. Day - 1]]
    /\ \A p \in Processes :
         /\ remind[p].at \in {"idle", "marking", "writing"}
         /\ remind[p].tasks \subseteq Tasks /\ Cardinality(remind[p].tasks) <= Limit
         /\ clean[p] \in {"idle", "forgetting", "cleaned"}
    /\ faults \in 0 .. MaxFaults

\* One life of a process writes no second reminder of a task within a day,
\* whatever the cleaning does to the map between and during the runs (the
\* comment of remindTasks: no stream of duplicates).
NeverEarly ==
    \A p \in Processes : remind[p].at = "writing" =>
        \A t \in remind[p].tasks : written[p][t] = Never

\* A task whose term is near or over, and is one of the Limit nearest, is
\* reminded of, and again every day until it is done, after failed writes and
\* lost processes too.
Open(due) == {t \in Tasks : tasks[t].status = "open" /\ tasks[t].due \in 0 .. due}
Near(t) == t \in Open(Day) /\ Cardinality(Open(tasks[t].due)) <= Limit
DueIsReminded ==
    \A t \in Tasks : Near(t) ~> (~Near(t) \/ \E p \in Processes : written[p][t] = 0)
=============================================================================
