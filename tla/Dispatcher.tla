----------------------------- MODULE Dispatcher -----------------------------
(***************************************************************************)
(* The Dispatcher of dispatcher.cpp: any thread queues a Task with addTask *)
(* at the back of m_taskList or at its front; one thread runs the tasks,   *)
(* one at a time, and that thread is the only one to touch the game state. *)
(* A task that Game::shutdown is part of calls Dispatcher::shutdown, which *)
(* runs whatever is still queued with m_taskLock held.                     *)
(***************************************************************************)
EXTENDS Integers, SequencesExt

CONSTANTS
  MaxTasks,     \* number of addTask calls explored
  MaxTime,      \* last instant of the clock
  Expirations,  \* expirations callers ask for, in ticks
  Never,        \* not_a_date_time: a task that does not expire
  Bodies,       \* what a task does when it runs
  NoTask        \* no task in the thread's hand

ASSUME DispatcherAssumption ==
  /\ MaxTasks \in Nat \ {0}
  /\ MaxTime \in Nat
  /\ Expirations \subseteq Nat
  /\ Never \notin Int

TaskIds == 1..MaxTasks
Tasks   == [id : TaskIds, front : BOOLEAN, body : Bodies,
            expiration : Nat \cup {Never}]

ASSUME NoTaskAssumption == NoTask \notin Tasks

VARIABLES
  now,        \* boost::get_system_time()
  lastTask,   \* number of tasks accepted so far
  taskList,   \* m_taskList
  dispState,  \* m_threadState
  taskLock,   \* whether the thread holds m_taskLock across steps
  taskSignals,    \* callers between m_taskLock.unlock() and notify_one()
  dpc,        \* where the dispatcher thread is
  cur,        \* the task it took
  done        \* history: the tasks it has begun to run, in order

callVars   == <<lastTask, dispState>>
threadVars == <<dpc, cur, taskLock>>
vars == <<now, lastTask, taskList, dispState, taskLock, taskSignals, dpc, cur, done>>

Init ==
  /\ now = 0 /\ lastTask = 0
  /\ taskList = <<>>
  /\ dispState = "RUNNING"
  /\ taskLock = FALSE /\ taskSignals = 0
  /\ dpc = "check" /\ cur = NoTask
  /\ done = <<>>

Tick == /\ now < MaxTime
        /\ now' = now + 1
        /\ UNCHANGED <<callVars, taskList, threadVars, taskSignals, done>>

(* createTask with or without an expiration; hasExpired compares strictly. *)
NewTask(front, body, expiration) ==
  [id |-> lastTask + 1, front |-> front, body |-> body,
   expiration |-> IF expiration = Never THEN Never ELSE now + expiration]

HasExpired(t) == t.expiration # Never /\ t.expiration < now

(* AddTask: signal when a task was already waiting. *)
AddTaskSignalsNonEmpty(front, body, expiration) ==
  /\ ~taskLock /\ dispState = "RUNNING" /\ lastTask < MaxTasks
  /\ LET t == NewTask(front, body, expiration)
     IN  taskList' = IF front THEN <<t>> \o taskList ELSE Append(taskList, t)
  /\ taskSignals' = taskSignals + IF taskList # <<>> THEN 1 ELSE 0
  /\ lastTask' = lastTask + 1
  /\ UNCHANGED <<now, dispState, threadVars, done>>

(* addTask, from any thread or from the running task.  After stop() or
   shutdown() the task is dropped and nothing changes. *)
AddTask(front, body, expiration) ==
  /\ ~taskLock
  /\ dispState = "RUNNING"
  /\ lastTask < MaxTasks
  /\ LET t == NewTask(front, body, expiration)
     IN  taskList' = IF front THEN <<t>> \o taskList ELSE Append(taskList, t)
  /\ taskSignals' = taskSignals + IF taskList = <<>> THEN 1 ELSE 0
  /\ lastTask' = lastTask + 1
  /\ UNCHANGED <<now, dispState, threadVars, done>>

(* notify_one, after the unlock: lost when the thread is not waiting. *)
Notify ==
  /\ taskSignals > 0
  /\ taskSignals' = taskSignals - 1
  /\ dpc' = IF dpc = "wait" THEN "woken" ELSE dpc
  /\ UNCHANGED <<now, callVars, taskList, taskLock, cur, done>>

(* stop(), from a signal handler or from the running task. *)
Stop ==
  /\ ~taskLock
  /\ dispState' = "CLOSING"
  /\ UNCHANGED <<now, lastTask, taskList, threadVars, taskSignals, done>>

(* while(m_threadState != STATE_TERMINATED), read without the lock. *)
Check ==
  /\ dpc = "check"
  /\ dpc' = IF dispState = "TERMINATED" THEN "exited" ELSE "lock"
  /\ cur' = NoTask
  /\ UNCHANGED <<now, callVars, taskList, taskLock, taskSignals, done>>

Wait ==
  /\ dpc = "lock" /\ taskList = <<>>
  /\ dpc' = "wait"
  /\ UNCHANGED <<now, callVars, taskList, taskLock, taskSignals, cur, done>>

TakeLast ==
  /\ dpc \in {"lock", "woken"} /\ taskList # <<>>
  /\ cur' = taskList[Len(taskList)]
  /\ taskList' = SubSeq(taskList, 1, Len(taskList) - 1)
  /\ dpc' = "taken"
  /\ UNCHANGED <<now, callVars, taskLock, taskSignals, done>>

(* The lock is held, at once or again after the wait: the first task leaves
   the list unless the thread has been terminated. *)
Take ==
  /\ dpc \in {"lock", "woken"}
  /\ taskList # <<>> /\ dispState # "TERMINATED"
  /\ cur' = Head(taskList) /\ taskList' = Tail(taskList)
  /\ dpc' = "taken"
  /\ UNCHANGED <<now, callVars, taskLock, taskSignals, done>>

Skip ==
  /\ dpc \in {"lock", "woken"}
  /\ IF taskList = <<>> THEN dpc = "woken" ELSE dispState = "TERMINATED"
  /\ dpc' = "check"
  /\ UNCHANGED <<now, callVars, taskList, taskLock, taskSignals, cur, done>>

(* Outside the lock: an expired task is deleted unrun. *)
Expire ==
  /\ dpc = "taken" /\ HasExpired(cur)
  /\ dpc' = "check"
  /\ UNCHANGED <<now, callVars, taskList, taskLock, taskSignals, cur, done>>

Begin ==
  /\ dpc = "taken" /\ ~HasExpired(cur)
  /\ dpc' = "running"
  /\ done' = Append(done, cur)
  /\ UNCHANGED <<now, callVars, taskList, taskLock, taskSignals, cur>>

Finish ==
  /\ dpc = "running"
  /\ dpc' = "check"
  /\ UNCHANGED <<now, callVars, taskList, taskLock, taskSignals, cur, done>>

(* shutdown(), from the running task: flush() begins with the lock held. *)
Shutdown ==
  /\ dpc = "running"
  /\ dispState' = "TERMINATED"
  /\ taskLock' = TRUE
  /\ dpc' = "flush"
  /\ UNCHANGED <<now, lastTask, taskList, taskSignals, cur, done>>

(* flush() takes the tasks in order and runs each, expired or not. *)
FlushRun ==
  /\ dpc = "flush" /\ taskList # <<>>
  /\ taskList' = Tail(taskList)
  /\ done' = Append(done, Head(taskList))
  /\ dpc' = "flushing"
  /\ UNCHANGED <<now, callVars, taskLock, taskSignals, cur>>

FlushNext ==
  /\ dpc = "flushing"
  /\ dpc' = "flush"
  /\ UNCHANGED <<now, callVars, taskList, taskLock, taskSignals, cur, done>>

(* A flushed task that calls addTask or stop locks m_taskLock a second time:
   the thread waits for itself. *)
FlushRelock ==
  /\ dpc = "flushing"
  /\ dpc' = "deadlocked"
  /\ UNCHANGED <<now, callVars, taskList, taskLock, taskSignals, cur, done>>

(* flush() returns and shutdown() unlocks: its caller goes on running. *)
FlushEnd ==
  /\ dpc = "flush" /\ taskList = <<>>
  /\ taskLock' = FALSE
  /\ dpc' = "running"
  /\ UNCHANGED <<now, callVars, taskList, taskSignals, cur, done>>

Step == Check \/ Wait \/ Take \/ Skip \/ Expire \/ Begin
        \/ FlushRun \/ FlushNext \/ FlushEnd

Next ==
  \/ \E front \in BOOLEAN, b \in Bodies, e \in Expirations \cup {Never} :
       AddTask(front, b, e)
  \/ Notify \/ Stop \/ Tick
  \/ Step \/ Finish \/ Shutdown \/ FlushRelock

Spec == Init /\ [][Next]_vars

(* The operating system runs a thread that can run; a task that runs ends;
   a caller of addTask reaches its notify_one. *)
FairSpec == Spec /\ WF_vars(Step \/ Finish) /\ WF_vars(Notify)

-----------------------------------------------------------------------------
TypeOK ==
  /\ now \in 0..MaxTime
  /\ lastTask \in 0..MaxTasks
  /\ taskList \in Seq(Tasks)
  /\ dispState \in {"RUNNING", "CLOSING", "TERMINATED"}
  /\ taskLock \in BOOLEAN
  /\ taskSignals \in Nat
  /\ dpc \in {"check", "lock", "wait", "woken", "taken", "running", "flush",
              "flushing", "deadlocked", "exited"}
  /\ cur \in Tasks \cup {NoTask}
  /\ done \in Seq(Tasks)

(* Tasks queued at the back, the packets of the clients, run in the order in
   which they were queued, however many front tasks pass them and also when
   the shutdown flushes them.  A task queued at the front, that is by the
   Scheduler, is never passed by one from the back, and the later front task
   runs before the earlier. *)
TasksInOrder ==
  /\ \A i, j \in DOMAIN done :
       i < j /\ ~done[i].front /\ ~done[j].front => done[i].id < done[j].id
  /\ \A i, j \in DOMAIN taskList :
       i < j /\ taskList[j].front
         => taskList[i].front /\ taskList[i].id > taskList[j].id

(* A task that addTask accepted runs once at most: it is in the list, in the
   thread's hand or among those begun, in one of them and there once. *)
RunsAtMostOnce ==
  LET all == done \o taskList
  IN  /\ \A i, j \in DOMAIN all : all[i].id = all[j].id => i = j
      /\ dpc = "taken" => \A i \in DOMAIN all : all[i].id # cur.id

(* Every accepted task is eventually taken from the list, by the loop or by
   the flush, unless a flushed task has blocked the thread. *)
EventuallyTaken ==
  \A id \in TaskIds :
    (\E i \in DOMAIN taskList : taskList[i].id = id)
      ~> (dpc = "deadlocked" \/ \A i \in DOMAIN taskList : taskList[i].id # id)
=============================================================================
