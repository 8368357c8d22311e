------------------------------ MODULE Scheduler ------------------------------
(***************************************************************************)
(* The Scheduler of scheduler.cpp: any thread queues a SchedulerTask with  *)
(* addEvent and may cancel it with stopEvent; one thread sleeps on a       *)
(* condition variable until the earliest task is due, takes it off the     *)
(* queue and hands it to the Dispatcher.                                   *)
(*                                                                         *)
(* Each block under m_eventLock is one action.  What happens outside the   *)
(* lock is a step of its own: the test of the while loop, the hand-over to *)
(* the Dispatcher, and the notify_one of addEvent, which comes after the   *)
(* unlock and so may reach the thread in a later wait.                     *)
(***************************************************************************)
EXTENDS Integers, FiniteSets

CONSTANTS
  MaxId,     \* number of addEvent calls explored (the code wraps at 0xFFFFFFFF)
  MaxTime,   \* last instant of the clock
  Delays,    \* delays callers ask for, in ticks
  MinTicks,  \* SCHEDULER_MINTICKS
  None       \* no task

ASSUME SchedulerAssumption ==
  /\ MaxId \in Nat \ {0}
  /\ MaxTime \in Nat
  /\ Delays \subseteq Nat
  /\ MinTicks \in Nat \ {0}

Ids  == 1..MaxId
Task == [id : Ids, due : 0..MaxTime]

ASSUME NoneAssumption == None \notin Task

VARIABLES
  now,         \* boost::get_system_time()
  lastEvent,   \* m_lastEvent
  eventList,   \* m_eventList, the priority queue
  eventIds,    \* m_eventIds, the events nobody has stopped
  schedState,  \* m_threadState
  eventSignals,     \* callers between m_eventLock.unlock() and notify_one()
  spc,         \* where the scheduler thread is
  wakeAt,      \* the deadline of its timed_wait
  action,      \* its local of that name: what the wait returned
  task,        \* the task it took
  run,         \* whether the task was still in m_eventIds
  handed,      \* history: ids given to the Dispatcher
  stopped      \* history: ids for which stopEvent returned true

clientVars == <<lastEvent, schedState>>
threadVars == <<spc, wakeAt, action, task, run>>
vars == <<now, lastEvent, eventList, eventIds, schedState, eventSignals, spc,
          wakeAt, action, task, run, handed, stopped>>

(* priority_queue::top: a task no other precedes; among equals, whichever
   the heap holds at its root. *)
Earliest == {t \in eventList : \A u \in eventList : t.due <= u.due}

PendingIds == {t.id : t \in eventList}

Init ==
  /\ now = 0 /\ lastEvent = 0
  /\ eventList = {} /\ eventIds = {}
  /\ schedState = "RUNNING"
  /\ eventSignals = 0
  /\ spc = "check" /\ wakeAt = 0 /\ action = FALSE /\ task = None /\ run = FALSE
  /\ handed = {} /\ stopped = {}

Tick == /\ now < MaxTime
        /\ now' = now + 1
        /\ UNCHANGED <<clientVars, eventList, eventIds, eventSignals, threadVars,
                       handed, stopped>>

(* createSchedulerTask raises a delay below SCHEDULER_MINTICKS. *)
DueTime(delay) == now + IF delay < MinTicks THEN MinTicks ELSE delay

(* The heap sifts a new task past later ones only, so it becomes the top
   exactly when it is earlier than all of them. *)
BecomesTop(t) == \A u \in eventList : t.due < u.due

(* The mutants, each before the definition it replaces.  AddEvent: signal
   only a queue that was empty, or never. *)
AddEventSilent(delay) ==
  /\ schedState = "RUNNING" /\ lastEvent < MaxId /\ DueTime(delay) <= MaxTime
  /\ LET t == [id |-> lastEvent + 1, due |-> DueTime(delay)]
     IN  /\ eventList' = eventList \cup {t}
         /\ eventIds' = eventIds \cup {t.id}
  /\ lastEvent' = lastEvent + 1
  /\ UNCHANGED <<now, schedState, eventSignals, threadVars, handed, stopped>>

AddEventSignalsEmpty(delay) ==
  /\ schedState = "RUNNING" /\ lastEvent < MaxId /\ DueTime(delay) <= MaxTime
  /\ LET t == [id |-> lastEvent + 1, due |-> DueTime(delay)]
     IN  /\ eventList' = eventList \cup {t}
         /\ eventIds' = eventIds \cup {t.id}
         /\ eventSignals' = eventSignals + IF eventList = {} THEN 1 ELSE 0
  /\ lastEvent' = lastEvent + 1
  /\ UNCHANGED <<now, schedState, threadVars, handed, stopped>>

(* addEvent: after stop() or shutdown() the task is dropped. *)
AddEvent(delay) ==
  /\ schedState = "RUNNING"
  /\ lastEvent < MaxId
  /\ DueTime(delay) <= MaxTime
  /\ LET t == [id |-> lastEvent + 1, due |-> DueTime(delay)]
     IN  /\ eventList' = eventList \cup {t}
         /\ eventIds' = eventIds \cup {t.id}
         /\ eventSignals' = eventSignals + IF BecomesTop(t) THEN 1 ELSE 0
  /\ lastEvent' = lastEvent + 1
  /\ UNCHANGED <<now, schedState, threadVars, handed, stopped>>

(* notify_one: wakes the thread if it is waiting, and is lost otherwise.
   wait() returns nothing and leaves action at its initial false;
   timed_wait() returns true. *)
Notify ==
  /\ eventSignals > 0
  /\ eventSignals' = eventSignals - 1
  /\ IF spc \in {"wait", "timed"}
       THEN /\ spc' = "woken"
            /\ action' = (spc = "timed")
       ELSE UNCHANGED <<spc, action>>
  /\ UNCHANGED <<now, clientVars, eventList, eventIds, wakeAt, task, run,
                 handed, stopped>>

(* stopEvent: the id leaves m_eventIds, its task stays queued.  When the id
   is not there it returns false and changes nothing. *)
StopEvent(id) ==
  /\ id \in eventIds
  /\ eventIds' = eventIds \ {id}
  /\ stopped' = stopped \cup {id}
  /\ UNCHANGED <<now, clientVars, eventList, eventSignals, threadVars, handed>>

(* stop() and shutdown(): neither notifies m_eventSignal. *)
Stop ==
  /\ schedState' = "CLOSING"
  /\ UNCHANGED <<now, lastEvent, eventList, eventIds, eventSignals, threadVars,
                 handed, stopped>>

Shutdown ==
  /\ schedState' = "TERMINATED"
  /\ eventList' = {} /\ eventIds' = {}
  /\ UNCHANGED <<now, lastEvent, eventSignals, threadVars, handed, stopped>>

(* while(m_threadState != STATE_TERMINATED), read without the lock. *)
Check ==
  /\ spc = "check"
  /\ spc' = IF schedState = "TERMINATED" THEN "exited" ELSE "lock"
  /\ action' = FALSE /\ task' = None /\ run' = FALSE
  /\ UNCHANGED <<now, clientVars, eventList, eventIds, eventSignals, wakeAt,
                 handed, stopped>>

(* The lock is taken and the thread begins one of its two waits. *)
Wait ==
  /\ spc = "lock"
  /\ IF eventList = {}
       THEN spc' = "wait" /\ UNCHANGED wakeAt
       ELSE \E t \in Earliest : spc' = "timed" /\ wakeAt' = t.due
  /\ UNCHANGED <<now, clientVars, eventList, eventIds, eventSignals, action, task,
                 run, handed, stopped>>

Timeout ==
  /\ spc = "timed" /\ now >= wakeAt
  /\ spc' = "woken" /\ action' = FALSE
  /\ UNCHANGED <<now, clientVars, eventList, eventIds, eventSignals, wakeAt, task,
                 run, handed, stopped>>

(* The wait has returned with the lock held again and no timeout is
   signalled by action: the earliest task is taken whatever the clock says.
   top() and pop() of an empty priority_queue are undefined: the model ends
   the thread there. *)
Take ==
  /\ spc = "woken" /\ ~action /\ schedState # "TERMINATED"
  /\ \/ /\ eventList = {}
        /\ spc' = "undefined"
        /\ UNCHANGED <<eventList, eventIds, task, run>>
     \/ \E t \in Earliest :
          /\ task' = t /\ eventList' = eventList \ {t}
          /\ run' = (t.id \in eventIds)
          /\ eventIds' = eventIds \ {t.id}
          /\ spc' = "unlocked"
  /\ UNCHANGED <<now, clientVars, eventSignals, wakeAt, action, handed, stopped>>

(* A notified timed_wait, or a termination seen under the lock: no task. *)
Skip ==
  /\ spc = "woken" /\ (action \/ schedState = "TERMINATED")
  /\ spc' = "check"
  /\ UNCHANGED <<now, clientVars, eventList, eventIds, eventSignals, wakeAt,
                 action, task, run, handed, stopped>>

(* HandOver: run the task although it was stopped. *)
HandOverStopped ==
  /\ spc = "unlocked"
  /\ spc' = "check"
  /\ handed' = handed \cup {task.id}
  /\ UNCHANGED <<now, clientVars, eventList, eventIds, eventSignals, wakeAt,
                 action, task, run, stopped>>

(* Outside the lock: unsetExpiration and Dispatcher::addTask(task, true), or
   delete for a stopped task. *)
HandOver ==
  /\ spc = "unlocked"
  /\ spc' = "check"
  /\ handed' = IF run THEN handed \cup {task.id} ELSE handed
  /\ UNCHANGED <<now, clientVars, eventList, eventIds, eventSignals, wakeAt,
                 action, task, run, stopped>>

Thread == Check \/ Wait \/ Timeout \/ Take \/ Skip \/ HandOver

Next ==
  \/ \E d \in Delays : AddEvent(d)
  \/ \E id \in Ids : StopEvent(id)
  \/ Notify \/ Stop \/ Shutdown \/ Tick \/ Thread

Spec == Init /\ [][Next]_vars

(* The operating system runs a thread that can run, a caller returns from
   addEvent, and time passes. *)
FairSpec == Spec /\ WF_vars(Thread) /\ WF_vars(Notify) /\ WF_vars(Tick)

-----------------------------------------------------------------------------
TypeOK ==
  /\ now \in 0..MaxTime
  /\ lastEvent \in 0..MaxId
  /\ eventList \subseteq Task
  /\ eventIds \subseteq Ids
  /\ schedState \in {"RUNNING", "CLOSING", "TERMINATED"}
  /\ eventSignals \in Nat
  /\ spc \in {"check", "lock", "wait", "timed", "woken", "unlocked", "exited",
              "undefined"}
  /\ wakeAt \in 0..MaxTime
  /\ action \in BOOLEAN /\ run \in BOOLEAN
  /\ task \in Task \cup {None}
  /\ handed \subseteq Ids /\ stopped \subseteq Ids

(* The thread never sleeps past the earliest queued task unless a caller is
   about to notify it: the signal of addEvent is neither missed nor sent to
   the wrong wait. *)
NoLostWakeup ==
  /\ spc = "wait" => eventList = {} \/ eventSignals > 0
  /\ spc = "timed" => eventSignals > 0 \/ \A t \in eventList : wakeAt <= t.due

(* An event whose stopEvent returned true never reaches the Dispatcher, not
   even when it was stopped while the thread was waking for it. *)
StoppedNeverRuns ==
  /\ stopped \cap handed = {}
  /\ spc = "unlocked" /\ run => task.id \notin stopped

(* stopEvent can return true only for a task that is still queued: m_eventIds
   never outlives the queue entry, so a true answer is a real cancellation. *)
IdsArePending == eventIds \subseteq PendingIds

(* A task is in one place only: still queued, in the thread's hand, or given
   to the Dispatcher; none runs twice. *)
RunsAtMostOnce ==
  /\ handed \cap PendingIds = {}
  /\ spc = "unlocked" => task.id \notin handed \cup PendingIds

(* The fate of an event as its owner sees it, and the promise the Scheduler
   keeps: see TimerService.  In particular stopEvent answers true only when
   the event will not fire, and an event that fires could not be stopped. *)
Fate(id) ==
  IF id \in handed \/ (spc = "unlocked" /\ run /\ task.id = id) THEN "fired"
  ELSE IF id \in stopped THEN "cancelled"
  ELSE IF id \in eventIds THEN "pending"
  ELSE IF id <= lastEvent THEN "dropped" ELSE "idle"

Timer == INSTANCE TimerService WITH Events <- Ids,
                                    status <- [id \in Ids |-> Fate(id)]

ImplementsTimerService == Timer!Spec

(* Every event that is neither stopped nor caught by a termination is
   eventually taken by the thread. *)
EventuallyTaken ==
  \A id \in Ids : id \in eventIds ~> (id \notin eventIds \/ spc = "undefined")

(* scheduler.cpp:55 says of the point where a task is taken: "ok we had a
   timeout, so there has to be an event we have to execute".
   There is a task to take, and it is due. *)
TakenWhenDue ==
  /\ spc # "undefined"
  /\ spc = "unlocked" => task.due <= now
=============================================================================
