-------------------------- MODULE Scheduler_proofs --------------------------
(***************************************************************************)
(* Proofs about Scheduler for every number of events, every clock and every *)
(* set of delays.                                                          *)
(*                                                                         *)
(* The invariant IInv strengthens what the runs check with what makes it   *)
(* inductive: an id names one queued task, ids already given out stay at   *)
(* or below m_lastEvent, and a stopped id has left m_eventIds.             *)
(***************************************************************************)
EXTENDS Scheduler, TLAPS

IdsUnique == \A t, u \in eventList : t.id = u.id => t = u

IdsGivenOut ==
  /\ \A t \in eventList : t.id <= lastEvent
  /\ \A id \in handed \cup stopped : id <= lastEvent
  /\ spc = "unlocked" => task \in Task /\ task.id <= lastEvent

StoppedLeft == stopped \cap eventIds = {}

TakenLeft == spc = "unlocked" => task.id \notin eventIds

IInv ==
  /\ TypeOK /\ IdsUnique /\ IdsGivenOut /\ StoppedLeft
  /\ IdsArePending /\ RunsAtMostOnce /\ StoppedNeverRuns

-----------------------------------------------------------------------------
(* The Scheduler starts with an empty queue, so everything holds at first. *)
LEMMA InitIInv == Init => IInv
<1> SUFFICES ASSUME Init PROVE IInv
  OBVIOUS
<1> USE DEF Init
<1>1. TypeOK
  <2>1. action \in BOOLEAN /\ run \in BOOLEAN
    BY Zenon
  <2> QED
    BY <2>1, SchedulerAssumption DEF TypeOK
<1>2. PendingIds = {}
  BY DEF PendingIds
<1>3. IdsUnique /\ IdsGivenOut /\ StoppedLeft
  BY DEF IdsUnique, IdsGivenOut, StoppedLeft
<1>4. IdsArePending /\ RunsAtMostOnce /\ StoppedNeverRuns
  BY <1>2 DEF IdsArePending, RunsAtMostOnce, StoppedNeverRuns
<1> QED
  BY <1>1, <1>3, <1>4 DEF IInv

(* Types: every action of the Scheduler keeps every variable in its type. *)
LEMMA TypeStep == TypeOK /\ IdsGivenOut /\ [Next]_vars => TypeOK'
<1> SUFFICES ASSUME TypeOK, IdsGivenOut, [Next]_vars PROVE TypeOK'
  OBVIOUS
<1> USE SchedulerAssumption DEF TypeOK, clientVars, threadVars
<1>1. ASSUME NEW d \in Delays, AddEvent(d) PROVE TypeOK'
  BY <1>1 DEF AddEvent, DueTime, Ids, Task
<1>2. ASSUME NEW id \in Ids, StopEvent(id) PROVE TypeOK'
  BY <1>2 DEF StopEvent
<1>3. CASE Notify
  <2>1. action' \in BOOLEAN
    BY <1>3, Zenon DEF Notify
  <2>2. spc' \in {spc, "woken"} /\ eventSignals' \in Nat
    BY <1>3 DEF Notify
  <2> QED
    BY <1>3, <2>1, <2>2 DEF Notify
<1>4. CASE Stop
  BY <1>4 DEF Stop
<1>5. CASE Shutdown
  BY <1>5 DEF Shutdown
<1>6. CASE Tick
  BY <1>6 DEF Tick
<1>7. CASE Check
  BY <1>7 DEF Check
<1>8. CASE Wait
  BY <1>8 DEF Wait, Earliest, Task
<1>9. CASE Timeout
  BY <1>9 DEF Timeout
<1>10. CASE Take
  <2>1. run' \in BOOLEAN
    <3>1. run' = run \/ \E t \in eventList : run' = (t.id \in eventIds)
      BY <1>10, Zenon DEF Take, Earliest
    <3>2. ASSUME NEW t \in eventList, run' = (t.id \in eventIds)
          PROVE  run' \in BOOLEAN
      <4>1. CASE t.id \in eventIds
        BY <3>2, <4>1, Zenon
      <4>2. CASE t.id \notin eventIds
        BY <3>2, <4>2
      <4> QED
        BY <4>1, <4>2
    <3> QED
      BY <3>1, <3>2, Zenon
  <2>2. /\ spc' \in {"undefined", "unlocked"} /\ task' \in Task \cup {None}
        /\ eventList' \subseteq eventList /\ eventIds' \subseteq eventIds
    BY <1>10 DEF Take, Earliest
  <2> QED
    BY <1>10, <2>1, <2>2 DEF Take
<1>11. CASE Skip
  BY <1>11 DEF Skip
<1>12. CASE HandOver
  BY <1>12 DEF HandOver, IdsGivenOut, Task
<1>13. CASE UNCHANGED vars
  BY <1>13 DEF vars
<1> QED
  BY <1>1, <1>2, <1>3, <1>4, <1>5, <1>6, <1>7, <1>8, <1>9, <1>10, <1>11, <1>12,
     <1>13 DEF Next, Thread

(* The queue: ids stay unique and at or below m_lastEvent, and what is
   stopped, taken or given out stays apart from what is pending. *)
LEMMA QueueStep == IInv /\ [Next]_vars => (IInv)'
<1> SUFFICES ASSUME IInv, [Next]_vars PROVE IInv'
  OBVIOUS
<1> USE DEF IInv, IdsUnique, IdsGivenOut, StoppedLeft, IdsArePending,
            RunsAtMostOnce, StoppedNeverRuns, PendingIds, clientVars, threadVars
<1>0. TypeOK'
  BY TypeStep
<1>1. ASSUME NEW d \in Delays, AddEvent(d) PROVE IInv'
  <2> DEFINE t == [id |-> lastEvent + 1, due |-> DueTime(d)]
  <2>1. /\ eventList' = eventList \cup {t}
        /\ eventIds' = eventIds \cup {t.id}
        /\ lastEvent' = lastEvent + 1 /\ t.id = lastEvent + 1
        /\ UNCHANGED <<threadVars, handed, stopped>>
    BY <1>1 DEF AddEvent
  <2>2. /\ lastEvent \in Nat
        /\ \A u \in eventList : u.id \in Nat /\ u.id <= lastEvent
        /\ \A id \in handed \cup stopped \cup eventIds : id \in Nat /\ id <= lastEvent
    BY DEF TypeOK, Ids, Task
  <2>7. PendingIds' = PendingIds \cup {t.id}
    <3> HIDE DEF t
    <3> QED
      BY <2>1
  <2>3. IdsUnique'
    BY <2>1, <2>2
  <2>4. IdsGivenOut'
    BY <2>1, <2>2 DEF TypeOK, Task, Ids
  <2>5. (StoppedLeft /\ IdsArePending)'
    <3> HIDE DEF t, PendingIds
    <3> QED
      BY <2>1, <2>2, <2>7
  <2>6. (RunsAtMostOnce /\ StoppedNeverRuns)'
    BY <2>1, <2>2 DEF TypeOK, Task, Ids
  <2> HIDE DEF t
  <2> QED
    BY <1>0, <2>3, <2>4, <2>5, <2>6
<1>2. ASSUME NEW id \in Ids, StopEvent(id) PROVE IInv'
  BY <1>0, <1>2 DEF StopEvent
<1>3. CASE Notify
  BY <1>0, <1>3 DEF Notify
<1>4. CASE Stop
  BY <1>0, <1>4 DEF Stop
<1>5. CASE Shutdown
  BY <1>0, <1>5 DEF Shutdown
<1>6. CASE Tick
  BY <1>0, <1>6 DEF Tick
<1>7. CASE Check
  BY <1>0, <1>7 DEF Check
<1>8. CASE Wait
  BY <1>0, <1>8 DEF Wait
<1>9. CASE Timeout
  BY <1>0, <1>9 DEF Timeout
<1>10. CASE Take
  <2>1. CASE eventList = {}
    <3>1. spc' = "undefined" /\ UNCHANGED <<eventList, eventIds, lastEvent, handed, stopped>>
      BY <1>10, <2>1 DEF Take, Earliest
    <3> QED
      BY <1>0, <3>1
  <2>2. CASE eventList # {}
    <3>1. PICK t \in eventList :
            /\ task' = t /\ eventList' = eventList \ {t}
            /\ run' = (t.id \in eventIds)
            /\ eventIds' = eventIds \ {t.id} /\ spc' = "unlocked"
      BY <1>10, <2>2 DEF Take, Earliest
    <3>2. UNCHANGED <<lastEvent, handed, stopped>>
      BY <1>10 DEF Take
    <3>3. PendingIds' = PendingIds \ {t.id}
      BY <3>1
    <3>4. run' => t.id \notin stopped
      BY <3>1
    <3>5. (IdsUnique /\ IdsGivenOut /\ StoppedLeft)'
      BY <3>1, <3>2 DEF TypeOK
    <3>6. (IdsArePending /\ RunsAtMostOnce)'
      <4>1. t.id \in PendingIds
        OBVIOUS
      <4> HIDE DEF PendingIds
      <4> QED
        BY <3>1, <3>2, <3>3, <4>1
    <3> QED
      BY <1>0, <3>1, <3>2, <3>4, <3>5, <3>6
  <2> QED
    BY <2>1, <2>2
<1>11. CASE Skip
  BY <1>0, <1>11 DEF Skip
<1>12. CASE HandOver
  BY <1>0, <1>12 DEF HandOver
<1>13. CASE UNCHANGED vars
  BY <1>0, <1>13 DEF vars
<1> QED
  BY <1>1, <1>2, <1>3, <1>4, <1>5, <1>6, <1>7, <1>8, <1>9, <1>10, <1>11, <1>12,
     <1>13 DEF Next, Thread

(* The types of the Scheduler's state: the invariant the runs check first. *)
THEOREM TypeCorrect == Spec => []TypeOK
<1>1. IInv => TypeOK
  BY DEF IInv
<1> QED
  BY InitIInv, QueueStep, <1>1, PTL DEF Spec

(* scheduler.cpp, stopEvent and schedulerThread: an event whose stopEvent
   returned true never reaches the Dispatcher. *)
THEOREM StoppedNeverRunsHolds == Spec => []StoppedNeverRuns
<1>1. IInv => StoppedNeverRuns
  BY DEF IInv
<1> QED
  BY InitIInv, QueueStep, <1>1, PTL DEF Spec

(* An event is handed to the Dispatcher once at most. *)
THEOREM RunsAtMostOnceHolds == Spec => []RunsAtMostOnce
<1>1. IInv => RunsAtMostOnce
  BY DEF IInv
<1> QED
  BY InitIInv, QueueStep, <1>1, PTL DEF Spec

(* stopEvent answers true only for a task that is still queued. *)
THEOREM IdsArePendingHolds == Spec => []IdsArePending
<1>1. IInv => IdsArePending
  BY DEF IInv
<1> QED
  BY InitIInv, QueueStep, <1>1, PTL DEF Spec

-----------------------------------------------------------------------------
(* The wake-up: addEvent signals only a task that becomes the top of the
   queue, after releasing the lock, and that is enough. *)
LEMMA WakeupStep == TypeOK /\ NoLostWakeup /\ [Next]_vars => NoLostWakeup'
<1> SUFFICES ASSUME TypeOK, NoLostWakeup, [Next]_vars PROVE NoLostWakeup'
  OBVIOUS
<1> USE DEF NoLostWakeup, clientVars, threadVars
<1>1. ASSUME NEW d \in Delays, AddEvent(d) PROVE NoLostWakeup'
  <2> DEFINE t == [id |-> lastEvent + 1, due |-> DueTime(d)]
  <2>1. /\ eventList' = eventList \cup {t}
        /\ eventSignals' = eventSignals + IF BecomesTop(t) THEN 1 ELSE 0
        /\ UNCHANGED <<spc, wakeAt>>
    BY <1>1 DEF AddEvent
  <2>2. eventSignals \in Nat /\ wakeAt \in Int /\ t.due \in Int
    BY <1>1, SchedulerAssumption DEF TypeOK, AddEvent, DueTime
  <2>3. \A u \in eventList : u.due \in Int
    BY DEF TypeOK, Task
  <2> HIDE DEF t
  <2>4. CASE BecomesTop(t)
    BY <2>1, <2>2, <2>4
  <2>5. CASE ~BecomesTop(t)
    <3>1. PICK u \in eventList : ~(t.due < u.due)
      BY <2>5 DEF BecomesTop
    <3> QED
      BY <2>1, <2>2, <2>3, <2>5, <3>1
  <2> QED
    BY <2>4, <2>5
<1>2. ASSUME NEW id \in Ids, StopEvent(id) PROVE NoLostWakeup'
  BY <1>2 DEF StopEvent
<1>3. CASE Notify
  BY <1>3 DEF Notify
<1>4. CASE Stop
  BY <1>4 DEF Stop
<1>5. CASE Shutdown
  BY <1>5 DEF Shutdown
<1>6. CASE Tick
  BY <1>6 DEF Tick
<1>7. CASE Check
  BY <1>7 DEF Check
<1>8. CASE Wait
  BY <1>8 DEF Wait, Earliest
<1>9. CASE Timeout
  BY <1>9 DEF Timeout
<1>10. CASE Take
  <2>1. spc' \in {"undefined", "unlocked"}
    BY <1>10 DEF Take
  <2> QED
    BY <2>1
<1>11. CASE Skip
  BY <1>11 DEF Skip
<1>12. CASE HandOver
  BY <1>12 DEF HandOver
<1>13. CASE UNCHANGED vars
  BY <1>13 DEF vars
<1> QED
  BY <1>1, <1>2, <1>3, <1>4, <1>5, <1>6, <1>7, <1>8, <1>9, <1>10, <1>11, <1>12,
     <1>13 DEF Next, Thread

(* scheduler.cpp, addEvent: the thread never sleeps past the earliest task
   unless a caller is about to notify it. *)
THEOREM NoLostWakeupHolds == Spec => []NoLostWakeup
<1>1. Init => NoLostWakeup
  BY DEF Init, NoLostWakeup
<1>2. IInv => TypeOK
  BY DEF IInv
<1> QED
  BY InitIInv, QueueStep, WakeupStep, <1>1, <1>2, PTL DEF Spec

-----------------------------------------------------------------------------
(* The refinement of TimerService: what each action does to the fate of the
   events.  Only addEvent, stopEvent, shutdown and the taking of a live task
   change one; the hand-over finds the event fired already. *)
Fates == [id \in Ids |-> Fate(id)]

LEMMA FateStep == IInv /\ [Next]_vars => [Timer!Next]_Fates
<1> SUFFICES ASSUME IInv, [Next]_vars PROVE Timer!Next \/ UNCHANGED Fates
  OBVIOUS
<1> USE DEF clientVars, threadVars
<1>1. ASSUME NEW d \in Delays, AddEvent(d) PROVE Timer!Next
  <2>0. lastEvent + 1 \in Ids /\ lastEvent \in Nat
    BY <1>1, SchedulerAssumption DEF AddEvent, IInv, TypeOK, Ids
  <2>1. PICK e \in Ids : e = lastEvent + 1
    BY <2>0
  <2>2. e \notin handed \cup stopped \cup eventIds /\ (spc = "unlocked" => task.id # e)
    BY <2>0, <2>1 DEF IInv, IdsGivenOut, IdsArePending, PendingIds, TypeOK, Task, Ids
  <2>3. /\ eventIds' = eventIds \cup {e} /\ lastEvent' = e
        /\ UNCHANGED <<threadVars, handed, stopped>>
    BY <1>1, <2>1 DEF AddEvent
  <2>4. Fate(e) = "idle" /\ Fate(e)' = "pending"
    BY <2>0, <2>1, <2>2, <2>3 DEF Fate
  <2>5. ASSUME NEW id \in Ids, id # e PROVE Fate(id)' = Fate(id)
    BY <2>0, <2>1, <2>3, <2>5 DEF Fate, Ids
  <2>6. Timer!Request(e)
    BY <2>1, <2>4, <2>5 DEF Timer!Request
  <2> QED
    BY <2>1, <2>6 DEF Timer!Next
<1>2. ASSUME NEW e \in Ids, StopEvent(e) PROVE Timer!Next
  <2>1. e \notin handed \cup stopped /\ (spc = "unlocked" => task.id # e)
    BY <1>2 DEF StopEvent, IInv, StoppedLeft, IdsArePending, RunsAtMostOnce
  <2>2. Fate(e) = "pending" /\ Fate(e)' = "cancelled"
    BY <1>2, <2>1 DEF Fate, StopEvent
  <2>3. ASSUME NEW id \in Ids, id # e PROVE Fate(id)' = Fate(id)
    BY <1>2, <2>3 DEF Fate, StopEvent
  <2>4. Timer!Cancel(e)
    BY <2>2, <2>3 DEF Timer!Cancel
  <2> QED
    BY <2>4 DEF Timer!Next
<1>3. CASE Shutdown
  <2>1. \A id \in eventIds : id <= lastEvent
    BY DEF IInv, IdsArePending, IdsGivenOut, PendingIds
  <2>2. ASSUME NEW id \in Ids
        PROVE  Fate(id)' = IF Fate(id) = "pending" THEN "dropped" ELSE Fate(id)
    BY <1>3, <2>1 DEF Fate, Shutdown
  <2> QED
    BY <2>2 DEF Timer!Next, Timer!End
<1>4. CASE Take
  <2>1. spc # "unlocked" /\ UNCHANGED <<lastEvent, handed, stopped>>
    BY <1>4 DEF Take
  <2>2. CASE eventList = {}
    <3>1. spc' = "undefined" /\ UNCHANGED eventIds
      BY <1>4, <2>2 DEF Take, Earliest
    <3> QED
      BY <2>1, <3>1 DEF Fate, Fates
  <2>3. CASE eventList # {}
    <3>1. PICK t \in eventList :
            /\ task' = t /\ run' = (t.id \in eventIds)
            /\ eventIds' = eventIds \ {t.id} /\ spc' = "unlocked"
      BY <1>4, <2>3 DEF Take, Earliest
    <3>2. t.id \in Ids /\ t.id \notin handed
      BY DEF IInv, RunsAtMostOnce, PendingIds, TypeOK, Task
    <3>3. ASSUME NEW id \in Ids, id # t.id PROVE Fate(id)' = Fate(id)
      BY <2>1, <3>1, <3>3 DEF Fate
    <3>4. CASE t.id \in eventIds
      <4>1. Fate(t.id) = "pending" /\ Fate(t.id)' = "fired"
        BY <2>1, <3>1, <3>2, <3>4 DEF Fate, IInv, StoppedLeft
      <4>2. Timer!Fire(t.id)
        BY <3>2, <3>3, <4>1 DEF Timer!Fire
      <4> QED
        BY <3>2, <4>2 DEF Timer!Next
    <3>5. CASE t.id \notin eventIds
      <4>1. Fate(t.id)' = Fate(t.id)
        BY <2>1, <3>1, <3>2, <3>5 DEF Fate
      <4> QED
        BY <3>3, <4>1 DEF Fates
    <3> QED
      BY <3>4, <3>5
  <2> QED
    BY <2>2, <2>3
<1>5. CASE HandOver
  BY <1>5 DEF HandOver, Fate, Fates
<1>6. CASE Check
  BY <1>6 DEF Check, Fate, Fates
<1>7. CASE Notify
  BY <1>7 DEF Notify, Fate, Fates
<1>8. CASE Wait \/ Timeout \/ Skip
  BY <1>8 DEF Wait, Timeout, Skip, Fate, Fates
<1>9. CASE Stop \/ Tick
  BY <1>9 DEF Stop, Tick, Fate, Fates
<1>10. CASE UNCHANGED vars
  BY <1>10 DEF vars, Fate, Fates
<1> QED
  BY <1>1, <1>2, <1>3, <1>4, <1>5, <1>6, <1>7, <1>8, <1>9, <1>10 DEF Next, Thread

(* scheduler.cpp as its callers see it: every behaviour of the Scheduler is
   one of TimerService, in which an event that was requested is cancelled or
   fires, never both and never twice. *)
THEOREM ImplementsTimerServiceHolds == Spec => ImplementsTimerService
<1>1. Init => Timer!Init
  BY DEF Init, Timer!Init, Fate, Ids
<1> QED
  BY InitIInv, QueueStep, FateStep, <1>1, PTL
  DEF Spec, ImplementsTimerService, Timer!Spec, Fates
=============================================================================
