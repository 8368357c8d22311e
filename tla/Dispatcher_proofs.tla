-------------------------- MODULE Dispatcher_proofs --------------------------
(***************************************************************************)
(* Proofs about Dispatcher for every number of tasks, every clock, every   *)
(* set of expirations and whatever the tasks do.                           *)
(*                                                                         *)
(* The order in which tasks run is fixed long before they do, so what is   *)
(* inductive relates the history, the thread's hand and the list: IInv     *)
(* says of each two of them that ids differ and that ids of back tasks     *)
(* grow, and that no id is above the last one given out.                   *)
(***************************************************************************)
EXTENDS Dispatcher, TLAPS

(* Tasks the thread has begun, and the one it has taken and may delete. *)
Held == dpc = "taken"

GivenOut ==
  /\ \A i \in DOMAIN done : done[i].id <= lastTask
  /\ \A i \in DOMAIN taskList : taskList[i].id <= lastTask
  /\ Held => cur \in Tasks /\ cur.id <= lastTask

(* a may run before b: they are two tasks, and between packets it is the
   earlier that goes first. *)
Precedes(a, b) == a.id # b.id /\ (~a.front /\ ~b.front => a.id < b.id)

BegunOrdered  == \A i, j \in DOMAIN done : i < j => Precedes(done[i], done[j])
QueuedOrdered == \A i, j \in DOMAIN taskList : i < j => Precedes(taskList[i], taskList[j])
BegunFirst    == \A i \in DOMAIN done, j \in DOMAIN taskList : Precedes(done[i], taskList[j])
HeldBetween ==
  Held => /\ \A i \in DOMAIN done : Precedes(done[i], cur)
          /\ \A j \in DOMAIN taskList : Precedes(cur, taskList[j])
FrontsOnTop ==
  \A i, j \in DOMAIN taskList :
    i < j /\ taskList[j].front
      => taskList[i].front /\ taskList[i].id > taskList[j].id

IInv ==
  /\ TypeOK /\ GivenOut
  /\ BegunOrdered /\ QueuedOrdered /\ BegunFirst /\ HeldBetween /\ FrontsOnTop

-----------------------------------------------------------------------------
(* The Dispatcher starts with no task, so everything holds at first. *)
LEMMA InitIInv == Init => IInv
<1> SUFFICES ASSUME Init PROVE IInv
  OBVIOUS
<1> USE DEF Init
<1>1. TypeOK
  <2>1. taskLock \in BOOLEAN
    BY Zenon
  <2> QED
    BY <2>1, DispatcherAssumption DEF TypeOK
<1>2. GivenOut /\ BegunOrdered /\ QueuedOrdered /\ BegunFirst /\ HeldBetween /\ FrontsOnTop
  BY DEF GivenOut, BegunOrdered, QueuedOrdered, BegunFirst, HeldBetween, FrontsOnTop, Held
<1> QED
  BY <1>1, <1>2 DEF IInv

(* What addTask puts in the list is a task with the next id. *)
LEMMA NewTaskType ==
  ASSUME TypeOK, lastTask < MaxTasks,
         NEW front \in BOOLEAN, NEW b \in Bodies, NEW e \in Expirations \cup {Never}
  PROVE  /\ NewTask(front, b, e) \in Tasks
         /\ NewTask(front, b, e).id = lastTask + 1
         /\ NewTask(front, b, e).front = front
<1>1. lastTask + 1 \in TaskIds
  BY DispatcherAssumption DEF TypeOK, TaskIds
<1>2. now \in Nat
  BY DispatcherAssumption DEF TypeOK
<1>3. (IF e = Never THEN Never ELSE now + e) \in Nat \cup {Never}
  BY <1>2, DispatcherAssumption
<1> QED
  BY <1>1, <1>3 DEF NewTask, Tasks

(* The two ways to take the first task off a list keep the others' order. *)
LEMMA TailElements ==
  ASSUME NEW S, NEW s \in Seq(S), s # <<>>
  PROVE  /\ Head(s) = s[1] /\ 1 \in DOMAIN s /\ Head(s) \in S
         /\ Tail(s) \in Seq(S)
         /\ \A i \in DOMAIN Tail(s) : i \in Nat \ {0} /\ i + 1 \in DOMAIN s /\ Tail(s)[i] = s[i + 1]
  OBVIOUS

LEMMA AppendElements ==
  ASSUME NEW S, NEW s \in Seq(S), NEW x \in S
  PROVE  /\ Append(s, x) \in Seq(S)
         /\ DOMAIN Append(s, x) = DOMAIN s \cup {Len(s) + 1}
         /\ Append(s, x)[Len(s) + 1] = x
         /\ \A i \in DOMAIN s : i \in Nat /\ i <= Len(s) /\ Append(s, x)[i] = s[i]
  OBVIOUS

LEMMA PushElements ==
  ASSUME NEW S, NEW s \in Seq(S), NEW x \in S
  PROVE  /\ <<x>> \o s \in Seq(S)
         /\ (<<x>> \o s)[1] = x
         /\ \A i \in DOMAIN (<<x>> \o s) :
              i = 1 \/ (i \in Nat /\ i > 1 /\ i - 1 \in DOMAIN s /\ (<<x>> \o s)[i] = s[i - 1])
  OBVIOUS

(* Types: every action keeps every variable in its type. *)
LEMMA TypeStep == TypeOK /\ GivenOut /\ [Next]_vars => TypeOK'
<1> SUFFICES ASSUME TypeOK, GivenOut, [Next]_vars PROVE TypeOK'
  OBVIOUS
<1>0. UNCHANGED taskLock => taskLock' \in BOOLEAN
  BY Zenon DEF TypeOK
<1> USE DispatcherAssumption DEF TypeOK, callVars, threadVars
<1>1. ASSUME NEW front \in BOOLEAN, NEW b \in Bodies,
             NEW e \in Expirations \cup {Never}, AddTask(front, b, e)
      PROVE  TypeOK'
  <2> DEFINE t == NewTask(front, b, e)
  <2>1. t \in Tasks
    BY <1>1, NewTaskType DEF AddTask
  <2> HIDE DEF t
  <2>2. taskList' \in Seq(Tasks)
    BY <1>1, <2>1, AppendElements, PushElements DEF AddTask, t
  <2> QED
    BY <1>1, <1>0, <2>2 DEF AddTask
<1>2. CASE Notify
  BY <1>2, <1>0 DEF Notify
<1>3. CASE Stop \/ Tick
  BY <1>3, <1>0 DEF Stop, Tick
<1>4. CASE Check \/ Wait \/ Skip \/ Expire \/ Finish
  BY <1>4, <1>0 DEF Check, Wait, Skip, Expire, Finish
<1>5. CASE Take
  BY <1>5, <1>0, TailElements DEF Take
<1>6. CASE Begin
  BY <1>6, <1>0, AppendElements DEF Begin, GivenOut, Held
<1>7. CASE FlushRun
  BY <1>7, <1>0, TailElements, AppendElements DEF FlushRun
<1>8. CASE FlushNext \/ FlushRelock
  BY <1>8, <1>0 DEF FlushNext, FlushRelock
<1>9. CASE FlushEnd \/ Shutdown
  <2>1. taskLock' \in BOOLEAN
    BY <1>9, Zenon DEF FlushEnd, Shutdown
  <2> QED
    BY <1>9, <2>1 DEF FlushEnd, Shutdown
<1>10. CASE UNCHANGED vars
  BY <1>10, <1>0 DEF vars
<1> QED
  BY <1>1, <1>2, <1>3, <1>4, <1>5, <1>6, <1>7, <1>8, <1>9, <1>10 DEF Next, Step

(* Order: what every step does to the tasks begun, held and queued. *)
LEMMA OrderStep == IInv /\ [Next]_vars => IInv'
<1> SUFFICES ASSUME IInv, [Next]_vars PROVE IInv'
  OBVIOUS
<1>0. TypeOK' /\ TypeOK
  BY TypeStep DEF IInv
<1> USE DEF IInv, GivenOut, BegunOrdered, QueuedOrdered, BegunFirst, HeldBetween,
            FrontsOnTop, Held, callVars, threadVars
<1>1. ASSUME NEW front \in BOOLEAN, NEW b \in Bodies,
             NEW e \in Expirations \cup {Never}, AddTask(front, b, e)
      PROVE  IInv'
  <2> DEFINE t == NewTask(front, b, e)
  <2>1. t \in Tasks /\ t.id = lastTask + 1 /\ t.front = front
    BY <1>0, <1>1, NewTaskType DEF AddTask
  <2> HIDE DEF t
  <2>2. /\ lastTask' = lastTask + 1 /\ UNCHANGED <<dpc, cur, done>>
        /\ taskList' = IF front THEN <<t>> \o taskList ELSE Append(taskList, t)
    BY <1>1 DEF AddTask, t
  <2>3. /\ lastTask \in Nat /\ taskList \in Seq(Tasks)
        /\ \A i \in DOMAIN done : done[i].id \in Nat
        /\ \A i \in DOMAIN taskList : taskList[i].id \in Nat
        /\ Held => cur.id \in Nat
    <3>1. \A u \in Tasks : u.id \in Nat
      BY DispatcherAssumption DEF Tasks, TaskIds
    <3>2. /\ \A i \in DOMAIN done : done[i] \in Tasks
          /\ \A i \in DOMAIN taskList : taskList[i] \in Tasks
      BY <1>0 DEF TypeOK
    <3> QED
      BY <1>0, <3>1, <3>2, DispatcherAssumption DEF TypeOK
  <2>4. CASE front
    <3>1. /\ taskList'[1] = t
          /\ \A i \in DOMAIN taskList' :
               i = 1 \/ (i \in Nat /\ i > 1 /\ i - 1 \in DOMAIN taskList
                         /\ taskList'[i] = taskList[i - 1])
      BY <2>1, <2>2, <2>3, <2>4, PushElements
    <3>2. GivenOut'
      BY <2>1, <2>2, <2>3, <3>1
    <3>3. (BegunOrdered /\ BegunFirst /\ HeldBetween)'
      BY <2>1, <2>2, <2>3, <2>4, <3>1 DEF Precedes
    <3>0. ASSUME NEW i \in DOMAIN taskList', NEW j \in DOMAIN taskList', i < j
          PROVE  /\ Precedes(taskList'[i], taskList'[j])
                 /\ taskList'[j].front
                      => taskList'[i].front /\ taskList'[i].id > taskList'[j].id
      <4>1. /\ j \in Nat /\ j > 1 /\ j - 1 \in DOMAIN taskList
            /\ taskList'[j] = taskList[j - 1]
        BY <2>1, <2>2, <2>3, <2>4, <3>0, <3>1
      <4>2. CASE i = 1
        <5>1. t.front
          BY <2>1, <2>4, Zenon
        <5>2. taskList'[i] = t /\ t.id = lastTask + 1
          BY <2>1, <3>1, <4>2
        <5>3. taskList[j - 1].id \in Nat /\ taskList[j - 1].id <= lastTask
          BY <2>3, <4>1
        <5> QED
          BY <2>3, <4>1, <5>1, <5>2, <5>3 DEF Precedes
      <4>3. CASE i # 1
        <5>1. /\ i - 1 \in DOMAIN taskList /\ i - 1 < j - 1
              /\ taskList'[i] = taskList[i - 1]
          BY <3>0, <3>1, <4>1, <4>3
        <5> QED
          BY <4>1, <5>1 DEF Precedes
      <4> QED
        BY <4>2, <4>3
    <3>4. QueuedOrdered'
      BY <3>0
    <3>5. FrontsOnTop'
      BY <3>0
    <3> QED
      BY <1>0, <3>2, <3>3, <3>4, <3>5
  <2>5. CASE ~front
    <3>1. /\ DOMAIN taskList' = DOMAIN taskList \cup {Len(taskList) + 1}
          /\ taskList'[Len(taskList) + 1] = t
          /\ \A i \in DOMAIN taskList :
               i \in Nat /\ i <= Len(taskList) /\ taskList'[i] = taskList[i]
      BY <2>1, <2>2, <2>3, <2>5, AppendElements
    <3>2. GivenOut'
      BY <2>1, <2>2, <2>3, <3>1
    <3>3. (BegunOrdered /\ BegunFirst /\ HeldBetween)'
      BY <2>1, <2>2, <2>3, <2>5, <3>1 DEF Precedes
    <3>4. QueuedOrdered'
      BY <2>1, <2>2, <2>3, <2>5, <3>1 DEF Precedes
    <3>5. FrontsOnTop'
      BY <2>1, <2>2, <2>3, <2>5, <3>1
    <3> QED
      BY <1>0, <3>2, <3>3, <3>4, <3>5
  <2> QED
    BY <2>4, <2>5
<1>2. CASE Take
  BY <1>0, <1>2, TailElements DEF Take, TypeOK
<1>3. CASE Begin
  BY <1>0, <1>3, AppendElements DEF Begin, TypeOK
<1>4. CASE FlushRun
  <2>1. /\ taskList \in Seq(Tasks) /\ taskList # <<>> /\ done \in Seq(Tasks)
        /\ taskList' = Tail(taskList) /\ done' = Append(done, Head(taskList))
        /\ ~Held /\ ~Held' /\ lastTask' = lastTask
    BY <1>0, <1>4 DEF FlushRun, TypeOK
  <2>2. /\ Head(taskList) = taskList[1] /\ 1 \in DOMAIN taskList
        /\ \A i \in DOMAIN taskList' :
             i \in Nat \ {0} /\ i + 1 \in DOMAIN taskList /\ taskList'[i] = taskList[i + 1]
    BY <2>1, TailElements
  <2>3. /\ DOMAIN done' = DOMAIN done \cup {Len(done) + 1}
        /\ done'[Len(done) + 1] = taskList[1]
        /\ \A i \in DOMAIN done : i \in Nat /\ i <= Len(done) /\ done'[i] = done[i]
    BY <2>1, <2>2, AppendElements
  <2>4. GivenOut'
    BY <2>1, <2>2, <2>3
  <2>5. BegunOrdered'
    BY <2>1, <2>2, <2>3
  <2>6. QueuedOrdered' /\ FrontsOnTop'
    <3>1. ASSUME NEW i \in DOMAIN taskList', NEW j \in DOMAIN taskList', i < j
          PROVE  /\ i + 1 \in DOMAIN taskList /\ j + 1 \in DOMAIN taskList
                 /\ i + 1 < j + 1
                 /\ taskList'[i] = taskList[i + 1] /\ taskList'[j] = taskList[j + 1]
      BY <2>2, <3>1
    <3>2. QueuedOrdered'
      BY <3>1
    <3>3. FrontsOnTop'
      BY <3>1
    <3> QED
      BY <3>2, <3>3
  <2>7. BegunFirst'
    BY <2>1, <2>2, <2>3
  <2> QED
    BY <1>0, <2>1, <2>4, <2>5, <2>6, <2>7
<1>5. CASE Check \/ Wait \/ Skip \/ Expire \/ Finish \/ Notify
  BY <1>0, <1>5 DEF Check, Wait, Skip, Expire, Finish, Notify
<1>6. CASE FlushNext \/ FlushRelock \/ FlushEnd \/ Shutdown \/ Stop \/ Tick
  BY <1>0, <1>6 DEF FlushNext, FlushRelock, FlushEnd, Shutdown, Stop, Tick
<1>7. CASE UNCHANGED vars
  BY <1>0, <1>7 DEF vars
<1> QED
  BY <1>1, <1>2, <1>3, <1>4, <1>5, <1>6, <1>7 DEF Next, Step

-----------------------------------------------------------------------------
(* Every variable of the Dispatcher keeps its type. *)
THEOREM TypeCorrect == Spec => []TypeOK
<1>1. IInv => TypeOK
  BY DEF IInv
<1> QED
  BY InitIInv, OrderStep, <1>1, PTL DEF Spec

(* Packets run in the order in which they were queued, through the loop and
   the flush, and the Scheduler's tasks go before them. *)
THEOREM TasksInOrderHolds == Spec => []TasksInOrder
<1>1. IInv => TasksInOrder
  BY DEF IInv, BegunOrdered, FrontsOnTop, TasksInOrder, Precedes
<1> QED
  BY InitIInv, OrderStep, <1>1, PTL DEF Spec

(* A task that addTask accepted is begun once at most, whether by the loop or
   by the flush. *)
THEOREM RunsAtMostOnceHolds == Spec => []RunsAtMostOnce
<1>1. IInv => RunsAtMostOnce
  <2> SUFFICES ASSUME IInv PROVE RunsAtMostOnce
    OBVIOUS
  <2> DEFINE all == done \o taskList
  <2>1. done \in Seq(Tasks) /\ taskList \in Seq(Tasks)
    BY DEF IInv, TypeOK
  <2>2. \A i \in DOMAIN all :
          \/ i \in DOMAIN done /\ all[i] = done[i]
          \/ /\ i \notin DOMAIN done /\ i \in Nat
             /\ i - Len(done) \in DOMAIN taskList /\ all[i] = taskList[i - Len(done)]
    BY <2>1
  <2>3. \A i, j \in DOMAIN all : i < j => all[i].id # all[j].id
    <3> HIDE DEF all
    <3> SUFFICES ASSUME NEW i \in DOMAIN all, NEW j \in DOMAIN all, i < j
                 PROVE  all[i].id # all[j].id
      OBVIOUS
    <3>1. CASE j \in DOMAIN done
      BY <2>1, <2>2, <3>1 DEF IInv, BegunOrdered, Precedes
    <3>2. CASE i \in DOMAIN done /\ j \notin DOMAIN done
      BY <2>2, <3>2 DEF IInv, BegunFirst, Precedes
    <3>3. CASE i \notin DOMAIN done /\ j \notin DOMAIN done
      BY <2>1, <2>2, <3>3 DEF IInv, QueuedOrdered, Precedes
    <3> QED
      BY <3>1, <3>2, <3>3
  <2>4. \A i, j \in DOMAIN all : all[i].id = all[j].id => i = j
    <3>1. DOMAIN all \subseteq Nat
      BY <2>1
    <3> HIDE DEF all
    <3> QED
      BY <2>3, <3>1
  <2>5. ASSUME dpc = "taken", NEW i \in DOMAIN all PROVE all[i].id # cur.id
    <3> HIDE DEF all
    <3> QED
      BY <2>2, <2>5 DEF IInv, HeldBetween, Held, Precedes
  <2> QED
    BY <2>4, <2>5 DEF RunsAtMostOnce
<1> QED
  BY InitIInv, OrderStep, <1>1, PTL DEF Spec
=============================================================================
