------------------------ MODULE ServerShutdown_proofs ------------------------
(***************************************************************************)
(* What the composition of ServerShutdown keeps of its parts, and that a   *)
(* server that was told to save has saved before it stops.                 *)
(*                                                                         *)
(* Every step of the server is, seen from the Scheduler, a step of         *)
(* Scheduler.tla or none, and likewise for the Dispatcher: what            *)
(* Scheduler_proofs and Dispatcher_proofs show holds inside the server.    *)
(*                                                                         *)
(* For QuitSavesFirst the invariant follows the task "shutdown" that saves *)
(* nothing itself: with no SIGTERM it is posted only behind the save, so   *)
(* that a server in which one is queued or runs has saved.                 *)
(***************************************************************************)
EXTENDS ServerShutdown, TLAPS

-----------------------------------------------------------------------------
(* The parts inside the server *)

(* Whoever posts, the Dispatcher sees addTask or nothing. *)
LEMMA PostIsAddTask ==
  ASSUME NEW front \in BOOLEAN, NEW b \in Bodies, NEW e \in Expirations \cup {Never},
         Post(front, b, e)
  PROVE  [D!Next]_D!vars
BY DEF Post, D!Next, D!vars, dispVars

(* Whoever arms an event, the Scheduler sees addEvent or nothing. *)
LEMMA ArmIsAddEvent ==
  ASSUME NEW d \in Delays, Arm(d)
  PROVE  [S!Next]_S!vars
BY DEF Arm, S!Next, S!vars, schedVars

LEMMA BodiesAre ==
  {"otserv", "event", "packet", "release", "saveShutdown", "shutdown"} = Bodies
BY DEF Bodies

LEMMA DispatcherSteps == [Next]_vars => [D!Next]_D!vars
<1> SUFFICES ASSUME [Next]_vars PROVE [D!Next]_D!vars
  OBVIOUS
<1> USE BodiesAre, PostIsAddTask
<1>1. CASE MainStep
  <2>1. CASE MainStart
    BY <2>1 DEF MainStart
  <2> QED
    BY <1>1, <2>1 DEF MainStep, Main, MainWait, MainTest, MainRun, MainServed, Die,
       MainJoinDispatcher, MainJoinScheduler, D!vars, dispVars
<1>2. CASE SchedulerStep
  BY <1>2 DEF SchedulerStep, S!Check, S!Wait, S!Timeout, S!Take, S!Skip, S!Notify,
     D!vars, dispVars
<1>3. CASE HandOver
  <2>1. CASE run
    BY <1>3, <2>1 DEF HandOver
  <2>2. CASE ~run
    BY <1>3, <2>2 DEF HandOver, S!HandOver, D!vars, dispVars
  <2> QED BY <2>1, <2>2
<1>4. CASE DispatcherStep
  BY <1>4 DEF DispatcherStep, D!Next, D!Step
<1>5. CASE Body
  <2>1. CASE D!Finish
    BY <2>1 DEF D!Next
  <2>2. CASE StatePost
    BY <2>2 DEF StatePost
  <2>3. CASE StateStopDispatcher \/ ShutdownDispatcher
    BY <2>3 DEF StateStopDispatcher, ShutdownDispatcher, D!Next
  <2>4. CASE LoaderBind \/ LoaderArm \/ StateShutdown \/ StateStopScheduler
             \/ ShutdownScheduler
    <3>1. \A d \in Delays : Arm(d) => now' = now
      BY DEF Arm, S!AddEvent
    <3> QED
      BY <2>4, <3>1 DEF LoaderBind, LoaderArm, StateShutdown, StateStopScheduler,
         ShutdownScheduler, S!Stop, S!Shutdown, D!vars, dispVars
  <2> QED
    BY <1>5, <2>1, <2>2, <2>3, <2>4 DEF Body, LoaderNotify, EventBody, PacketEnd,
       StateEnd, ShutdownServices, Finish
<1>6. CASE PacketBody
  BY <1>6 DEF PacketBody
<1>7. CASE FlushReturns \/ FlushBlocks
  BY <1>7 DEF FlushReturns, FlushBlocks, D!Next, D!Step
<1>8. CASE SigQuit \/ SigTerm
  BY <1>8 DEF SigQuit, SigTerm
<1>9. CASE SigStopDispatcher \/ SigStopScheduler
  BY <1>9 DEF SigStopDispatcher, SigStopScheduler, D!Next, S!Stop, D!vars, dispVars
<1>10. CASE \E e \in Expirations : Packet(e)
  BY <1>10 DEF Packet
<1>11. CASE Tick
  BY <1>11 DEF Tick, S!Tick, D!Next, D!Tick, dispVars, D!callVars, D!threadVars
<1>12. CASE \E s \in Signals : SigRelocks(s)
  BY <1>12 DEF SigRelocks, dispVars, D!vars
<1>13. CASE UNCHANGED vars
  BY <1>13 DEF vars, dispVars, D!vars
<1> QED
  BY <1>1, <1>2, <1>3, <1>4, <1>5, <1>6, <1>7, <1>8, <1>9, <1>10, <1>11, <1>12, <1>13 DEF Next

LEMMA SchedulerSteps == [Next]_vars => [S!Next]_S!vars
<1> SUFFICES ASSUME [Next]_vars PROVE [S!Next]_S!vars
  OBVIOUS
<1> USE ArmIsAddEvent
<1>0. \A front \in BOOLEAN, b \in Bodies, e \in Expirations \cup {Never} :
         Post(front, b, e) => now' = now
  BY DEF Post, D!AddTask
<1> USE BodiesAre, <1>0
<1>1. CASE MainStep
  <2>1. CASE MainStart
    BY <2>1 DEF MainStart, S!vars, schedVars
  <2> QED
    BY <1>1, <2>1 DEF MainStep, Main, MainWait, MainTest, MainRun, MainServed, Die,
       MainJoinDispatcher, MainJoinScheduler, S!vars, schedVars
<1>2. CASE SchedulerStep
  BY <1>2 DEF SchedulerStep, S!Next, S!Thread
<1>3. CASE HandOver
  BY <1>3 DEF HandOver, S!Next, S!Thread
<1>4. CASE DispatcherStep
  BY <1>4 DEF DispatcherStep, D!Check, D!Wait, D!Take, D!Skip, D!Expire, D!Begin,
     D!FlushRun, D!FlushEnd, D!Notify, S!vars, schedVars
<1>5. CASE Body
  <2>1. CASE LoaderArm \/ EventBody
    BY <2>1 DEF LoaderArm, EventBody
  <2>2. CASE StateStopScheduler \/ ShutdownScheduler
    BY <2>2 DEF StateStopScheduler, ShutdownScheduler, S!Next
  <2>3. CASE ~(LoaderArm \/ EventBody \/ StateStopScheduler \/ ShutdownScheduler)
    BY <1>5, <2>3 DEF Body, LoaderBind, LoaderNotify, PacketEnd, StateShutdown, StatePost,
       StateStopDispatcher, StateEnd, ShutdownDispatcher, ShutdownServices, Finish,
       D!Finish, D!Stop, D!Shutdown, S!vars, schedVars
  <2> QED BY <2>1, <2>2, <2>3
<1>6. CASE PacketBody
  BY <1>6 DEF PacketBody, S!vars, schedVars
<1>7. CASE FlushReturns \/ FlushBlocks
  BY <1>7 DEF FlushReturns, FlushBlocks, D!FlushNext, D!FlushRelock, S!vars, schedVars
<1>8. CASE SigQuit \/ SigTerm
  BY <1>8 DEF SigQuit, SigTerm, S!vars, schedVars
<1>9. CASE SigStopDispatcher \/ SigStopScheduler
  BY <1>9 DEF SigStopDispatcher, SigStopScheduler, S!Next, D!Stop, S!vars, schedVars
<1>10. CASE \E e \in Expirations : Packet(e)
  BY <1>10 DEF Packet, S!vars, schedVars
<1>11. CASE Tick
  BY <1>11 DEF Tick, S!Next
<1>12. CASE \E s \in Signals : SigRelocks(s)
  BY <1>12 DEF SigRelocks, schedVars, S!vars
<1>13. CASE UNCHANGED vars
  BY <1>13 DEF vars, schedVars, S!vars
<1> QED
  BY <1>1, <1>2, <1>3, <1>4, <1>5, <1>6, <1>7, <1>8, <1>9, <1>10, <1>11, <1>12, <1>13 DEF Next

(* Inside the server the Dispatcher behaves as Dispatcher.tla says: whoever
   calls it, from whichever thread, the order and the single run of its tasks
   that Dispatcher_proofs shows are those of the server. *)
THEOREM DispatcherInside == Spec => D!Spec
<1>1. Init => D!Init
  BY DEF Init
<1> QED
  BY <1>1, DispatcherSteps, PTL DEF Spec, D!Spec

(* And the Scheduler as Scheduler.tla says: no event fires twice or after it
   was stopped, and no wake-up is lost, also while the server goes down. *)
THEOREM SchedulerInside == Spec => S!Spec
<1>1. Init => S!Init
  BY DEF Init
<1> QED
  BY <1>1, SchedulerSteps, PTL DEF Spec, S!Spec

-----------------------------------------------------------------------------
(* The save comes first *)

Job == [id : Nat, front : BOOLEAN, body : Bodies, expiration : Nat \cup {Never}]

(* What is queued is a task, and what was sent is a signal. *)
QueueTypes ==
  /\ now \in Nat /\ lastTask \in Nat
  /\ taskList \in Seq(Job)
  /\ sent \in Seq({"SIGTERM", "SIGQUIT"})

(* Once the Dispatcher is terminated its list is empty, but for what the flush
   still has to run: nobody can add to it, and the flush holds m_taskLock. *)
Emptied ==
  /\ dpc \in {"flush", "flushing", "deadlocked"} \/ (dispState = "TERMINATED" => taskList = <<>>)
  /\ dpc = "exited" => taskList = <<>> /\ dispState # "RUNNING"

(* With no SIGTERM the shutdown is behind the save: where it waits or runs,
   where it is about to be posted, and where it has been. *)
SavedFirst ==
  "SIGTERM" \notin ToSet(sent) =>
    /\ sig = "idle"
    /\ at = "saved" => saved
    /\ \A i \in DOMAIN taskList : taskList[i].body = "shutdown" => saved
    /\ dpc \in {"taken", "running", "flush", "flushing"} /\ cur.body = "shutdown" => saved
    /\ schedState = "TERMINATED" => saved

QuitIInv == QueueTypes /\ Emptied /\ SavedFirst

LEMMA InitQuitIInv == Init => QuitIInv
<1> SUFFICES ASSUME Init PROVE QuitIInv
  OBVIOUS
<1>1. taskList = <<>> /\ sent = <<>> /\ dpc = "check" /\ dispState = "RUNNING"
      /\ schedState = "RUNNING" /\ at = "start" /\ sig = "idle" /\ now = 0 /\ lastTask = 0
  BY DEF Init, D!Init, S!Init
<1> QED
  BY <1>1 DEF QuitIInv, QueueTypes, Emptied, SavedFirst

(* A task put on either end of the list is in it, and so is the rest. *)
LEMMA PutOnList ==
  ASSUME NEW list \in Seq(Job), NEW t \in Job, NEW front \in BOOLEAN,
         NEW longer, longer = IF front THEN <<t>> \o list ELSE Append(list, t)
  PROVE  /\ longer \in Seq(Job)
         /\ \A i \in DOMAIN longer : longer[i] = t \/ \E j \in DOMAIN list : longer[i] = list[j]
<1>1. CASE front
  BY <1>1
<1>2. CASE ~front
  BY <1>2
<1> QED BY <1>1, <1>2

(* Whoever posts: the list stays one of tasks, an emptied list stays empty,
   and only who posts a shutdown brings one into the list. *)
LEMMA PostKeeps ==
  ASSUME QuitIInv,
         NEW front \in BOOLEAN, NEW b \in Bodies, NEW e \in Expirations \cup {Never},
         Post(front, b, e)
  PROVE  /\ now' = now /\ dpc' = dpc /\ cur' = cur /\ dispState' = dispState
         /\ lastTask' \in Nat /\ taskList' \in Seq(Job)
         /\ dispState # "RUNNING" => taskList' = taskList
         /\ (\A i \in DOMAIN taskList : taskList[i].body = "shutdown" => saved)
              /\ (b = "shutdown" => saved)
            => \A i \in DOMAIN taskList' : taskList'[i].body = "shutdown" => saved
<1>1. CASE D!AddTask(front, b, e)
  <2> DEFINE t == D!NewTask(front, b, e)
  <2>1. t \in Job /\ t.body = b
    BY ShutdownAssumption DEF QuitIInv, QueueTypes, Job, D!NewTask
  <2>2. /\ taskList' = IF front THEN <<t>> \o taskList ELSE Append(taskList, t)
        /\ now' = now /\ dpc' = dpc /\ cur' = cur /\ dispState' = dispState
        /\ lastTask' = lastTask + 1 /\ dispState = "RUNNING"
    BY <1>1 DEF D!AddTask, D!threadVars
  <2> HIDE DEF t
  <2>3. taskList \in Seq(Job) /\ lastTask \in Nat
    BY DEF QuitIInv, QueueTypes
  <2> QED
    BY <2>1, <2>2, <2>3, PutOnList
<1>2. CASE UNCHANGED <<now, dispVars>>
  BY <1>2 DEF dispVars, QuitIInv, QueueTypes
<1> QED
  BY <1>1, <1>2 DEF Post

(* A post keeps the invariant, if nothing else does more than remember the
   signal; a shutdown is posted behind the save or after a SIGTERM. *)
LEMMA PosterKeeps ==
  ASSUME QuitIInv,
         NEW front \in BOOLEAN, NEW b \in Bodies, NEW e \in Expirations \cup {Never},
         Post(front, b, e),
         UNCHANGED <<schedState, saved>>, at' # "saved" \/ at' = at,
         sent' \in Seq({"SIGTERM", "SIGQUIT"}),
         \/ "SIGTERM" \in ToSet(sent')
         \/ /\ "SIGTERM" \notin ToSet(sent) /\ sig' = sig
            /\ b = "shutdown" => saved
  PROVE  QuitIInv'
BY PostKeeps DEF QuitIInv, QueueTypes, Emptied, SavedFirst

(* A signal that is delivered is remembered, and a SIGTERM stays. *)
LEMMA DeliverRemembers ==
  ASSUME QuitIInv, NEW s \in {"SIGTERM", "SIGQUIT"}, Deliver(s)
  PROVE  /\ sent' \in Seq({"SIGTERM", "SIGQUIT"})
         /\ "SIGTERM" \notin ToSet(sent') => "SIGTERM" \notin ToSet(sent) /\ s # "SIGTERM"
<1>1. sent \in Seq({"SIGTERM", "SIGQUIT"}) /\ sent' = Append(sent, s)
  BY DEF Deliver, QuitIInv, QueueTypes
<1>2. \A i \in DOMAIN sent : i \in DOMAIN sent' /\ sent'[i] = sent[i]
  BY <1>1
<1>3. Len(sent) + 1 \in DOMAIN sent' /\ sent'[Len(sent) + 1] = s
  BY <1>1
<1> QED
  BY <1>1, <1>2, <1>3 DEF ToSet

(* Two signals, of which one interrupts the other: both are remembered. *)
LEMMA BothRemembered ==
  ASSUME NEW old \in Seq({"SIGTERM", "SIGQUIT"}), NEW s \in {"SIGTERM", "SIGQUIT"},
         NEW t \in {"SIGTERM", "SIGQUIT"}, s # t
  PROVE  /\ old \o <<t, s>> \in Seq({"SIGTERM", "SIGQUIT"})
         /\ "SIGTERM" \in ToSet(old \o <<t, s>>)
<1> DEFINE new == old \o <<t, s>>
<1>1. new \in Seq({"SIGTERM", "SIGQUIT"}) /\ Len(new) = Len(old) + 2
  OBVIOUS
<1>2. new[Len(old) + 1] = t /\ new[Len(old) + 2] = s
  OBVIOUS
<1>3. Len(old) + 1 \in DOMAIN new /\ Len(old) + 2 \in DOMAIN new
  BY <1>1
<1> HIDE DEF new
<1>4. "SIGTERM" \in ToSet(new)
  BY <1>2, <1>3 DEF ToSet
<1> QED
  BY <1>1, <1>4 DEF new

(* What only moves the Scheduler or main() disturbs nothing; the Scheduler is
   terminated by its shutdown alone. *)
LEMMA Elsewhere ==
  ASSUME QuitIInv, now' \in Nat, UNCHANGED <<dispVars, at, sig, sent>>,
         saved => saved', schedState' = "TERMINATED" => schedState = "TERMINATED"
  PROVE  QuitIInv'
BY DEF QuitIInv, QueueTypes, Emptied, SavedFirst, dispVars

LEMMA QuitStep == QuitIInv /\ [Next]_vars => QuitIInv'
<1> SUFFICES ASSUME QuitIInv, [Next]_vars PROVE QuitIInv'
  OBVIOUS
<1>0. /\ now \in Nat /\ lastTask \in Nat /\ taskList \in Seq(Job)
      /\ sent \in Seq({"SIGTERM", "SIGQUIT"})
  BY DEF QuitIInv, QueueTypes
<1> USE BodiesAre
<1>1. CASE MainStep
  <2>1. CASE MainStart
    <3>1. Post(FALSE, "otserv", Never) /\ UNCHANGED <<schedState, saved, at, sent, sig>>
      BY <2>1 DEF MainStart, schedVars, gameVars, envVars
    <3>2. "SIGTERM" \in ToSet(sent') \/ "SIGTERM" \notin ToSet(sent)
      BY <3>1
    <3> QED BY <1>0, <3>1, <3>2, PosterKeeps
  <2>2. CASE ~MainStart
    <3>1. UNCHANGED <<now, dispVars, at, sig, sent, schedState, saved>>
      BY <1>1, <2>2 DEF MainStep, Main, MainWait, MainTest, MainRun, MainServed, Die,
         MainJoinDispatcher, MainJoinScheduler, schedVars, envVars, gameVars
    <3> QED BY <1>0, <3>1, Elsewhere
  <2> QED BY <2>1, <2>2
<1>2. CASE SchedulerStep
  BY <1>0, <1>2, Elsewhere DEF SchedulerStep, S!Check, S!Wait, S!Timeout, S!Take, S!Skip,
     S!Notify, S!clientVars, gameVars, envVars
<1>3. CASE HandOver
  <2>1. UNCHANGED <<now, schedState, at, saved, sig, sent>>
    BY <1>3 DEF HandOver, S!HandOver, S!clientVars, gameVars, envVars
  <2>2. CASE run
    BY <1>0, <1>3, <2>1, <2>2, PosterKeeps DEF HandOver
  <2>3. CASE ~run
    BY <1>0, <1>3, <2>1, <2>3, Elsewhere DEF HandOver
  <2> QED BY <2>2, <2>3
<1>4. CASE DispatcherStep
  <2>1. UNCHANGED <<now, lastTask, dispState, schedState, at, saved, sig, sent>>
    BY <1>4 DEF DispatcherStep, D!Check, D!Wait, D!Take, D!Skip, D!Expire, D!Begin,
       D!FlushRun, D!FlushEnd, D!Notify, D!callVars, schedVars, gameVars, envVars
  <2>2. CASE D!Take \/ D!FlushRun
    <3>1. taskList # <<>> /\ taskList' = Tail(taskList)
      BY <2>2 DEF D!Take, D!FlushRun
    <3>2. /\ taskList' \in Seq(Job) /\ 1 \in DOMAIN taskList /\ Head(taskList) = taskList[1]
          /\ \A i \in DOMAIN taskList' : i + 1 \in DOMAIN taskList /\ taskList'[i] = taskList[i + 1]
      BY <1>0, <3>1
    <3>3. \/ dpc' = "taken" /\ cur' = Head(taskList) /\ dispState # "TERMINATED"
          \/ dpc = "flush" /\ dpc' = "flushing" /\ cur' = cur
      BY <2>2 DEF D!Take, D!FlushRun
    <3> QED
      BY <1>0, <2>1, <3>2, <3>3 DEF QuitIInv, QueueTypes, Emptied, SavedFirst
  <2>3. CASE D!Check \/ D!Wait \/ D!Skip \/ D!Expire \/ D!Begin \/ D!FlushEnd \/ D!Notify
    <3>1. taskList' = taskList
      BY <2>3 DEF D!Check, D!Wait, D!Skip, D!Expire, D!Begin, D!FlushEnd, D!Notify
    <3>2. CASE D!Check
      BY <1>0, <2>1, <3>1, <3>2 DEF D!Check, QuitIInv, QueueTypes, Emptied, SavedFirst
    <3>3. CASE ~D!Check
      <4>1. /\ dpc' # "exited" \/ dpc' = dpc
            /\ \/ dpc' \in {"taken", "running"} => dpc \in {"taken", "running"} /\ cur' = cur
               \/ dpc = "flush" /\ dpc' = "running" /\ cur' = cur /\ taskList = <<>>
            /\ dpc' \in {"flush", "flushing", "deadlocked"} => dpc' = dpc /\ cur' = cur
            /\ dpc \in {"flush", "flushing", "deadlocked"} => dpc' = dpc \/ taskList = <<>>
        BY <2>3, <3>3 DEF D!Wait, D!Skip, D!Expire, D!Begin, D!FlushEnd, D!Notify
      <4> QED
        BY <1>0, <2>1, <3>1, <4>1 DEF QuitIInv, QueueTypes, Emptied, SavedFirst
    <3> QED BY <3>2, <3>3
  <2> QED BY <1>4, <2>2, <2>3 DEF DispatcherStep
<1>5. CASE Body
  <2>1. CASE LoaderBind \/ LoaderArm
    <3>1. UNCHANGED <<now, dispVars, saved, sig, sent, schedState>>
      BY <2>1 DEF LoaderBind, LoaderArm, Arm, S!AddEvent, schedVars, gameVars, envVars
    <3>2. at' # "saved" \/ at' = at
      BY <2>1 DEF LoaderBind, LoaderArm
    <3> QED
      BY <1>0, <3>1, <3>2 DEF QuitIInv, QueueTypes, Emptied, SavedFirst, dispVars
  <2>2. CASE D!Finish /\ at' = "start"
    <3>1. UNCHANGED <<now, lastTask, taskList, dispState, saved, sig, sent, schedState>>
          /\ dpc = "running" /\ dpc' = "check"
      BY <1>5, <2>2 DEF D!Finish, D!callVars, Body, LoaderBind, LoaderArm, LoaderNotify,
         EventBody, PacketEnd, StateShutdown, StatePost, StateStopScheduler,
         StateStopDispatcher, StateEnd, ShutdownScheduler, ShutdownDispatcher,
         ShutdownServices, Arm, S!AddEvent, S!Stop, S!Shutdown, schedVars, gameVars, envVars,
         Running
    <3> QED
      BY <1>0, <2>2, <3>1 DEF QuitIInv, QueueTypes, Emptied, SavedFirst
  <2>3. CASE StateShutdown
    BY <1>0, <2>3 DEF StateShutdown, QuitIInv, QueueTypes, Emptied, SavedFirst, dispVars,
       schedVars, envVars
  <2>4. CASE StatePost
    <3>1. at = "saved" /\ at' = "stopping" /\ UNCHANGED <<schedState, saved, sig, sent>>
      BY <2>4 DEF StatePost, Running, schedVars, gameVars, envVars
    <3>2. Post(FALSE, "shutdown", Never)
      BY <2>4 DEF StatePost
    <3>3. "SIGTERM" \in ToSet(sent') \/ ("SIGTERM" \notin ToSet(sent) /\ saved)
      BY <3>1 DEF QuitIInv, SavedFirst
    <3>4. QuitIInv /\ sent' \in Seq({"SIGTERM", "SIGQUIT"}) /\ "shutdown" \in Bodies
      BY <1>0, <3>1
    <3> QED
      BY <3>1, <3>2, <3>3, <3>4, PosterKeeps
  <2>5. CASE StateStopScheduler
    BY <1>0, <2>5 DEF StateStopScheduler, S!Stop, QuitIInv, QueueTypes, Emptied, SavedFirst,
       dispVars, gameVars, envVars
  <2>6. CASE StateStopDispatcher
    BY <1>0, <2>6 DEF StateStopDispatcher, Running, D!Stop, D!threadVars, QuitIInv,
       QueueTypes, Emptied, SavedFirst, schedVars, gameVars, envVars
  <2>7. CASE ShutdownScheduler
    BY <1>0, <2>7 DEF ShutdownScheduler, Running, S!Shutdown, QuitIInv, QueueTypes, Emptied,
       SavedFirst, dispVars, gameVars, envVars
  <2>8. CASE ShutdownDispatcher
    BY <1>0, <2>8 DEF ShutdownDispatcher, Running, D!Shutdown, QuitIInv, QueueTypes, Emptied,
       SavedFirst, schedVars, gameVars, envVars
  <2> QED
    BY <1>5, <2>1, <2>2, <2>3, <2>4, <2>5, <2>6, <2>7, <2>8 DEF Body, Finish, LoaderNotify,
       EventBody, PacketEnd, StateEnd, ShutdownServices
<1>6. CASE PacketBody
  <2>1. at' = "posted" /\ UNCHANGED <<schedState, saved, sig, sent>>
    BY <1>6 DEF PacketBody, schedVars, gameVars, envVars
  <2>2. Post(FALSE, "release", Never)
    BY <1>6 DEF PacketBody
  <2>3. "SIGTERM" \in ToSet(sent') \/ "SIGTERM" \notin ToSet(sent)
    BY <2>1
  <2> QED
    BY <1>0, <2>1, <2>2, <2>3, PosterKeeps
<1>7. CASE FlushReturns \/ FlushBlocks
  <2>1. /\ UNCHANGED <<now, lastTask, taskList, dispState, cur, schedState, at, sig, sent>>
        /\ dpc = "flushing" /\ dpc' \in {"flush", "deadlocked"}
        /\ saved => saved'
    BY <1>7 DEF FlushReturns, FlushBlocks, D!FlushNext, D!FlushRelock, D!callVars, schedVars,
       gameVars, envVars
  <2> QED
    BY <1>0, <2>1 DEF QuitIInv, QueueTypes, Emptied, SavedFirst
<1>8. CASE SigQuit
  <2>1. UNCHANGED <<schedState, saved, sig, at>>
    BY <1>8 DEF SigQuit, schedVars, gameVars
  <2>2. /\ sent' \in Seq({"SIGTERM", "SIGQUIT"})
        /\ "SIGTERM" \notin ToSet(sent') => "SIGTERM" \notin ToSet(sent)
    BY <1>8, DeliverRemembers DEF SigQuit
  <2> QED
    BY <1>8, <2>1, <2>2, PosterKeeps DEF SigQuit
<1>9. CASE SigTerm
  <2>1. sent' \in Seq({"SIGTERM", "SIGQUIT"}) /\ "SIGTERM" \in ToSet(sent')
    BY <1>9, DeliverRemembers DEF SigTerm
  <2>2. Post(FALSE, "shutdown", Never)
    BY <1>9 DEF SigTerm
  <2>3. UNCHANGED <<schedState, saved, at>>
    BY <1>9 DEF SigTerm, schedVars, gameVars
  <2> QED
    BY <2>1, <2>2, <2>3, PosterKeeps
<1>10. CASE SigStopDispatcher
  BY <1>0, <1>10 DEF SigStopDispatcher, D!Stop, D!threadVars, QuitIInv, QueueTypes, Emptied,
     SavedFirst
<1>11. CASE SigStopScheduler
  BY <1>0, <1>11 DEF SigStopScheduler, S!Stop, QuitIInv, QueueTypes, Emptied, SavedFirst,
     dispVars
<1>12. CASE \E e \in Expirations : Packet(e)
  <2>1. PICK e \in Expirations : Packet(e)
    BY <1>12
  <2>2. UNCHANGED <<schedState, saved, sig, at, sent>>
    BY <2>1 DEF Packet, schedVars, gameVars
  <2> QED
    BY <1>0, <2>1, <2>2, PosterKeeps DEF Packet
<1>13. CASE Tick
  <2>1. now' \in Nat
    BY <1>0, <1>13 DEF Tick, S!Tick
  <2> QED
    BY <1>13, <2>1, Elsewhere DEF Tick, S!Tick, S!clientVars, gameVars, envVars
<1>14. CASE \E s \in Signals : SigRelocks(s)
  <2>1. PICK s \in Signals : SigRelocks(s)
    BY <1>14
  <2>2. UNCHANGED <<now, dispVars, at, sig, schedState, saved>>
    BY <2>1 DEF SigRelocks, schedVars, gameVars
  <2>3. /\ sent' \in Seq({"SIGTERM", "SIGQUIT"})
        /\ "SIGTERM" \notin ToSet(sent') => "SIGTERM" \notin ToSet(sent)
    <3>1. CASE sent' = Append(sent, s)
      <4>1. \A i \in DOMAIN sent : i \in DOMAIN sent' /\ sent'[i] = sent[i]
        BY <1>0, <3>1
      <4>2. sent' \in Seq({"SIGTERM", "SIGQUIT"})
        BY <1>0, <3>1, ShutdownAssumption
      <4> QED
        BY <4>1, <4>2 DEF ToSet
    <3>2. CASE \E t \in Signals \ {s} : sent' = sent \o <<t, s>>
      BY <1>0, <3>2, BothRemembered, ShutdownAssumption
    <3> QED
      BY <2>1, <3>1, <3>2 DEF SigRelocks, Deliver
  <2> QED
    BY <1>0, <2>2, <2>3 DEF QuitIInv, QueueTypes, Emptied, SavedFirst, dispVars
<1>15. CASE UNCHANGED vars
  BY <1>0, <1>15, Elsewhere DEF vars, schedVars, gameVars, envVars
<1> QED
  BY <1>1, <1>2, <1>3, <1>4, <1>5, <1>6, <1>7, <1>8, <1>9, <1>10, <1>11, <1>12, <1>13, <1>14,
     <1>15 DEF Next

(* A server that got no SIGTERM has saved before the Scheduler is terminated,
   and its Dispatcher exits with nothing left in its list. *)
THEOREM QuitSavesFirstHolds == Spec => []QuitSavesFirst
<1>1. QuitIInv => QuitSavesFirst
  BY DEF QuitIInv, SavedFirst, Emptied, QuitSavesFirst
<1> QED
  BY InitQuitIInv, QuitStep, <1>1, PTL DEF Spec
=============================================================================
