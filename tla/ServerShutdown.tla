--------------------------- MODULE ServerShutdown ---------------------------
(***************************************************************************)
(* The life of the server process: main() in otserv.cpp, the loader task,  *)
(* the Dispatcher and Scheduler threads, the io_service of the             *)
(* ServiceManager, the signal handler, and the two ways to shut down       *)
(* (SIGQUIT, save and shut down; SIGTERM, shut down).                      *)
(*                                                                         *)
(* Composes Scheduler and Dispatcher: a step of this module is a step of   *)
(* one of them, or of both when one thread calls into the other.           *)
(***************************************************************************)
EXTENDS Integers, FiniteSets, SequencesExt

CONSTANTS
  MaxId, MaxTime, Delays, MinTicks, None,        \* of Scheduler
  MaxTasks, Expirations, Never, NoTask,          \* of Dispatcher
  Signals,     \* the signals the operator may send
  MaxSignals,  \* how many of them
  MaxPackets,  \* how many packets the clients send
  MaxInputs,   \* how many signals and packets together
  MaxEvents    \* how many events Game::start arms

ASSUME ShutdownAssumption ==
  /\ Signals \subseteq {"SIGTERM", "SIGQUIT"}
  /\ MaxSignals \in Nat /\ MaxPackets \in Nat /\ MaxInputs \in Nat
  /\ MaxEvents \in 1..MaxId
  /\ Expirations \subseteq Nat
  /\ MaxTasks >= 1 + MaxId + 2 * MaxInputs

(* What a task does: the loader, an event, a client's packet, the release of
   a protocol that closing a connection posts, and the two shutdowns. *)
Bodies == {"otserv", "event", "packet", "release", "saveShutdown", "shutdown"}

VARIABLES
  now,
  lastEvent, eventList, eventIds, schedState, eventSignals,
  spc, wakeAt, action, task, run, handed, stopped,
  lastTask, taskList, dispState, taskLock, taskSignals, dpc, cur, done,
  mpc,        \* where main() is
  at,         \* how far the running task is in its body
  acceptors,  \* whether ServiceManager::acceptors holds a port
  io,         \* the io_service: fresh, running, dying (timer armed), ended
  gameState,  \* Game::gameState
  saved,      \* whether the shutdown has saved the game
  sig,        \* where the signal handler is
  sent,       \* signals delivered so far
  packets,    \* packets received so far
  capped      \* whether a bound of the model has dropped an event

schedVars == <<lastEvent, eventList, eventIds, schedState, eventSignals, spc,
               wakeAt, action, task, run, handed, stopped>>
dispVars  == <<lastTask, taskList, dispState, taskLock, taskSignals, dpc, cur, done>>
gameVars  == <<acceptors, io, gameState, saved>>
envVars   == <<sig, sent, packets, capped>>
vars == <<now, schedVars, dispVars, mpc, at, gameVars, envVars>>

S == INSTANCE Scheduler
D == INSTANCE Dispatcher

Init ==
  /\ S!Init /\ D!Init
  /\ mpc = "start" /\ at = "start"
  /\ acceptors = FALSE /\ io = "fresh"
  /\ gameState = "STARTUP" /\ saved = FALSE
  /\ sig = "idle" /\ sent = <<>> /\ packets = 0 /\ capped = FALSE

Tick == /\ S!Tick
        /\ UNCHANGED <<dispVars, mpc, at, gameVars, envVars>>

(* The main thread has not locked m_taskLock for ever, see SigRelocks. *)
Lockable == mpc # "deadlocked"

(* Dispatcher::addTask as a caller sees it: the task is queued, or dropped
   once the Dispatcher is closing; either way m_taskLock must be free. *)
Post(front, body, expiration) ==
  /\ Lockable
  /\ \/ D!AddTask(front, body, expiration)
     \/ /\ ~taskLock /\ dispState # "RUNNING"
        /\ UNCHANGED <<now, dispVars>>

(* Scheduler::addEvent likewise; beyond the bounds on ids and on time the
   model drops the event too, and remembers that it did. *)
Arm(delay) ==
  LET beyond == lastEvent = MaxId \/ S!DueTime(delay) > MaxTime
  IN  /\ \/ S!AddEvent(delay)
         \/ /\ schedState # "RUNNING" \/ beyond
            /\ UNCHANGED <<now, schedVars>>
      /\ capped' = (capped \/ (schedState = "RUNNING" /\ beyond))

-----------------------------------------------------------------------------
(* main() *)

MainStart ==
  /\ mpc = "start" /\ mpc' = "posted"
  /\ Post(FALSE, "otserv", Never)
  /\ UNCHANGED <<schedVars, at, gameVars, envVars>>

Main(from, to) ==
  /\ mpc = from /\ mpc' = to
  /\ UNCHANGED <<now, schedVars, dispVars, at, gameVars, envVars>>

(* g_loaderSignal.wait: main() waits only once it gets here. *)
MainWait == Main("posted", "loading")

(* After one second of sleep: is_running() looks for a port. *)
MainTest == Main("asleep", IF acceptors THEN "run" ELSE "joinDispatcher")

MainRun ==
  /\ mpc = "run" /\ mpc' = "serving"
  /\ io' = "running"
  /\ UNCHANGED <<now, schedVars, dispVars, at, acceptors, gameState, saved, envVars>>

MainServed == io = "ended" /\ Main("serving", "joinDispatcher")

MainJoinDispatcher == dpc = "exited" /\ Main("joinDispatcher", "joinScheduler")
MainJoinScheduler  == spc = "exited" /\ Main("joinScheduler", "returned")

(* ServiceManager::die, three seconds after stop(): run by io_service.run. *)
Die ==
  /\ io = "dying" /\ mpc = "serving"
  /\ io' = "ended"
  /\ UNCHANGED <<now, schedVars, dispVars, mpc, at, acceptors, gameState, saved,
                 envVars>>

-----------------------------------------------------------------------------
(* The two threads.  Their own steps are those of Scheduler and Dispatcher. *)

SchedulerStep ==
  /\ S!Check \/ S!Wait \/ S!Timeout \/ S!Take \/ S!Skip \/ S!Notify
  /\ UNCHANGED <<dispVars, mpc, at, gameVars, envVars>>

(* The Scheduler hands a task over; it waits while m_taskLock is held. *)
HandOver ==
  /\ S!HandOver
  /\ IF run THEN Post(TRUE, "event", Never) ELSE UNCHANGED dispVars
  /\ UNCHANGED <<mpc, at, gameVars, envVars>>

DispatcherStep ==
  /\ \/ D!Check \/ D!Expire \/ D!Begin \/ D!FlushRun \/ D!FlushEnd \/ D!Notify
     \/ Lockable /\ (D!Wait \/ D!Take \/ D!Skip)
  /\ UNCHANGED <<schedVars, mpc, at, gameVars, envVars>>

-----------------------------------------------------------------------------
(* What the running task does. *)

Running(body, from) == dpc = "running" /\ cur.body = body /\ at = from

Finish(body, from) ==
  /\ Running(body, from) /\ at' = "start"
  /\ D!Finish

(* otserv(): ports are bound, Game::start arms its events, main() is
   notified if it is already waiting. *)
LoaderBind ==
  /\ Running("otserv", "start") /\ at' = "arming"
  /\ acceptors' = TRUE
  /\ UNCHANGED <<now, schedVars, dispVars, mpc, io, gameState, saved, envVars>>

LoaderArm ==
  /\ Running("otserv", "arming")
  /\ \E d \in Delays : Arm(d)
  /\ at' = IF lastEvent' = MaxEvents \/ lastEvent' = lastEvent THEN "armed" ELSE at
  /\ UNCHANGED <<dispVars, mpc, gameVars, sig, sent, packets>>

LoaderNotify ==
  /\ Finish("otserv", "armed")
  /\ mpc' = IF mpc = "loading" THEN "asleep" ELSE mpc
  /\ gameState' = "NORMAL"
  /\ UNCHANGED <<schedVars, acceptors, io, saved, envVars>>

(* checkDecay, checkCreatures, checkLight...: an event arms its successor. *)
EventBody ==
  /\ Finish("event", "start")
  /\ \E d \in Delays : Arm(d)
  /\ UNCHANGED <<mpc, gameVars, sig, sent, packets>>

(* The body of a packet's task; it may close the connection, which posts a
   task of its own. *)
PacketBody ==
  /\ Running("packet", "start")
  /\ at' = "posted"
  /\ Post(FALSE, "release", Never)
  /\ UNCHANGED <<schedVars, mpc, gameVars, envVars>>

PacketEnd ==
  /\ \/ Finish("packet", "start") \/ Finish("packet", "posted")
     \/ Finish("release", "start")
  /\ UNCHANGED <<schedVars, mpc, gameVars, envVars>>

(* setGameState(GAMESTATE_SHUTDOWN): kick, save, post Game::shutdown, stop
   the Scheduler, stop the Dispatcher.  The mutant saves after the stop. *)
StateShutdownUnsaved ==
  /\ Running("saveShutdown", "start") /\ gameState # "SHUTDOWN"
  /\ at' = "saved"
  /\ gameState' = "SHUTDOWN"
  /\ UNCHANGED <<now, schedVars, dispVars, mpc, acceptors, io, saved, envVars>>

StateShutdown ==
  /\ Running("saveShutdown", "start") /\ gameState # "SHUTDOWN"
  /\ at' = "saved"
  /\ gameState' = "SHUTDOWN" /\ saved' = TRUE
  /\ UNCHANGED <<now, schedVars, dispVars, mpc, acceptors, io, envVars>>

StatePost ==
  /\ Running("saveShutdown", "saved") /\ at' = "stopping"
  /\ Post(FALSE, "shutdown", Never)
  /\ UNCHANGED <<schedVars, mpc, gameVars, envVars>>

StateStopScheduler ==
  /\ Running("saveShutdown", "stopping") /\ at' = "stopped"
  /\ S!Stop
  /\ UNCHANGED <<dispVars, mpc, gameVars, envVars>>

StateStopDispatcher ==
  /\ Running("saveShutdown", "stopped") /\ at' = "end"
  /\ Lockable /\ D!Stop
  /\ UNCHANGED <<schedVars, mpc, gameVars, envVars>>

StateEnd ==
  /\ \/ Finish("saveShutdown", "end")
     \/ gameState = "SHUTDOWN" /\ Finish("saveShutdown", "start")
  /\ UNCHANGED <<schedVars, mpc, gameVars, envVars>>

(* Game::shutdown: Scheduler::shutdown, Dispatcher::shutdown with its flush,
   cleanup, ServiceManager::stop. *)
ShutdownScheduler ==
  /\ Running("shutdown", "start") /\ at' = "flush"
  /\ S!Shutdown
  /\ UNCHANGED <<dispVars, mpc, gameVars, envVars>>

ShutdownDispatcher ==
  /\ Running("shutdown", "flush") /\ at' = "services"
  /\ Lockable /\ D!Shutdown
  /\ UNCHANGED <<schedVars, mpc, gameVars, envVars>>

(* stop() does nothing unless run() has been called: the mutant forgets to
   arm the timer that ends io_service.run. *)
ShutdownServicesNoTimer ==
  /\ Finish("shutdown", "services")
  /\ acceptors' = IF io = "running" THEN FALSE ELSE acceptors
  /\ UNCHANGED <<schedVars, mpc, io, gameState, saved, envVars>>

ShutdownServices ==
  /\ Finish("shutdown", "services")
  /\ IF io = "running"
       THEN io' = "dying" /\ acceptors' = FALSE
       ELSE UNCHANGED <<io, acceptors>>
  /\ UNCHANGED <<schedVars, mpc, gameState, saved, envVars>>

(* What a flushed task does, with m_taskLock held by its own thread.  An
   event's addEvent is dropped; a packet may or may not post; the others
   post, stop or shut down, unless the state was SHUTDOWN already. *)
Flushed == done[Len(done)].body

FlushReturns ==
  /\ dpc = "flushing"
  /\ \/ Flushed \in {"event", "packet", "release"}
     \/ Flushed = "saveShutdown" /\ gameState = "SHUTDOWN"
  /\ D!FlushNext
  /\ UNCHANGED <<schedVars, mpc, at, gameVars, envVars>>

FlushBlocks ==
  /\ dpc = "flushing"
  /\ \/ Flushed \in {"packet", "shutdown"}
     \/ Flushed = "saveShutdown" /\ gameState # "SHUTDOWN"
  /\ D!FlushRelock
  /\ IF Flushed = "saveShutdown"
       THEN gameState' = "SHUTDOWN" /\ saved' = TRUE
       ELSE UNCHANGED <<gameState, saved>>
  /\ UNCHANGED <<schedVars, mpc, at, acceptors, io, envVars>>

Body ==
  \/ LoaderBind \/ LoaderArm \/ LoaderNotify \/ EventBody \/ PacketEnd
  \/ StateShutdown \/ StatePost \/ StateStopScheduler \/ StateStopDispatcher
  \/ StateEnd \/ ShutdownScheduler \/ ShutdownDispatcher \/ ShutdownServices

-----------------------------------------------------------------------------
(* The bounds leave room for so many more signals and packets. *)
Room(s, p) ==
  /\ Len(sent) + s <= MaxSignals /\ packets + p <= MaxPackets
  /\ Len(sent) + s + packets + p <= MaxInputs

(* Signals arrive on the main thread, between any two steps of the others; a
   handler may interrupt that of another signal, never that of its own. *)
Interrupts(s) ==
  /\ s \in Signals /\ mpc \notin {"start", "returned", "deadlocked"}
  /\ s = "SIGTERM" => sig = "idle"

Deliver(s) ==
  /\ Interrupts(s) /\ Room(1, 0)
  /\ sent' = Append(sent, s)
  /\ UNCHANGED <<packets, capped>>

(* A signal that arrives while the main thread is inside m_taskLock, in
   Dispatcher::stop or in addTask for a packet or for another signal: the
   handler waits for a mutex that its own thread holds. *)
SigRelocks(s) ==
  /\ Interrupts(s) /\ ~taskLock /\ mpc' = "deadlocked"
  /\ \/ sig = "posted" /\ Deliver(s)
     \/ /\ sig = "idle" /\ Room(1, 1) /\ sent' = Append(sent, s)
        /\ mpc = "serving" /\ io # "ended"
        /\ packets' = packets + 1 /\ UNCHANGED capped
     \/ \E t \in Signals \ {s} :
          /\ sig = "idle" /\ Room(2, 0) /\ sent' = sent \o <<t, s>>
          /\ UNCHANGED <<packets, capped>>
  /\ UNCHANGED <<now, schedVars, dispVars, at, gameVars, sig>>

SigQuit ==
  /\ Deliver("SIGQUIT")
  /\ Post(FALSE, "saveShutdown", Never)
  /\ UNCHANGED <<schedVars, mpc, at, gameVars, sig>>

SigTerm ==
  /\ Deliver("SIGTERM")
  /\ Post(FALSE, "shutdown", Never)
  /\ sig' = "posted"
  /\ UNCHANGED <<schedVars, mpc, at, gameVars>>

SigStopDispatcher ==
  /\ sig = "posted" /\ sig' = "stopped"
  /\ Lockable /\ D!Stop
  /\ UNCHANGED <<schedVars, mpc, at, gameVars, sent, packets, capped>>

SigStopScheduler ==
  /\ sig = "stopped" /\ sig' = "idle"
  /\ Lockable /\ S!Stop
  /\ UNCHANGED <<dispVars, mpc, at, gameVars, sent, packets, capped>>

(* A client's packet, while the network thread serves. *)
Packet(expiration) ==
  /\ mpc = "serving" /\ io # "ended" /\ sig = "idle" /\ Room(0, 1)
  /\ packets' = packets + 1
  /\ Post(FALSE, "packet", expiration)
  /\ UNCHANGED <<schedVars, mpc, at, gameVars, sig, sent, capped>>

MainStep ==
  /\ sig = "idle"
  /\ \/ MainStart \/ MainWait \/ MainTest \/ MainRun \/ MainServed \/ Die
     \/ MainJoinDispatcher \/ MainJoinScheduler

Next ==
  \/ MainStep
  \/ SchedulerStep \/ HandOver \/ DispatcherStep
  \/ Body \/ PacketBody \/ FlushReturns \/ FlushBlocks
  \/ SigQuit \/ SigTerm \/ (\E s \in Signals : SigRelocks(s)) \/ SigStopDispatcher \/ SigStopScheduler
  \/ \E e \in Expirations : Packet(e)
  \/ Tick

Spec == Init /\ [][Next]_vars

(* Every thread that can take a step eventually does, and time passes; no
   fairness for the operator's signals, the clients' packets, or a packet's
   choice to close its connection. *)
FairSpec ==
  /\ Spec
  /\ WF_vars(MainStep \/ SigStopDispatcher \/ SigStopScheduler)
  /\ WF_vars(SchedulerStep \/ HandOver)
  /\ WF_vars(DispatcherStep \/ Body \/ FlushReturns \/ FlushBlocks)
  /\ WF_vars(Tick)

-----------------------------------------------------------------------------
(* After SIGQUIT alone the Scheduler is terminated only once the game is
   saved, and the Dispatcher's thread exits only when every packet accepted
   before has been processed. *)
QuitSavesFirst ==
  schedState = "TERMINATED" /\ "SIGTERM" \notin ToSet(sent)
    => saved /\ (dpc = "exited" => taskList = <<>>)

(* The ways in which a shutdown can hang: the loader notified main() before
   it waited; the services were told to stop before they ran, and accept
   still; the Scheduler sleeps on an empty queue that nobody signals, or has
   popped an empty queue; the Dispatcher sleeps on an empty list that addTask
   no longer fills, because stop() took the termination back; a flushed task,
   or a signal handler, has locked m_taskLock twice. *)
Hung ==
  \/ mpc = "loading" /\ gameState # "STARTUP"
  \/ mpc = "serving" /\ io = "running" /\ acceptors /\ dpc = "exited"
  \/ spc = "wait" /\ schedState # "RUNNING"
  \/ spc = "undefined"
  \/ dpc = "wait" /\ dispState # "RUNNING"
  \/ dpc = "deadlocked"
  \/ mpc = "deadlocked"

(* After SIGQUIT, and whatever signals come before and after it, main()
   returns in the end, or the server hangs for good in those ways. *)
QuitCompletes == <>[]("SIGQUIT" \in ToSet(sent) => mpc = "returned" \/ Hung)

(* otserv.cpp:351 registers SIGQUIT as "save & shutdown".
   A server told to save and shut down eventually returns from main, or has
   used up the events of the model. *)
QuitReturns == "SIGQUIT" \in ToSet(sent) ~> (mpc = "returned" \/ capped)
=============================================================================
