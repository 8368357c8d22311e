------------------------------ MODULE CaveBot --------------------------------
(***************************************************************************)
(* The cave bot of the JavaScript client (CaveBot.js), which takes one way *)
(* point after the other, and the walker it shares among its loops         *)
(* (Walker.js), which takes a path step by step.  All of it lives on the   *)
(* timers of one event loop: an action is one callback, and what a settled *)
(* promise continues with comes before the next callback.                  *)
(* Abstracted: where the player is, so that whether a path exists, whether *)
(* the destination is reached, and whether a limit of attempts is reached  *)
(* are choices; which way point is next; what is done at it.               *)
(***************************************************************************)
EXTENDS Integers, FiniteSets

CONSTANTS
  Loops,       \* bound: calls of _processNextWaypoint that are under way
  NoLoop,
  MaxPending,  \* maxPending, steps without an answer
  MaxSteps,    \* bound: directions in a path
  Retries,     \* recalcRetries
  MaxLost      \* bound: timers of each kind that clearTimeout cannot reach, those
               \* of the walker that do the same counted once

ASSUME CaveBotAssumption ==
  NoLoop \notin Loops /\ MaxPending \in Nat \ {0} /\ MaxSteps \in Nat \ {0} /\ Retries \in Nat

VARIABLES
  walker,   \* the fields of the Walker, see Resting
  loop,     \* what each call of _processNextWaypoint waits for
  cave,     \* the fields of the CaveBot, see Unstarted
  inSession \* session.isRunning
botVars == <<walker, loop, cave, inSession>>

NoPath == -1
NoTimer == [attempt |-> -1, ifWalking |-> FALSE]
Resting == [walking |-> FALSE, stopped |-> FALSE,
            path |-> NoPath,     \* directions that are left of _currentPath
            pending |-> 0,       \* _pendingSteps
            timers |-> {},       \* _stepTimer, _stuckTimer, _posDebounceTimer, _auxCoordTimer
            recalc |-> NoTimer,  \* _recalcTimer
            lost |-> {},         \* earlier ones that still run
            waiter |-> NoLoop]   \* whose promise _resolve settles
Unstarted == [enabled |-> FALSE, stopped |-> FALSE, paused |-> FALSE,
              next |-> FALSE,    \* _loopTimeout
              lost |-> 0,        \* earlier ones that still run
              resumes |-> 0,     \* resumptions three seconds after a reconnection
              missed |-> FALSE]  \* history: a way point was due without a session

BotInit == /\ walker = Resting /\ cave = Unstarted /\ inSession = TRUE
           /\ loop = [l \in Loops |-> "none"]

(* The state w of all in the middle of a callback; each handler is the set of
   the states it may leave. *)
BotNow == [walker |-> walker, loop |-> loop, cave |-> cave]
-----------------------------------------------------------------------------
(* Walker *)

ClearTimers(w) ==
  [w EXCEPT !.walker.timers = @ \cap {"aux"}, !.walker.recalc = NoTimer]

SettleWalk(w, result) ==
  IF w.walker.waiter = NoLoop THEN w
  ELSE [w EXCEPT !.loop[w.walker.waiter] = result, !.walker.waiter = NoLoop]

FinishWalk(w, result) ==
  SettleWalk([ClearTimers(w) EXCEPT !.walker.walking = FALSE, !.walker.path = NoPath,
                                !.walker.pending = 0, !.walker.timers = {}], result)

StopWalking(w) == FinishWalk([w EXCEPT !.walker.stopped = TRUE], "failed")

WalkEnds(w) == {FinishWalk(w, "failed"), FinishWalk(w, "arrived")}

RecalcLater(w, t) ==
  [w EXCEPT !.walker.recalc = t,
            !.walker.lost = @ \cup ({w.walker.recalc} \ {NoTimer})]

Later(attempt, ifWalking) == [attempt |-> attempt, ifWalking |-> ifWalking]

ArrivalCheck(w) ==
  WalkEnds(w) \cup {[RecalcLater(w, Later(0, FALSE)) EXCEPT !.walker.path = NoPath]}

(* Mutant: nothing watches the steps that are without an answer. *)
SendNextStepUnwatched(w) ==
  LET k == w.walker
  IN  IF k.stopped \/ ~k.walking \/ k.path = NoPath \/ k.pending >= MaxPending THEN {w}
      ELSE IF k.path = 0 THEN IF k.pending = 0 THEN ArrivalCheck(w) ELSE {w}
      ELSE LET sent == [w EXCEPT !.walker.path = @ - 1, !.walker.pending = @ + 1]
           IN  {FinishWalk(sent, "failed"), [sent EXCEPT !.walker.timers = @ \cup {"step"}]}

SendNextStep(w) ==
  LET k == w.walker
      watched == [w EXCEPT !.walker.timers = @ \cup {"stuck"}]
  IN  IF k.stopped \/ ~k.walking \/ k.path = NoPath THEN {w}
      ELSE IF k.pending >= MaxPending THEN {watched}
      ELSE IF k.path = 0 THEN IF k.pending = 0 THEN ArrivalCheck(w) ELSE {watched}
      ELSE LET sent == [w EXCEPT !.walker.path = @ - 1, !.walker.pending = @ + 1]
           IN  {FinishWalk(sent, "failed"),   \* there is no sender
                [sent EXCEPT !.walker.timers = @ \cup {"stuck", "step"}]}

RecalcAndWalk(w, attempt) ==
  IF w.walker.stopped THEN {w}
  ELSE WalkEnds(w)
       \cup (IF attempt < Retries THEN {RecalcLater(w, Later(attempt + 1, FALSE))} ELSE {})
       \cup UNION {SendNextStep([w EXCEPT !.walker.path = n, !.walker.walking = TRUE,
                                          !.walker.pending = 0]) : n \in 1..MaxSteps}

(* walkTo for loop l.  A walker whose path is blocked is not "walking": what
   was promised to the loop before is forgotten, and its timer goes on. *)
WalkTo(w, l) ==
  LET s == IF w.walker.walking THEN StopWalking(w) ELSE w
      forgotten == {s.walker.waiter} \ {NoLoop}
      begun(aux) ==
        [s EXCEPT !.walker.stopped = FALSE, !.walker.waiter = l, !.walker.pending = 0,
                  !.walker.timers = (@ \ {"aux"}) \cup aux,
                  !.loop = [k \in Loops |-> IF k = l THEN "walk"
                                            ELSE IF k \in forgotten THEN "none" ELSE @[k]]]
  IN  UNION {RecalcAndWalk(begun(aux), 0) : aux \in {{}, {"aux"}}}

Walking == walker.walking /\ ~walker.stopped

(* The events of the server reach a walker that listens. *)
PositionChange ==
  /\ Walking /\ walker.waiter # NoLoop
  /\ walker' = [walker EXCEPT !.timers = @ \cup {"settle"}]
  /\ UNCHANGED <<loop, cave, inSession>>

BotBecomes(S) ==
  /\ \E w \in S : walker' = w.walker /\ loop' = w.loop /\ cave' = w.cave
  /\ UNCHANGED inSession

(* _handleWalkRejection *)
CancelWalk ==
  /\ Walking /\ walker.waiter # NoLoop
  /\ LET w == [ClearTimers(BotNow) EXCEPT !.walker.pending = 0]
     IN  BotBecomes({FinishWalk(w, "failed"),
                  [RecalcLater(w, Later(0, TRUE)) EXCEPT !.walker.path = NoPath]})

(* _onPositionSettled *)
PositionSettled(w) ==
  LET c == [w EXCEPT !.walker.pending = IF @ = 0 THEN 0 ELSE @ - 1,
                     !.walker.timers = @ \ {"stuck"}]
  IN  IF ~Walking THEN {w}
      ELSE {w, FinishWalk(c, "arrived")}
           \cup (IF c.walker.path = 0 /\ c.walker.pending = 0 THEN ArrivalCheck(c)
                 ELSE SendNextStep(c))

StuckDetected(w) ==
  LET c == [ClearTimers(w) EXCEPT !.walker.pending = 0]
  IN  IF ~Walking THEN {w}
      ELSE WalkEnds(w) \cup {[RecalcLater(c, Later(0, TRUE)) EXCEPT !.walker.path = NoPath]}

SwitchToAuxCoord(w) ==
  IF w.walker.stopped THEN {w}
  ELSE {FinishWalk(w, "arrived")}
       \cup RecalcAndWalk([ClearTimers(w) EXCEPT !.walker.pending = 0], 0)

WalkerTimer(t) ==
  LET w == [BotNow EXCEPT !.walker.timers = @ \ {t}]
  IN  BotBecomes(CASE t = "step" -> SendNextStep(w)
                   [] t = "stuck" -> StuckDetected(w)
                   [] t = "settle" -> PositionSettled(w)
                   [] t = "aux" -> SwitchToAuxCoord(w))

(* Any timer that goes off clears the field, also when the field has come to
   hold another. *)
RecalcTimer(t) ==
  /\ t \in ({walker.recalc} \ {NoTimer}) \cup walker.lost
  /\ LET others == (({walker.recalc} \cup walker.lost) \ {t, NoTimer})
                    \cup ({walker.recalc} \cap {t} \cap walker.lost)
         w == [BotNow EXCEPT !.walker.recalc = NoTimer, !.walker.lost = others]
     IN  BotBecomes(IF t.ifWalking /\ ~walker.walking THEN {w} ELSE RecalcAndWalk(w, t.attempt))
-----------------------------------------------------------------------------
(* CaveBot *)

ClearNext(w) == [w EXCEPT !.cave.next = FALSE]
StopBot(w) ==
  ClearNext(StopWalking([w EXCEPT !.cave.enabled = FALSE, !.cave.stopped = TRUE]))
PauseBot(w) ==
  IF w.cave.enabled THEN ClearNext(StopWalking([w EXCEPT !.cave.paused = TRUE])) ELSE w

OnHold(w) == w.cave.stopped \/ w.cave.paused

(* The end of a way point: the bot is stopped (it is the last, or cannot be
   reached), or the next is due after a delay. *)
Advance(w, l) ==
  LET done == [w EXCEPT !.loop[l] = "none"]
  IN  {StopBot(done),
       [done EXCEPT !.cave.next = TRUE, !.cave.lost = IF done.cave.next THEN @ + 1 ELSE @]}

(* _processNextWaypoint up to its first await; the miner may pause the bot, and
   a way point on another floor or too far away is skipped. *)
ProcessNextWaypoint(w) ==
  IF OnHold(w) \/ ~w.cave.enabled THEN {w}
  ELSE IF ~inSession THEN {PauseBot(w), [w EXCEPT !.cave.missed = TRUE]}
  ELSE LET on == [w EXCEPT !.cave.missed = FALSE]
           free == {l \in Loops : w.loop[l] = "none"}
       IN  {PauseBot(w)} \cup UNION {Advance(on, l) \cup WalkTo(on, l) : l \in free}

(* What follows an await of walkTo. *)
Continue(l) ==
  /\ BotBecomes(IF OnHold(BotNow) THEN {[BotNow EXCEPT !.loop[l] = "none"]}
             ELSE IF loop[l] = "arrived" THEN {[BotNow EXCEPT !.loop[l] = "act"]}
             ELSE {[BotNow EXCEPT !.loop[l] = "retry"]} \cup Advance(BotNow, l))

RetryWalk(l) ==
  /\ loop[l] = "retry"
  /\ BotBecomes(IF OnHold(BotNow) THEN {[BotNow EXCEPT !.loop[l] = "none"]} ELSE WalkTo(BotNow, l))

(* _executeWaypointAction has come to its end. *)
Acted(l) == loop[l] = "act" /\ BotBecomes(Advance(BotNow, l))

LoopTimeout ==
  \/ cave.next /\ BotBecomes(ProcessNextWaypoint(ClearNext(BotNow)))
  \/ /\ cave.lost > 0
     /\ BotBecomes(ProcessNextWaypoint(
          IF cave.next THEN ClearNext(BotNow) ELSE [BotNow EXCEPT !.cave.lost = @ - 1]))

StartBot ==
  /\ ~cave.enabled
  /\ LET w == [BotNow EXCEPT !.cave.enabled = TRUE, !.cave.stopped = FALSE, !.cave.paused = FALSE]
     IN  BotBecomes({PauseBot(w)} \cup ProcessNextWaypoint(w))

HaltBot == BotBecomes({StopBot(BotNow)})
HoldBot == cave.enabled /\ BotBecomes({PauseBot(BotNow)})

Resumed(w) ==
  IF w.cave.enabled /\ w.cave.paused
  THEN {w} \cup ProcessNextWaypoint([w EXCEPT !.cave.paused = FALSE])   \* unless it is mining
  ELSE {w}
ResumeBot == BotBecomes(Resumed(BotNow))

(* A game is disconnected, which ends the walk as the pause has done; the
   session is stopped, which nobody listens to; it has logged in again. *)
SessionLost ==
  /\ inSession' = FALSE
  /\ LET w == PauseBot(BotNow) IN walker' = w.walker /\ loop' = w.loop /\ cave' = w.cave

SessionStopped == inSession' = FALSE /\ UNCHANGED <<walker, loop, cave>>

SessionBack ==
  /\ inSession' = TRUE
  /\ cave' = [cave EXCEPT !.resumes = IF cave.enabled /\ cave.paused THEN @ + 1 ELSE @]
  /\ UNCHANGED <<walker, loop>>

Reconnected ==
  cave.resumes > 0 /\ BotBecomes(Resumed([BotNow EXCEPT !.cave.resumes = @ - 1]))

Settled == {l \in Loops : loop[l] \in {"arrived", "failed"}}

BotNext ==
  /\ \/ \E l \in Settled : Continue(l)
     \/ /\ Settled = {}
        /\ \/ PositionChange \/ CancelWalk
           \/ \E t \in walker.timers : WalkerTimer(t)
           \/ \E t \in {walker.recalc} \cup walker.lost : RecalcTimer(t)
           \/ \E l \in Loops : RetryWalk(l) \/ Acted(l)
           \/ LoopTimeout \/ StartBot \/ HaltBot \/ HoldBot \/ ResumeBot
           \/ SessionLost \/ SessionStopped \/ SessionBack \/ Reconnected
  /\ Cardinality(walker'.lost) <= MaxLost /\ cave'.lost <= MaxLost /\ cave'.resumes <= 1

BotSpec == BotInit /\ [][BotNext]_botVars
-----------------------------------------------------------------------------
(* A bot that is neither stopped nor paused goes on: one of its loops has a
   continuation or a timer to come, or waits for a walker that has one itself.
   Except for a way point that came due while the session was lost, after
   which it waits for nothing. *)
BotGoesOn ==
  cave.enabled /\ ~cave.paused /\ ~cave.missed =>
    \/ cave.next \/ cave.lost > 0
    \/ \E l \in Loops :
         \/ loop[l] \in {"arrived", "failed", "retry", "act"}
         \/ /\ loop[l] = "walk" /\ walker.waiter = l /\ ~walker.stopped
            /\ \/ \E t \in ({walker.recalc} \cup walker.lost) \ {NoTimer} :
                    t.ifWalking => walker.walking
               \/ walker.walking /\ walker.timers \cap {"step", "stuck"} # {}
=============================================================================
