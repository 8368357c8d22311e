--------------------------- MODULE ClientSession ---------------------------
(***************************************************************************)
(* A session of the JavaScript client (GameSession.js): it logs one        *)
(* character in, notices when its game is lost and logs in again after a   *)
(* delay.  Every login makes a new Game, whose promise first waits for the *)
(* login server's list of characters and then for the game server; the     *)
(* connection of an earlier Game may still be there.  A step is one        *)
(* callback of the event loop with the promise continuations it causes.    *)
(* Reconnection is enabled and its number of attempts limited.             *)
(***************************************************************************)
EXTENDS Integers

CONSTANTS
  Games,        \* Game objects; one nothing is left of is used again
  NoGame,       \* this.game = null
  MaxAttempts,  \* reconnect.maxAttempts
  MaxAsleep     \* bound: delayed reconnections when attempts are counted anew

ASSUME ClientAssumption ==
  MaxAttempts \in Nat \ {0} /\ MaxAsleep \in Nat /\ NoGame \notin Games

VARIABLES
  link,      \* what each Game is connected to: the login server ("list"),
             \* the game server ("open"), or that with its character "in"
  pending,   \* the Games whose login promise is not settled
  retried,   \* pending ones that _handleReconnect awaits, and not start
  deaf,      \* Games whose listeners stop has removed
  current,   \* this.game
  running,   \* isRunning
  stopped,   \* _stopped
  attempts,  \* _reconnectAttempt
  asleep,    \* calls of _handleReconnect that sit in setTimeout
  gaveUp,    \* sessionReconnectFailed was emitted, or the promise of a
  hung       \* retried Game will never settle, since attempts are counted

clientVars == <<link, pending, retried, deaf, current, running, stopped,
                attempts, asleep, gaveUp, hung>>

ClientInit ==
  /\ link = [g \in Games |-> "none"]
  /\ pending = {} /\ retried = {} /\ deaf = {}
  /\ current = NoGame
  /\ running = FALSE /\ stopped = FALSE
  /\ attempts = 0 /\ asleep = 0 /\ gaveUp = FALSE /\ hung = FALSE
-----------------------------------------------------------------------------
\* n calls of _handleReconnect: each counts an attempt and goes to sleep, or
\* reports that there have been enough.
HandleReconnect(n) ==
  LET more == IF attempts + n > MaxAttempts THEN MaxAttempts - attempts ELSE n
  IN  /\ attempts' = attempts + more
      /\ asleep' = asleep + more
      /\ gaveUp' = (gaveUp \/ more < n)

\* How often the end of game g's promise calls _handleReconnect: its catch does.
RetriesRejectedNever(g) == 0
RetriesRejected(g) == IF g \in retried /\ ~stopped THEN 1 ELSE 0

\* How often the loss of game g's connection does: the listener of _connect.
RetriesLost(g) == IF g \notin deaf /\ ~stopped THEN 1 ELSE 0

\* The counting of attempts starts again: a bound on how much may be asleep.
MayCountAnew == asleep <= MaxAsleep

\* _connect: a new Game asks the login server for the list of characters.
Connects(g) ==
  /\ link[g] = "none" /\ g \notin pending
  /\ link' = [link EXCEPT ![g] = "list"]
  /\ pending' = pending \cup {g}
  /\ deaf' = deaf \ {g}
  /\ current' = g

\* The promise of game g is settled.
Settles(g) == pending' = pending \ {g} /\ retried' = retried \ {g}

Start ==
  /\ ~running /\ MayCountAnew
  /\ \E g \in Games : Connects(g)
  /\ stopped' = FALSE /\ attempts' = 0 /\ gaveUp' = FALSE /\ hung' = FALSE
  /\ UNCHANGED <<retried, running, asleep>>

\* stop: only a Game that has a protocol is disconnected; one still at the
\* login server goes on without listeners.
Stop ==
  /\ stopped' = TRUE /\ running' = FALSE /\ current' = NoGame
  /\ link' = [g \in Games |->
                IF g = current /\ link[g] # "list" THEN "none" ELSE link[g]]
  /\ deaf' = deaf \cup {g \in Games : g = current /\ link[g] = "list"}
  /\ UNCHANGED <<pending, hung, retried, attempts, asleep, gaveUp>>

\* A delay of _handleReconnect is over.
Wake ==
  /\ asleep > 0
  /\ asleep' = asleep - 1
  /\ \/ stopped /\ UNCHANGED <<link, pending, retried, deaf, current>>
     \/ ~stopped /\ \E g \in Games : Connects(g) /\ retried' = retried \cup {g}
  /\ UNCHANGED <<hung, running, stopped, attempts, gaveUp>>

\* The list has the character: loginToGame connects to the game server.
ListAnswers(g) ==
  /\ link[g] = "list"
  /\ link' = [link EXCEPT ![g] = "open"]
  /\ UNCHANGED <<pending, hung, retried, deaf, current, running, stopped,
                 attempts, asleep, gaveUp>>

\* The login server answers with an error, or without the character.
ListFails(g) ==
  /\ link[g] = "list"
  /\ link' = [link EXCEPT ![g] = "none"]
  /\ Settles(g) /\ HandleReconnect(RetriesRejected(g))
  /\ UNCHANGED <<hung, deaf, current, running, stopped>>

\* The login server cannot be reached, or hangs up without an answer: the
\* 'error' nobody listens to on ProtocolLogin throws before reject, and its
\* 'disconnected' and its time-out settle nothing.  Nothing comes of the Game.
ListHangs(g) ==
  /\ link[g] = "list"
  /\ link' = [link EXCEPT ![g] = "none"]
  /\ Settles(g) /\ hung' = (hung \/ g \in retried)
  /\ UNCHANGED <<deaf, current, running, stopped, attempts, asleep, gaveUp>>

\* The game server cannot be reached: the socket's 'error' rejects the
\* promise and its 'close' is a disconnection.
GameRefused(g) ==
  /\ link[g] = "open" /\ g \in pending
  /\ link' = [link EXCEPT ![g] = "none"]
  /\ running' = (running /\ g \in deaf)
  /\ Settles(g) /\ HandleReconnect(RetriesLost(g) + RetriesRejected(g))
  /\ UNCHANGED <<hung, deaf, current, stopped>>

\* The game server answers with an error message, or nothing comes for 15 s
\* (also after stop has closed the connection): only the promise is settled.
Rejects(g) ==
  /\ link[g] \in {"open", "none"} /\ g \in pending
  /\ Settles(g) /\ HandleReconnect(RetriesRejected(g))
  /\ UNCHANGED <<link, hung, deaf, current, running, stopped>>

\* The character appears.  The server has it in the world at most once.  The
\* session learns of it unless the promise was rejected before.
LogsIn(g) ==
  /\ link[g] = "open" /\ \A h \in Games : link[h] # "in"
  /\ link' = [link EXCEPT ![g] = "in"]
  /\ \/ /\ g \in pending /\ MayCountAnew
        /\ Settles(g)
        /\ running' = TRUE /\ attempts' = 0
        /\ gaveUp' = FALSE /\ hung' = FALSE
     \/ /\ g \notin pending
        /\ UNCHANGED <<pending, retried, running, attempts, gaveUp, hung>>
  /\ UNCHANGED <<deaf, current, stopped, asleep>>

\* A connection to the game server ends: the listener takes the session for
\* lost, whichever of its Games the connection was of.
Closes(g) ==
  /\ link[g] \in {"open", "in"}
  /\ link' = [link EXCEPT ![g] = "none"]
  /\ running' = (running /\ g \in deaf)
  /\ HandleReconnect(RetriesLost(g))
  /\ UNCHANGED <<pending, hung, retried, deaf, current, stopped>>

ClientNext ==
  \/ Start \/ Stop \/ Wake
  \/ \E g \in Games :
       \/ ListAnswers(g) \/ ListFails(g) \/ ListHangs(g)
       \/ GameRefused(g) \/ Rejects(g) \/ LogsIn(g) \/ Closes(g)

\* Timers go off (the delay, the 15 s of a login, the 30 s after which an
\* idle socket is given up), and a login server that answers does so.
ClientSpec ==
  /\ ClientInit /\ [][ClientNext]_clientVars
  /\ WF_clientVars(Wake)
  /\ \A g \in Games :
       /\ WF_clientVars(ListAnswers(g) \/ ListFails(g) \/ ListHangs(g))
       /\ WF_clientVars(Rejects(g))
       /\ WF_clientVars(g \notin pending /\ link[g] = "open" /\ Closes(g))
-----------------------------------------------------------------------------
\* A session that has begun to reconnect does not end in silence: it runs
\* again, is stopped or started anew, reports that it has given up, or one of
\* its attempts waits for a login server that will never answer (catch of _handleReconnect,
\* GameSession.js).
LostComesBack ==
  (~running /\ ~stopped /\ attempts > 0)
    ~> (running \/ stopped \/ attempts = 0 \/ gaveUp \/ hung)

\* A stopped session has no character in the world ("Stop this session
\* (disconnect and disable reconnection)").
StoppedStaysOut == stopped => \A g \in Games : link[g] # "in"
=============================================================================
