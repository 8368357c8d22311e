------------------------------- MODULE Session -------------------------------
(***************************************************************************)
(* The sessions of one character: ProtocolGame::login, connect, logout and *)
(* release, and the Player objects they create, share and drop.            *)
(*                                                                         *)
(* The network thread opens and closes connections and posts tasks at the  *)
(* back of the Dispatcher's list; the tasks run one at a time.  A login    *)
(* that finds the character online disconnects its client and has the      *)
(* Scheduler call connect() a second later: that call goes to the front of *)
(* the list, so it may run between any two tasks.                          *)
(***************************************************************************)
EXTENDS Integers, FiniteSets, SequencesExt

CONSTANTS
  Protocols,    \* ProtocolGame objects, one per connection
  MaxObjects,   \* number of Player objects, one per login at most
  Nobody,       \* no protocol
  ReplaceKick,  \* the values ConfigManager::REPLACE_KICK_ON_LOGIN takes: the
                \* configuration may be reloaded between any two logins
  Kicks         \* whether somebody may kick the player

ASSUME SessionAssumption ==
  /\ IsFiniteSet(Protocols)
  /\ MaxObjects \in Nat /\ MaxObjects >= Cardinality(Protocols)
  /\ Nobody \notin Protocols
  /\ ReplaceKick \subseteq BOOLEAN /\ Kicks \in BOOLEAN

Players  == 1..MaxObjects
NoPlayer == 0

VARIABLES
  conn,        \* Connection of each protocol: open, closed, or destroyed
  taskList,    \* the Dispatcher's list
  connects,    \* connect() calls the Scheduler holds
  made,        \* Player objects created so far
  inGame,      \* the object placed on the map
  owner,       \* Spectators::owner of each object's client
  connecting,  \* Player::isConnecting
  refs,        \* reference count of each object
  player,      \* ProtocolGame::player
  accepts,     \* ProtocolGame::acceptPackets
  kept         \* whether something keeps the player in the world that has no
               \* client: a no-logout tile, a pz lock, a fight, a script that
               \* refuses its logout, or its watching somebody

netVars  == <<conn, taskList>>
objVars  == <<made, inGame, owner, connecting, refs>>
protVars == <<player, accepts>>
sessionVars == <<conn, taskList, connects, made, inGame, owner, connecting, refs,
          player, accepts, kept>>

Task(kind, p) == [kind |-> kind, of |-> p]

SessionInit ==
  /\ conn = [p \in Protocols |-> "none"]
  /\ taskList = <<>> /\ connects = {}
  /\ made = 0 /\ inGame = NoPlayer
  /\ owner = [o \in Players |-> Nobody]
  /\ connecting = [o \in Players |-> FALSE]
  /\ refs = [o \in Players |-> 0]
  /\ player = [p \in Protocols |-> NoPlayer]
  /\ accepts = [p \in Protocols |-> FALSE]
  /\ kept = FALSE

-----------------------------------------------------------------------------
(* The network thread *)

(* A client connects and sends its first message, which passes the checks of
   onRecvFirstMessage: the login is posted. *)
Open(p) ==
  /\ conn[p] = "none"
  /\ conn' = [conn EXCEPT ![p] = "open"]
  /\ taskList' = Append(taskList, Task("login", p))
  /\ UNCHANGED <<kept, connects, objVars, protVars>>

(* Connection::close of the connections in P: each open one is closed and
   the release of its protocol is posted after the list of tasks given. *)
ClosingProtocol(P, list) ==
  LET closed == {p \in P : conn[p] = "open"}
  IN  /\ conn' = [p \in Protocols |-> IF p \in closed THEN "closed" ELSE conn[p]]
      /\ taskList' = list \o [i \in 1..Cardinality(closed) |->
                                Task("release", SetToSeq(closed)[i])]

(* The client hangs up, a read or write fails, or a timer expires. *)
HangUp(p) ==
  /\ conn[p] = "open"
  /\ ClosingProtocol({p}, taskList)
  /\ UNCHANGED <<kept, connects, objVars, protVars>>

(* The last handler of a closed connection has returned and the Connection
   is destroyed.  While its queue of messages drains it stays alive. *)
DestroyProtocol(p) ==
  /\ conn[p] = "closed"
  /\ conn' = [conn EXCEPT ![p] = "destroyed"]
  /\ UNCHANGED <<kept, taskList, connects, objVars, protVars>>

(* parsePacket, then parseLogout. *)
AskLogout(p) ==
  /\ conn[p] = "open" /\ player[p] # NoPlayer /\ accepts[p]
  /\ Task("logout", p) \notin ToSet(taskList)
  /\ taskList' = Append(taskList, Task("logout", p))
  /\ UNCHANGED <<kept, conn, connects, objVars, protVars>>

-----------------------------------------------------------------------------
(* The Dispatcher's tasks *)

Next1(kind, p) == taskList # <<>> /\ Head(taskList) = Task(kind, p)

(* login, nobody found: a Player is made for this protocol and rejected on
   the way (not loaded, banned, world closed, waiting list, no place). *)
LoginRejected(p) ==
  /\ Next1("login", p) /\ inGame = NoPlayer
  /\ LET o == made + 1
     IN  /\ made' = o
         /\ owner' = [owner EXCEPT ![o] = p]
         /\ player' = [player EXCEPT ![p] = o]
         /\ refs' = [refs EXCEPT ![o] = 1]
  /\ ClosingProtocol({p}, Tail(taskList))
  /\ UNCHANGED <<kept, connects, inGame, connecting, accepts>>

(* LoginPlaced: the creature is placed without a reference of its own. *)
LoginPlacedUncounted(p) ==
  /\ Next1("login", p) /\ inGame = NoPlayer
  /\ LET o == made + 1
     IN  /\ made' = o /\ inGame' = o
         /\ owner' = [owner EXCEPT ![o] = p]
         /\ player' = [player EXCEPT ![p] = o]
         /\ refs' = [refs EXCEPT ![o] = 1]
  /\ accepts' = [accepts EXCEPT ![p] = TRUE]
  /\ taskList' = Tail(taskList)
  /\ UNCHANGED <<kept, conn, connects, connecting>>

(* ... or placed on the map: the protocol and the map hold a reference. *)
LoginPlaced(p) ==
  /\ Next1("login", p) /\ inGame = NoPlayer
  /\ LET o == made + 1
     IN  /\ made' = o /\ inGame' = o
         /\ owner' = [owner EXCEPT ![o] = p]
         /\ player' = [player EXCEPT ![p] = o]
         /\ refs' = [refs EXCEPT ![o] = 2]
  /\ accepts' = [accepts EXCEPT ![p] = TRUE]
  /\ taskList' = Tail(taskList)
  /\ UNCHANGED <<kept, conn, connects, connecting>>

(* login, the character is online: its client is disconnected and connect
   is scheduled for this protocol.  eventConnect belongs to the protocol,
   which has had no login before, so its test never stops a second one. *)
LoginReplaces(p) ==
  /\ Next1("login", p) /\ inGame # NoPlayer /\ TRUE \in ReplaceKick
  /\ ClosingProtocol({owner[inGame]} \ {Nobody}, Tail(taskList))
  /\ connecting' = [connecting EXCEPT ![inGame] = TRUE]
  /\ connects' = connects \cup {[of |-> p, to |-> inGame]}
  /\ UNCHANGED <<kept, made, inGame, owner, refs, player, accepts>>

(* "You are already logged in." *)
LoginRefused(p) ==
  /\ Next1("login", p) /\ inGame # NoPlayer /\ FALSE \in ReplaceKick
  /\ ClosingProtocol({p}, Tail(taskList))
  /\ UNCHANGED <<kept, connects, objVars, protVars>>

(* Connect: take the player over although it still has a client. *)
ConnectAnyway(c) ==
  /\ c \in connects /\ connects' = connects \ {c}
  /\ c.to = inGame /\ conn[c.of] # "destroyed"
  /\ player' = [player EXCEPT ![c.of] = c.to]
  /\ owner' = [owner EXCEPT ![c.to] = c.of]
  /\ refs' = [refs EXCEPT ![c.to] = @ + 1]
  /\ connecting' = [connecting EXCEPT ![c.to] = FALSE]
  /\ accepts' = [accepts EXCEPT ![c.of] = TRUE]
  /\ kept' = FALSE /\ UNCHANGED <<netVars, made, inGame>>

(* connect, a second later.  It fails when the player is gone or has got a
   client meanwhile; it gives up, leaving isConnecting as it is, when the
   Connection object no longer exists. *)
Connect(c) ==
  /\ c \in connects /\ connects' = connects \ {c}
  /\ \/ /\ c.to # inGame \/ owner[c.to] # Nobody
        /\ ClosingProtocol({c.of}, taskList)
        /\ UNCHANGED <<kept, objVars, protVars>>
     \/ /\ c.to = inGame /\ owner[c.to] = Nobody
        /\ conn[c.of] = "destroyed"
        /\ UNCHANGED <<kept, netVars, objVars, protVars>>
     \/ /\ c.to = inGame /\ owner[c.to] = Nobody
        /\ conn[c.of] # "destroyed"
        /\ player' = [player EXCEPT ![c.of] = c.to]
        /\ owner' = [owner EXCEPT ![c.to] = c.of]
        /\ refs' = [refs EXCEPT ![c.to] = @ + 1]
        /\ connecting' = [connecting EXCEPT ![c.to] = FALSE]
        /\ accepts' = [accepts EXCEPT ![c.of] = TRUE]
        /\ kept' = FALSE /\ UNCHANGED <<netVars, made, inGame>>

(* removeCreature: the map's reference goes to releaseThings and is dropped
   by the next cleanup. *)
LeavesGame(o) ==
  /\ inGame' = IF inGame = o THEN NoPlayer ELSE inGame
  /\ refs' = IF inGame = o THEN [refs EXCEPT ![o] = @ - 1] ELSE refs
  /\ kept' = (kept /\ inGame # o)

(* logout by protocol p: its connection is closed and the creature removed. *)
LogoutBy(p, list) ==
  /\ ClosingProtocol({p}, list)
  /\ LeavesGame(player[p])
  /\ UNCHANGED <<connects, made, owner, connecting, protVars>>

Logout(p) ==
  /\ Next1("logout", p)
  /\ \/ player[p] # NoPlayer /\ LogoutBy(p, Tail(taskList))
     \/ \* no player; or exhausted, in a fight, no-logout tile, or a script
        /\ taskList' = Tail(taskList)
        /\ UNCHANGED <<kept, conn, connects, objVars, protVars>>

(* release: resets the owner if it is this protocol, drops its reference. *)
Release(p) ==
  /\ Next1("release", p) /\ taskList' = Tail(taskList)
  /\ LET o == player[p]
     IN  IF o # NoPlayer
           THEN /\ owner' = IF owner[o] = p THEN [owner EXCEPT ![o] = Nobody] ELSE owner
                /\ refs' = [refs EXCEPT ![o] = @ - 1]
                /\ player' = [player EXCEPT ![p] = NoPlayer]
           ELSE UNCHANGED <<owner, refs, player>>
  /\ UNCHANGED <<kept, conn, connects, made, inGame, connecting, accepts>>

(* Player::kick, by a game master, a script or the shutdown. *)
Kick ==
  /\ Kicks /\ inGame # NoPlayer
  /\ IF owner[inGame] # Nobody
       THEN LogoutBy(owner[inGame], taskList)
       ELSE /\ LeavesGame(inGame)
            /\ UNCHANGED <<netVars, connects, made, owner, connecting, protVars>>

(* A player without a client walks, is attacked, is refused by a script. *)
KeptOrNot ==
  /\ inGame # NoPlayer /\ owner[inGame] = Nobody /\ kept' = ~kept
  /\ UNCHANGED <<conn, taskList, connects, objVars, protVars>>

(* ThinkTimeout: forget the players that have no client. *)
ThinkTimeoutClientsOnly ==
  /\ inGame # NoPlayer /\ ~connecting[inGame]
  /\ owner[inGame] # Nobody /\ LogoutBy(owner[inGame], taskList)

(* Player::onThink: a minute without an answer to a ping logs the player out,
   unless a client is connecting to it or something keeps it in the world.
   What keeps one that has a client is a free choice: the step is not fair. *)
ThinkTimeout ==
  /\ inGame # NoPlayer /\ ~connecting[inGame]
  /\ IF owner[inGame] # Nobody
       THEN LogoutBy(owner[inGame], taskList)
       ELSE /\ ~kept /\ LeavesGame(inGame)
            /\ UNCHANGED <<netVars, connects, made, owner, connecting, protVars>>

RunTask ==
  \E p \in Protocols :
    \/ LoginRejected(p) \/ LoginPlaced(p) \/ LoginReplaces(p) \/ LoginRefused(p)
    \/ Logout(p) \/ Release(p)

SessionNext ==
  \/ \E p \in Protocols : Open(p) \/ HangUp(p) \/ DestroyProtocol(p) \/ AskLogout(p)
  \/ RunTask
  \/ \E c \in connects : Connect(c)
  \/ Kick \/ ThinkTimeout \/ KeptOrNot

SessionSpec == SessionInit /\ [][SessionNext]_sessionVars
-----------------------------------------------------------------------------
(* Two connections never drive the same character: a second login gets the
   player only after the first protocol has been released, however the
   closing, the release and the scheduled connect interleave.  And the owner
   of a player's client drives that player, so release always finds what it
   has to reset. *)
OneDriver ==
  /\ \A p, q \in Protocols :
       player[p] = player[q] /\ player[p] # NoPlayer => p = q
  /\ \A o \in Players : owner[o] # Nobody => player[owner[o]] = o

(* The reference count of a Player is the number of its holders: a protocol
   or the map never keeps an object that has been deleted, and an object
   nobody holds has been deleted. *)
RefsCountHolders ==
  \A o \in Players :
    refs[o] = Cardinality({p \in Protocols : player[p] = o})
                + IF inGame = o THEN 1 ELSE 0

(* A character without a client does not stay in the game for ever: it is
   logged out or taken over, unless isConnecting is left set or something
   keeps it in the world again and again. *)
AbandonedLeaves ==
  \A o \in Players :
    inGame = o /\ owner[o] = Nobody
      ~> (inGame # o \/ owner[o] # Nobody \/ connecting[o] \/ kept)

(* protocolgame.cpp:653, of the test isConnectionExpired: "ProtocolGame::
   release() has been called at this point and the Connection object no
   longer exists, so we return to prevent leakage of the Player".
   A protocol that owns a player is still going to be released. *)
NoPlayerLeak ==
  \A o \in Players :
    owner[o] # Nobody =>
      \/ conn[owner[o]] = "open"
      \/ Task("release", owner[o]) \in ToSet(taskList)
=============================================================================
