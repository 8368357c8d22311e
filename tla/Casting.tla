------------------------------- MODULE Casting -------------------------------
(***************************************************************************)
(* Casting: a player's stream is watched by guests, who only watch, and by *)
(* players who visit it and return to their own character (protocolgame.   *)
(* cpp, spectators.h, player.h).  ProtocolGame and Player point at each    *)
(* other, and the references to Players are counted by hand.               *)
(* A takeover is the end of one protocol and Rejoin by another: how the    *)
(* two are scheduled is in Session.  A packet is handled in the state in   *)
(* which it was read.  Passwords, bans and mutes are left out: they only   *)
(* refuse, or disconnect.                                                  *)
(***************************************************************************)
EXTENDS Integers, FiniteSets

CONSTANTS Screens,           \* ProtocolGame objects
          Heroes,            \* Player objects
          MaxRefs,           \* bound on the references a visit is begun with
          NoScreen, NoHero   \* null pointers

ASSUME CastingAssumption ==
  /\ IsFiniteSet(Screens) /\ NoScreen \notin Screens
  /\ NoHero \notin Heroes /\ MaxRefs \in Nat

VARIABLES
  screen,  \* the fields of each ProtocolGame, see Waiting
  hero     \* the fields of each Player and its Spectators, see Unmade
castVars == <<screen, hero>>

Waiting == [over |-> FALSE, player |-> NoHero, old |-> NoHero,
            spectator |-> FALSE, visits |-> FALSE]  \* m_spectator, is_spectating
Unmade == [online |-> FALSE, refs |-> 0, owner |-> NoScreen,
           protocol |-> NoScreen,        \* p_protocol
           watchers |-> {}, live |-> FALSE, visiting |-> FALSE]  \* is_spectating

CastInit == screen = [s \in Screens |-> Waiting] /\ hero = [h \in Heroes |-> Unmade]

Fresh(s) == ~screen[s].over /\ screen[s].player = NoHero
Watchable(h) == hero[h].online /\ hero[h].live /\ hero[h].owner # NoScreen

(* Players nobody refers to any more are deleted. *)
Counted(S, H) == /\ screen' = S
                 /\ hero' = [h \in Heroes |-> IF H[h].refs = 0 THEN Unmade ELSE H[h]]
-----------------------------------------------------------------------------
(* login that makes a Player, and connect to one that has no client *)
Play(s, h) ==
  /\ Fresh(s) /\ hero[h] = Unmade
  /\ Counted([screen EXCEPT ![s].player = h],
             [hero EXCEPT ![h] = [Unmade EXCEPT !.online = TRUE, !.refs = 2,
                                                !.owner = s, !.protocol = s]])
Rejoin(s, h) ==
  /\ Fresh(s) /\ hero[h].online /\ hero[h].owner = NoScreen
  /\ Counted([screen EXCEPT ![s].player = h],
             [hero EXCEPT ![h].refs = @ + 1, ![h].owner = s])

Seated(H, s, h) == [H EXCEPT ![h].refs = @ + 1, ![h].watchers = @ \cup {s}]

(* spectate, of a client that logs in to watch *)
Spectate(s, h) ==
  /\ Fresh(s) /\ Watchable(h)
  /\ Counted([screen EXCEPT ![s].player = h, ![s].spectator = TRUE], Seated(hero, s, h))

(* doPlayerSpectate of a script, when player h asks for it, and spectatePlayer:
   they use the protocol that h was made for, whoever drives h now. *)
SpectatePlayer(h, to) ==
  LET s == hero[h].protocol
      old == screen[s].player
      asked == [hero EXCEPT ![h].visiting = TRUE]
  IN  /\ \E d \in Screens : screen[d].player = h /\ ~screen[d].spectator
      /\ hero[h].online /\ old # NoHero
      /\ hero[old].refs <= MaxRefs /\ hero[to].refs <= MaxRefs
      /\ IF Watchable(to)
         THEN Counted([screen EXCEPT ![s].player = to, ![s].old = old,
                                     ![s].spectator = TRUE, ![s].visits = TRUE],
                      Seated([asked EXCEPT ![old].owner = NoScreen], s, to))
         ELSE Counted(screen, asked)

(* Mutant: the next player is taken without a reference. *)
SpectatorTurnUncounted(s, to) ==
  LET h == screen[s].player
  IN  /\ screen[s].spectator /\ h # NoHero /\ to # h /\ Watchable(to)
      /\ Counted([screen EXCEPT ![s].player = to],
                 [hero EXCEPT ![h].refs = @ - 1, ![h].watchers = @ \ {s},
                              ![to].watchers = @ \cup {s}])

(* spectatorTurn, by the arrow keys; the streams to choose from are two or
   more. *)
SpectatorTurn(s, to) ==
  LET h == screen[s].player
  IN  /\ screen[s].spectator /\ h # NoHero /\ to # h /\ Watchable(to)
      /\ Cardinality({c \in Heroes : hero[c].online /\ hero[c].live}) > 1
      /\ Counted([screen EXCEPT ![s].player = to],
                 Seated([hero EXCEPT ![h].refs = @ - 1, ![h].watchers = @ \ {s}], s, to))

(* returnPlayer of the protocols R: the players watched keep the references,
   and of those that return to one player the last becomes its client. *)
Returned(R) ==
  [s \in Screens |->
    IF s \in R THEN [screen[s] EXCEPT !.spectator = FALSE, !.visits = FALSE,
                                      !.player = screen[s].old]
    ELSE screen[s]]
Back(R, h) == {s \in R : screen[s].old = h}
Welcomed(R, last) ==
  [h \in Heroes |->
    [hero[h] EXCEPT !.watchers = @ \ {s \in R : screen[s].player = h},
                    !.refs = @ + Cardinality(Back(R, h)),
                    !.owner = IF Back(R, h) = {} THEN @ ELSE last[h]]]

(* parseLogout of a player who visits *)
EndVisit(s) ==
  /\ screen[s].spectator /\ screen[s].visits /\ screen[s].player # NoHero
  /\ Counted(Returned({s}),
             [Welcomed({s}, [h \in Heroes |-> s])
                EXCEPT ![screen[s].old].visiting = FALSE])

(* Spectators::clear, of a player who goes or stays.  Visitors return, and each
   takes itself out of the map that is being walked through, so that the loop
   may end with any of them; guests are disconnected.  With a visitor that is
   over, and has no player, returnPlayer crashes the server: there is no such
   step. *)
Clears(h, goes) ==
  LET visitors == {s \in hero[h].watchers : screen[s].visits}
  IN  \E R \in SUBSET visitors : \E last \in [{screen[s].old : s \in R} -> R] :
        /\ visitors # {} => R # {}
        /\ \A s \in R : screen[s].player # NoHero
        /\ \A x \in DOMAIN last : last[x] \in Back(R, x)
        /\ Counted(Returned(R),
                   [Welcomed(R, last) EXCEPT
                      ![h].watchers = {}, ![h].live = FALSE,
                      ![h].online = @ /\ ~goes,
                      ![h].refs = IF goes THEN @ - 1 ELSE @])

(* doPlayerSetSpectators *)
StartCast(h) == /\ hero[h].online /\ ~hero[h].live
                /\ Counted(screen, [hero EXCEPT ![h].live = TRUE])
StopCast(h) == hero[h].live /\ Clears(h, FALSE)

(* logout, kick, the time-out and death: onCreatureDisappear clears the list,
   and the map gives its reference back. *)
HeroLeaves(h) == hero[h].online /\ Clears(h, TRUE)

(* release, whatever closed the connection *)
ScreenOff(s) ==
  LET h == screen[s].player
  IN  /\ ~screen[s].over
      /\ Counted([screen EXCEPT ![s].over = TRUE, ![s].player = NoHero],
                 IF h = NoHero THEN hero
                 ELSE [hero EXCEPT ![h].refs = @ - 1,
                        ![h].owner = IF @ = s /\ ~screen[s].spectator THEN NoScreen ELSE @,
                        ![h].watchers = IF screen[s].spectator /\ hero[h].live
                                        THEN @ \ {s} ELSE @])

(* A protocol that nothing refers to any more is deleted, and its place taken
   by that of a new connection. *)
NewScreen(s) ==
  /\ screen[s].over
  /\ \A h \in Heroes : s \notin {hero[h].owner, hero[h].protocol} \cup hero[h].watchers
  /\ Counted([screen EXCEPT ![s] = Waiting], hero)

CastNext ==
  \/ \E s \in Screens, h \in Heroes :
       Play(s, h) \/ Rejoin(s, h) \/ Spectate(s, h) \/ SpectatorTurn(s, h)
  \/ \E h, to \in Heroes : SpectatePlayer(h, to)
  \/ \E h \in Heroes : StartCast(h) \/ StopCast(h) \/ HeroLeaves(h)
  \/ \E s \in Screens : EndVisit(s) \/ ScreenOff(s) \/ NewScreen(s)

CastSpec == CastInit /\ [][CastNext]_castVars
-----------------------------------------------------------------------------
(* No Player is deleted while the map has it, a protocol plays or watches it,
   or a visitor is to return to it: visits give too few references back, and
   never one too many. *)
PlayersStay ==
  \A h \in Heroes :
    hero[h].refs >=
        Cardinality({s \in Screens : screen[s].player = h})
      + Cardinality({s \in Screens : screen[s].visits /\ ~screen[s].over /\ screen[s].old = h})
      + IF hero[h].online THEN 1 ELSE 0

(* protocolgame.cpp:648, of connect: "You are already logged in."  Two clients
   never play the same player. *)
OneClient ==
  \A s, t \in Screens : s # t /\ screen[s].player = screen[t].player =>
    \/ screen[s].player = NoHero
    \/ screen[s].spectator \/ screen[t].spectator
=============================================================================
