------------------------------ MODULE Creatures ------------------------------
(***************************************************************************)
(* Creatures: placing and removing them, what they see come, go and move,  *)
(* summons, targets, and the rounds that let them think and bury them      *)
(* (game.cpp, creature.cpp, monster.cpp).  All of it runs on the           *)
(* Dispatcher; what is hard is the order of the callbacks one call makes   *)
(* and the references it takes.                                            *)
(*                                                                         *)
(* Abstracted: a position is a place, and a creature sees the creatures at *)
(* its place; whom a monster picks of those it may attack, and whether it  *)
(* does, is a choice; followCreature, conditions and despawning far from   *)
(* the spawn are left out, and no script denies a death.  Summons are not  *)
(* teleported to their master (TELEPORT_SUMMONS is off).                   *)
(***************************************************************************)
EXTENDS Integers, FiniteSetsExt

CONSTANTS PlayerIds, MonsterIds, Tiles,
          Vectors,            \* EVENT_CREATURECOUNT, 10
          Lot,                \* the vector each creature is put in, random in the code
          NoTile, NoCreature     \* no tile, no creature

ASSUME CreatureAssumption ==
  /\ PlayerIds \cap MonsterIds = {} /\ IsFiniteSet(PlayerIds \cup MonsterIds)
  /\ NoTile \notin Tiles /\ NoCreature \notin PlayerIds \cup MonsterIds
  /\ Vectors \in Nat \ {0}
  /\ Lot \in [PlayerIds \cup MonsterIds -> 0..(Vectors - 1)]

Creatures == PlayerIds \cup MonsterIds

VARIABLES
  creature,   \* the fields of each Creature and Monster, see Unborn
  checkIndex  \* checkCreatureLastIndex
creatureVars == <<creature, checkIndex>>

Unborn == [at |-> NoTile, removed |-> FALSE, alive |-> TRUE,
           master |-> NoCreature, summons |-> {}, attacked |-> NoCreature,
           targets |-> {}, friends |-> {}, idle |-> FALSE, inRange |-> TRUE,
           checked |-> FALSE, vec |-> -1,       \* checkVector
           queued |-> FALSE, listed |-> FALSE,  \* in toAddCheckCreatureVector, in its vector
           refs |-> 0, released |-> 0]          \* refCount, entries of releaseThings

CreatureInit == /\ creature = [c \in Creatures |-> Unborn]
                /\ checkIndex = 0

(* Here w is the state of all creatures in the middle of a handler. *)
Placed(w, c) == w[c].at # NoTile /\ ~w[c].removed
Sees(w, c, d) == Placed(w, d) /\ w[d].at = w[c].at
At(w, p) == {c \in Creatures : Placed(w, c) /\ w[c].at = p}
ForAll(Op(_, _), w, S) == FoldSet(LAMBDA c, x : Op(x, c), w, S)

AddRef(w, c) == [w EXCEPT ![c].refs = @ + 1]
UnRef(w, c) == [w EXCEPT ![c].refs = @ - 1]
isSummon(w, m) == w[m].master # NoCreature
PlayerMaster(w, c) == w[c].master \in PlayerIds
-----------------------------------------------------------------------------
(* Game::addCreatureCheck and removeCreatureCheck *)
AddCheck(w, c) ==
  IF w[c].removed THEN w
  ELSE IF w[c].vec >= 0 THEN [w EXCEPT ![c].checked = TRUE]
  ELSE [AddRef(w, c) EXCEPT ![c].checked = TRUE, ![c].queued = TRUE, ![c].vec = Lot[c]]

RemoveCheck(w, c) == IF w[c].vec = -1 THEN w ELSE [w EXCEPT ![c].checked = FALSE]

(* clearTargetList and clearFriendList *)
ClearLists(w, m) ==
  [ForAll(UnRef, ForAll(UnRef, w, w[m].targets), w[m].friends)
     EXCEPT ![m].targets = {}, ![m].friends = {}]

SetIdle(w, m, idle) ==
  IF w[m].removed \/ ~w[m].alive THEN w
  ELSE LET v == [w EXCEPT ![m].idle = idle]
       IN  IF idle THEN RemoveCheck(ClearLists(v, m), m) ELSE AddCheck(v, m)

UpdateIdle(w, m) ==
  SetIdle(w, m, IF isSummon(w, m)
                THEN ~w[m].inRange \/ (w[m].master \in MonsterIds /\ w[w[m].master].idle)
                ELSE w[m].targets = {})

isFriend(w, m, c) ==
  IF PlayerMaster(w, m) THEN w[m].master \in {c, w[c].master}
  ELSE c \in MonsterIds /\ ~isSummon(w, c)
isOpponent(w, m, c) ==
  (PlayerMaster(w, m) /\ c # w[m].master) \/ c \in PlayerIds \/ PlayerMaster(w, c)

Befriend(w, m, c) ==
  IF isFriend(w, m, c) /\ c \notin w[m].friends
  THEN [AddRef(w, c) EXCEPT ![m].friends = @ \cup {c}] ELSE w
Oppose(w, m, c) ==
  IF isOpponent(w, m, c) /\ c \notin w[m].targets
  THEN [AddRef(w, c) EXCEPT ![m].targets = @ \cup {c}] ELSE w
OnFound(w, m, c) == UpdateIdle(Oppose(Befriend(w, m, c), m, c), m)

UpdateTargetList(w, m) ==
  LET lost(S) == {c \in S : ~w[c].alive \/ w[c].at # w[m].at}
      v == ForAll(UnRef, ForAll(UnRef, w, lost(w[m].friends)), lost(w[m].targets))
      u == [v EXCEPT ![m].friends = @ \ lost(@), ![m].targets = @ \ lost(@)]
      find(x, c) == OnFound(x, m, c)
  IN  ForAll(find, u, At(w, w[m].at) \ {m})
-----------------------------------------------------------------------------
(* Creature::setAttackedCreature, which orders the summons too *)
SetAttackedAlone(w, c, d) ==
  [w EXCEPT ![c].attacked = IF d = NoCreature \/ w[d].at = w[c].at THEN d ELSE NoCreature]
SetAttacked(w, c, d) ==
  LET order(x, s) == SetAttackedAlone(x, s, d)
      v == SetAttackedAlone(w, c, d)
  IN  IF v[c].attacked = d THEN ForAll(order, v, w[c].summons) ELSE v

Forget(w, c, d) == IF w[c].attacked = d /\ d # NoCreature THEN SetAttacked(w, c, NoCreature) ELSE w

(* Monster::selectTarget; keen are the monsters that choose to attack. *)
SelectTarget(w, m, c, keen) ==
  IF m \in keen /\ c \in w[m].targets /\ Sees(w, m, c) THEN SetAttacked(w, m, c) ELSE w

OnEnter(w, m, c) ==
  OnFound(IF w[m].master = c THEN UpdateIdle([w EXCEPT ![m].inRange = TRUE], m) ELSE w,
          m, c)

(* Mutant: the reference of the target list is not given back. *)
OnLeaveKeepsRef(w, m, c) ==
  LET u == [w EXCEPT ![m].inRange = @ /\ w[m].master # c, ![m].targets = @ \ {c}]
  IN  IF u[m].targets = {} \/ w[m].master = c THEN UpdateIdle(u, m) ELSE u

MasterLeft(w, m, c) ==
  IF isSummon(w, m) /\ w[m].master = c
  THEN UpdateIdle([w EXCEPT ![m].inRange = FALSE], m) ELSE w
FriendLeft(w, m, c) ==
  IF isFriend(w, m, c) /\ c \in w[m].friends
  THEN [UnRef(w, c) EXCEPT ![m].friends = @ \ {c}] ELSE w
IdleIfAlone(w, m) == IF w[m].targets = {} THEN UpdateIdle(w, m) ELSE w
OpponentLeft(w, m, c) ==
  IF isOpponent(w, m, c) /\ c \in w[m].targets
  THEN IdleIfAlone([UnRef(w, c) EXCEPT ![m].targets = @ \ {c}], m) ELSE w
OnLeave(w, m, c) ==
  OpponentLeft(FriendLeft(MasterLeft(w, m, c), m, c), m, c)

(* removeSummon, addSummon *)
RemoveSummon(w, c, s) ==
  IF s \in w[c].summons
  THEN [UnRef(w, s) EXCEPT ![c].summons = @ \ {s}, ![s].master = NoCreature]
  ELSE w
AddSummon(w, c, s) == [AddRef(w, s) EXCEPT ![s].master = c, ![c].summons = @ \cup {s}]

(* Mutant: the monster is not woken to die. *)
KillAsleep(w, c) == [w EXCEPT ![c].alive = FALSE]
(* Monster::changeHealth, down to nothing *)
Kill(w, c) ==
  [(IF c \in MonsterIds THEN SetIdle(w, c, FALSE) ELSE w) EXCEPT ![c].alive = FALSE]

DestroySummons(w, c) ==
  LET destroy(x, s) ==
        [UnRef(Kill(SetAttacked(x, s, NoCreature), s), s) EXCEPT ![s].master = NoCreature]
  IN  [ForAll(destroy, w, w[c].summons) EXCEPT ![c].summons = {}]
-----------------------------------------------------------------------------
(* Game::placeCreature: onCreatureAppear of all who see it, itself included,
   then the check. *)
Place(w, c, p) ==
  LET v == [AddRef(w, c) EXCEPT ![c].at = p]
      look(x, d) ==
        IF d \in PlayerIds THEN x
        ELSE IF d # c THEN OnEnter(x, d, c)
        ELSE LET y == IF isSummon(x, c)
                      THEN [x EXCEPT ![c].inRange = x[x[c].master].at = p] ELSE x
             IN  UpdateIdle(UpdateTargetList(y, c), c)
  IN  AddCheck(ForAll(look, v, At(v, p)), c)

(* Game::removeCreature.  The summons of the creature go after it, from the
   list of a master that is removed already and so keeps them. *)
OnDisappear(w, d, c) ==
  IF d \in PlayerIds THEN w ELSE IF d = c THEN SetIdle(w, c, TRUE) ELSE OnLeave(w, d, c)
LeaveMaster(w, c) ==
  IF w[c].master # NoCreature /\ ~w[w[c].master].removed
  THEN RemoveSummon(w, w[c].master, c) ELSE w
RemoveAlone(w, c) ==
  LET see(x, d) == OnDisappear(Forget(x, d, c), d, c)
      v == [ForAll(see, w, At(w, w[c].at)) EXCEPT ![c].removed = TRUE]
  IN  IF w[c].removed THEN w
      ELSE RemoveCheck([LeaveMaster(v, c) EXCEPT ![c].released = @ + 1], c)

(* Mutant: the summons stay. *)
RemoveWithoutSummons(w, c) == RemoveAlone(w, c)

RemoveSummons(w, c) == ForAll(RemoveAlone, w, w[c].summons)
RemoveCreature(w, c) == RemoveSummons(RemoveAlone(w, c), c)

(* onDeath of a monster or a player *)
GiveUp(w, c) ==
  IF c \in PlayerIds THEN w
  ELSE SetAttacked(ClearLists(DestroySummons(w, c), c), c, NoCreature)
Die(w, c) ==
  LET v == IF w[c].master # NoCreature THEN RemoveSummon(w, w[c].master, c) ELSE w
  IN  RemoveCreature(GiveUp(v, c), c)

(* Monster::onThink; a player's changes nothing here. *)
Hunt(w, m, keen) ==
  LET able == {c \in w[m].targets : Sees(w, m, c)}
      orders == w[w[m].master].attacked
  IN  IF w[m].idle THEN w
      ELSE IF ~isSummon(w, m) THEN
        IF able = {} THEN w ELSE SelectTarget(w, m, CHOOSE c \in able : TRUE, keen)
      ELSE IF w[m].attacked = NoCreature /\ orders # NoCreature THEN SelectTarget(w, m, orders, keen)
      ELSE w
Think(w, m, keen) == IF m \in PlayerIds THEN w ELSE Hunt(UpdateIdle(w, m), m, keen)
-----------------------------------------------------------------------------
(* ~Creature and ~Monster when the last reference goes. *)
Delete(w, c) ==
  LET free(x, s) == [UnRef(SetAttacked(x, s, NoCreature), s) EXCEPT ![s].master = NoCreature]
  IN  [ForAll(free, ClearLists(w, c), w[c].summons) EXCEPT ![c] = Unborn]
Settle(w) ==
  LET dead(x) == {c \in Creatures : x[c] # Unborn /\ x[c].refs = 0}
      sweep(c, x) == ForAll(Delete, x, dead(x))
  IN  FoldSet(sweep, w, Creatures)     \* a round for each creature is enough

(* Game::cleanup, the creatures among releaseThings *)
Cleanup(w) == [c \in Creatures |-> [w[c] EXCEPT !.refs = @ - w[c].released, !.released = 0]]

Step(w) == creature' = Settle(w) /\ UNCHANGED checkIndex

Enter(c, p) == creature[c] = Unborn /\ Step(Place(creature, c, p))

(* A player logs out or is kicked, a script removes a monster. *)
Leave(c) == Placed(creature, c) /\ Step(RemoveCreature(creature, c))

(* Tile::moveCreature: onCreatureMove of all who saw it go or see it come; far
   says whether summons left behind are too far away. *)
LeaveBehind(w, c) == ForAll(RemoveAlone, w, {s \in w[c].summons : w[s].at # w[c].at})
LoseSight(w, c) ==
  IF w[c].attacked # NoCreature /\ ~Sees(w, c, w[c].attacked)
  THEN SetAttacked(w, c, NoCreature) ELSE w
NearMaster(w, m) ==
  IF isSummon(w, m) THEN [w EXCEPT ![m].inRange = w[w[m].master].at = w[m].at] ELSE w
OnMove(w, c) ==
  IF c \in PlayerIds THEN w ELSE UpdateIdle(UpdateTargetList(NearMaster(w, c), c), c)

Meet(w, m, c) ==
  IF w[m].at = w[c].at THEN OnEnter(w, m, c) ELSE OnLeave(Forget(w, m, c), m, c)
NearMoved(w, m, c) ==
  IF w[m].master = c /\ w[m].at = w[c].at THEN [w EXCEPT ![m].inRange = TRUE] ELSE w
Notice(w, m, c, keen) ==
  IF isSummon(w, m) \/ ~isOpponent(w, m, c) \/ w[m].attacked # NoCreature THEN w
  ELSE SelectTarget(w, m, c, keen)
OnOtherMoves(w, d, c, keen) ==
  IF d \notin PlayerIds THEN Notice(UpdateIdle(NearMoved(Meet(w, d, c), d, c), d), d, c, keen)
  ELSE IF w[d].at = w[c].at THEN w ELSE Forget(w, d, c)

Walk(c, p, far, keen) ==
  LET old == creature[c].at
      w == [creature EXCEPT ![c].at = p]
      each(x, d) ==
        IF d # c THEN OnOtherMoves(x, d, c, keen)
        ELSE OnMove(LoseSight(IF far THEN LeaveBehind(x, c) ELSE x, c), c)
  IN  /\ Placed(creature, c) /\ creature[c].alive /\ old # p
      /\ far => creature[c].summons # {}
      /\ Step(ForAll(each, w, At(w, old) \cup At(w, p)))

(* drainHealth down to nothing *)
Slay(c) == /\ Placed(creature, c) /\ creature[c].alive
                /\ Step(Kill(creature, c))

(* Game::placeSummon, and Monster::doHealing of a monster with summons *)
Summon(c, m) ==
  /\ Placed(creature, c) /\ creature[c].alive /\ ~isSummon(creature, c)
  /\ m \in MonsterIds /\ creature[m] = Unborn
  /\ Step(Place(AddSummon(creature, c, m), m, creature[c].at))

(* No room for the summon: its only reference goes. *)
SummonFails(c, m) ==
  /\ Placed(creature, c) /\ creature[m] = Unborn /\ m \in MonsterIds
  /\ Step(RemoveSummon(AddSummon(creature, c, m), c, m))

(* Monster::convinceCreature, with onCreatureConvinced of those around *)
Convince(c, m) ==
  LET freed == IF isSummon(creature, m) THEN RemoveSummon(creature, creature[m].master, m)
               ELSE creature
      w == AddSummon(DestroySummons(SetAttacked(freed, m, NoCreature), m), c, m)
      v == UpdateIdle(UpdateTargetList(w, m), m)
      u == [v EXCEPT ![m].inRange = TRUE]
      look(x, d) ==
        IF d \in PlayerIds \/ d = c \/ ~(isFriend(x, d, m) \/ isOpponent(x, d, m)) THEN x
        ELSE UpdateIdle(UpdateTargetList(x, d), d)
  IN  /\ c \in PlayerIds /\ m \in MonsterIds /\ creature[m].master # c
      /\ creature[c].alive /\ creature[m].alive
      /\ Placed(creature, c) /\ Placed(creature, m) /\ creature[m].at = creature[c].at
      /\ Step(ForAll(look, u, At(u, u[m].at)))

(* Game::playerSetAttackedCreature *)
Attack(c, d) ==
  /\ c \in PlayerIds /\ Placed(creature, c) /\ c # d
  /\ d # NoCreature => Placed(creature, d)
  /\ Step(SetAttacked(creature, c, d))

(* Game::checkCreatures: one vector, and the memory of what was removed *)
CheckCreatures(keen) ==
  LET index == (checkIndex + 1) % Vectors
      w == [c \in Creatures |-> [creature[c] EXCEPT !.listed = @ \/ creature[c].queued,
                                                    !.queued = FALSE]]
      visit(x, c) ==
        IF ~x[c].checked
        THEN [x EXCEPT ![c].vec = -1, ![c].released = @ + 1, ![c].listed = FALSE]
        ELSE IF x[c].alive THEN Think(x, c, keen) ELSE Die(x, c)
  IN  /\ checkIndex' = index
      /\ creature' = Settle(Cleanup(ForAll(visit, w,
                        {c \in Creatures : w[c].listed /\ w[c].vec = index})))

(* The monsters that have a choice when c walks to p. *)
Asked(c, p) == {m \in MonsterIds \ {c} : creature[m].at = p /\ p # NoTile}

CreatureNext ==
  \/ \E c \in Creatures, p \in Tiles :
       \/ Enter(c, p)
       \/ \E far \in BOOLEAN, keen \in SUBSET Asked(c, p) : Walk(c, p, far, keen)
  \/ \E c \in Creatures : Leave(c) \/ Slay(c)
  \/ \E c \in Creatures, m \in MonsterIds : Summon(c, m) \/ SummonFails(c, m) \/ Convince(c, m)
  \/ \E c \in PlayerIds, d \in Creatures \cup {NoCreature} : Attack(c, d)
  \/ \E keen \in SUBSET {m \in MonsterIds : creature[m].vec = (checkIndex + 1) % Vectors} :
       CheckCreatures(keen)

CreatureSpec == CreatureInit /\ [][CreatureNext]_creatureVars
-----------------------------------------------------------------------------
Count(S) == Cardinality(S)
Flag(b) == IF b THEN 1 ELSE 0

(* Every reference to a creature has a holder and every holder a reference:
   the world (until it is released), the lists of those who see it, its
   master, the vector that checks it.  So what is held is never deleted under
   its holder, and what nobody holds does not stay in memory. *)
RefsHeld ==
  \A c \in Creatures :
    creature[c].refs =
        Flag(Placed(creature, c)) + creature[c].released
      + Flag(creature[c].queued) + Flag(creature[c].listed)
      + Count({m \in Creatures : c \in creature[m].targets})
      + Count({m \in Creatures : c \in creature[m].friends})
      + Count({m \in Creatures : c \in creature[m].summons})

(* What a creature in the world points at without a reference is in the world
   too: its target, in its sight, and its master, who knows it for a summon. *)
PointersGood ==
  \A c \in Creatures : Placed(creature, c) =>
    /\ creature[c].attacked # NoCreature => Sees(creature, c, creature[c].attacked)
    /\ creature[c].master # NoCreature =>
         /\ Placed(creature, creature[c].master)
         /\ c \in creature[creature[c].master].summons

(* Whoever has something to do at its next check is in a vector that is
   checked: a creature without health, which is buried there, whether it slept
   when it was killed or not, and a monster on its own that sees a living
   player, which is awake besides. *)
SoonVisited ==
  \A c \in Creatures : Placed(creature, c) =>
    LET sees == /\ c \in MonsterIds /\ ~isSummon(creature, c)
                /\ \E p \in PlayerIds : Sees(creature, c, p) /\ creature[p].alive
    IN  ~creature[c].alive \/ sees =>
          /\ creature[c].checked
          /\ creature[c].queued \/ creature[c].listed
          /\ creature[c].alive => ~creature[c].idle
=============================================================================
