------------------------------ MODULE Containers -----------------------------
(***************************************************************************)
(* Containers and stacks: Game::internalMoveItem, internalAddItem and      *)
(* internalRemoveItem on Container's __query and __add/__update/           *)
(* __removeThing, as playerMoveItem calls them.  A container keeps a list  *)
(* of stacks of coins and of other containers; what is added goes to the   *)
(* front.  Left out: the weight a player can carry and the limit of 220    *)
(* items, which only refuse, and slots of the body.                        *)
(***************************************************************************)
EXTENDS Integers, FiniteSets, SequencesExt

CONSTANTS
  BagCount,  \* the containers are numbered, the chest is the first
  MaxSize,   \* capacity() of each
  MaxStack,  \* how many coins make a full stack, 100
  MaxCoins   \* bound: coins in the world

Bags == 1..BagCount
Chest == 1  \* the one that stays where it is
NoBag == 0  \* the container that a stack of coins is

ASSUME ContainerAssumption ==
  /\ BagCount \in Nat \ {0}
  /\ MaxSize \in [Bags -> Nat \ {0}] /\ MaxStack \in Nat \ {0} /\ MaxCoins \in Nat

VARIABLES
  inside,  \* itemlist of each container
  minted   \* history: the coins that were made and not destroyed
thingVars == <<inside, minted>>

Coins(n) == [coins |-> n, bag |-> NoBag]
Bag(b) == [coins |-> 0, bag |-> b]
isStackable(e) == e.bag = NoBag

InsideInit ==
  /\ inside = [b \in Bags |-> IF b = Chest THEN [i \in 1..(BagCount - 1) |-> Bag(i + 1)]
                              ELSE <<>>]
  /\ minted = 0

Wherever == -1   \* INDEX_WHEREEVER
Up == 254        \* the window's arrow to the parent

Holds(c, b) == \E i \in DOMAIN inside[c] : inside[c][i].bag = b
(* The containers b is in, and itself: what belongs to every set that has b
   and, with a container, the one that holds it. *)
AboveOf(b) ==
  {a \in Bags : \A C \in SUBSET Bags :
     b \in C /\ (\A c, d \in Bags : d \in C /\ Holds(c, d) => c \in C) => a \in C}

(* The sum of a sequence of numbers. *)
Total(f) == LET sum[i \in 0..Len(f)] == IF i = 0 THEN 0 ELSE sum[i-1] + f[i]
            IN  sum[Len(f)]

Free(b) == IF Len(inside[b]) < MaxSize[b] THEN MaxSize[b] - Len(inside[b]) ELSE 0
Room(e) == IF isStackable(e) THEN MaxStack - e.coins ELSE 0
-----------------------------------------------------------------------------
(* __queryDestination, until it returns the container it is asked of: the
   container, the index, and the position of destItem, 0 for none.  Positions
   of a sequence start at 1, the code's indices at 0. *)
Destination(from, e, to, index) ==
  LET parents == {c \in Bags : Holds(c, to)}
      inner == index + 1 \in DOMAIN inside[to] /\ inside[to][index + 1].bag # NoBag
      stacks(b) == IF isStackable(e) /\ b # from
                   THEN {i \in DOMAIN inside[b] : Room(inside[b][i]) > 0} ELSE {}
      at(b, i) == IF stacks(b) # {}
                  THEN [bag |-> b, index |-> Max(stacks(b)), item |-> Max(stacks(b))]
                  ELSE [bag |-> b, index |-> i,
                        item |-> IF i + 1 \in DOMAIN inside[b] THEN i + 1 ELSE 0]
  IN  IF index = Up
      THEN IF parents = {} THEN [bag |-> to, index |-> Wherever, item |-> 0]
           ELSE at(CHOOSE c \in parents : TRUE, Wherever)
      ELSE IF index >= MaxSize[to] THEN at(to, Wherever)
      ELSE IF stacks(to) = {} /\ inner
           THEN at(inside[to][index + 1].bag, Wherever)
      ELSE at(to, index)

(* __queryAdd.  The mutant lets a container be put inside what it holds. *)
MayAddAnywhere(e, d) == d.index = Wherever => Free(d.bag) > 0

MayAdd(e, d) ==
  /\ isStackable(e) \/ e.bag \notin AboveOf(d.bag)
  /\ d.index = Wherever => Free(d.bag) > 0

(* __queryMaxCount: with an index, the item it looks at is the one before. *)
MaxCount(b, i, e, d) ==
  IF ~isStackable(e) THEN Free(d.bag)
  ELSE Free(d.bag) * MaxStack +
       IF d.index = Wherever
       THEN Total([j \in DOMAIN inside[d.bag] |->
                     IF <<d.bag, j>> = <<b, i>> THEN 0 ELSE Room(inside[d.bag][j])])
       ELSE IF d.index \in DOMAIN inside[d.bag] THEN Room(inside[d.bag][d.index]) ELSE 0

(* __updateThing of the stack at i, to which n coins are added. *)
WithMore(s, i, n) == [s EXCEPT ![i].coins = @ + n]

(* __removeThing of m coins of the stack at i, or of the item. *)
Without(s, i, m) ==
  IF isStackable(s[i]) /\ m < s[i].coins THEN [s EXCEPT ![i].coins = @ - m]
  ELSE RemoveAt(s, i)

(* internalMoveItem of count of what is at i in from. *)
MoveInside(from, i, count, to, index) ==
  LET e == inside[from][i]
      d == Destination(from, e, to, index)
      max == MaxCount(from, i, e, d)
      m == IF isStackable(e) THEN Min({count, max}) ELSE max
      stacked == IF isStackable(e) /\ d.item # 0
                 THEN Min({Room(inside[d.bag][d.item]), m}) ELSE 0
      merged == [inside EXCEPT ![d.bag] =
                  IF stacked = 0 THEN @ ELSE WithMore(@, d.item, stacked)]
      left == [merged EXCEPT ![from] = Without(@, i, m)]
  IN  /\ <<d.bag, d.item>> # <<from, i>>
      /\ MayAdd(e, d)
      /\ m > 0 /\ (isStackable(e) => m <= e.coins)
      /\ inside' = [left EXCEPT ![d.bag] =
                     IF ~isStackable(e) THEN <<e>> \o @
                     ELSE IF m > stacked THEN <<Coins(m - stacked)>> \o @ ELSE @]
      /\ UNCHANGED minted

(* internalAddItem of a new stack: its own call for the remainder goes from
   one stack that has room to the next. *)
Poured(s, n) ==
  LET left[i \in 1..(Len(s) + 1)] ==
        IF i > Len(s) THEN n
        ELSE LET rest == left[i+1] IN rest - Min({Room(s[i]), rest})
      filled == [i \in DOMAIN s |-> [s[i] EXCEPT !.coins = @ + left[i+1] - left[i]]]
  IN  IF left[1] > 0 THEN <<Coins(left[1])>> \o filled ELSE filled

AddCoins(b, n) ==
  /\ minted + n <= MaxCoins
  /\ n <= Free(b) * MaxStack + Total([j \in DOMAIN inside[b] |-> Room(inside[b][j])])
  /\ inside' = [inside EXCEPT ![b] = Poured(@, n)]
  /\ minted' = minted + n

(* internalRemoveItem. *)
SpendCoins(b, i, n) ==
  /\ isStackable(inside[b][i]) /\ n <= inside[b][i].coins
  /\ inside' = [inside EXCEPT ![b] = Without(@, i, n)]
  /\ minted' = minted - n

InsideNext ==
  \E b \in Bags :
    \/ \E n \in 1..MaxStack : AddCoins(b, n)
    \/ \E i \in DOMAIN inside[b], n \in 1..MaxStack :
         \/ SpendCoins(b, i, n)
         \/ \E to \in Bags : \E index \in (0..MaxSize[to]) \cup {Up} :
              MoveInside(b, i, n, to, index)

InsideSpec == InsideInit /\ [][InsideNext]_thingVars
-----------------------------------------------------------------------------
CoinsIn(s) == Total([i \in DOMAIN s |-> s[i].coins])

(* Moving, splitting and merging neither make nor lose coins, no stack is
   empty or above its limit, and no container is lost: each is in one place,
   and the chest holds them all, however they are packed into each other. *)
NothingLost ==
  /\ minted = Total([b \in Bags |-> CoinsIn(inside[b])])
  /\ \A b \in Bags : \A i \in DOMAIN inside[b] :
       isStackable(inside[b][i]) => inside[b][i].coins \in 1..MaxStack
  /\ \A b \in Bags :
       /\ Chest \in AboveOf(b)
       /\ Cardinality(UNION {{<<c, i>> : i \in {j \in DOMAIN inside[c] : inside[c][j].bag = b}}
                               : c \in Bags}) = (IF b = Chest THEN 0 ELSE 1)

(* container.cpp:497, of __addThing: "Failure: [Container::__addThing] size()
   >= capacity()".  A container never takes more than its capacity. *)
NeverOverfull == \A b \in Bags : Len(inside[b]) <= MaxSize[b]
=============================================================================
