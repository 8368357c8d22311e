------------------------------ MODULE MCThings ------------------------------
(***************************************************************************)
(* What players own and meet: trades, containers, decaying items, houses   *)
(* and creatures.  The five share no state, so a behaviour exercises one   *)
(* of them and leaves the others in their initial states.                  *)
(***************************************************************************)
EXTENDS Trade, Containers, Decay, Houses, Creatures, TLC

CONSTANTS
  strong1, strong2, weak, box, bag, coin, sword,  \* Trade, Houses
  ring, worn, meat, rotten, torch, lit, body, chest, amulet, vanish, never,  \* Decay
  hero, wolf, rat                                 \* Creatures

VARIABLE part
worldVars == <<part, vars, thingVars, decayVars, houseVars, creatureVars>>

ThingsInit ==
  /\ Init /\ InsideInit /\ DecayInit /\ HouseInit /\ CreatureInit
  /\ part \in {"trade", "containers", "decay", "houses", "creatures"}
  /\ part = "trade" \/ parent = [i \in Items |-> Floor]
  /\ part = "houses" \/ \A p \in Tenants : gold[p].bank = 1 /\ gold[p].depot = 1

ThingsNext ==
  /\ UNCHANGED part
  /\ \/ /\ part = "trade" /\ Next
        /\ UNCHANGED <<thingVars, decayVars, houseVars, creatureVars>>
     \/ /\ part = "containers" /\ InsideNext
        /\ UNCHANGED <<vars, decayVars, houseVars, creatureVars>>
     \/ /\ part = "decay" /\ DecayNext
        /\ UNCHANGED <<vars, thingVars, houseVars, creatureVars>>
     \/ /\ part = "houses" /\ HouseNext
        /\ UNCHANGED <<vars, thingVars, decayVars, creatureVars>>
     \/ /\ part = "creatures" /\ CreatureNext
        /\ UNCHANGED <<vars, thingVars, decayVars, houseVars>>

ThingsSpec == ThingsInit /\ [][ThingsNext]_worldVars
-----------------------------------------------------------------------------
(* Trade: three players, one of whom carries less than the others, and two
   boxes that can be packed into each other. *)
MCPlayers  == {strong1, strong2, weak}
MCItems    == {box, bag, coin, sword}
MCBoxes    == {box, bag}
MCCapacity == [p \in MCPlayers |-> IF p = weak THEN 2 ELSE 3]

(* Containers: the chest has one place more than what lies in it. *)
MCSize == <<3, 2, 2>>

(* Decay: a ring that keeps its time while it is off, food that rots, a light
   that is put out, a body whose remains are no container, a chest that stays
   and an amulet whose time is kept by what is left of it. *)
MCKinds     == {ring, worn, meat, rotten, torch, lit, body, chest, amulet}
MCDecayTo   == [k \in MCKinds |-> CASE k \in {ring, torch} -> never
                                     [] k \in {meat, body, amulet} -> rotten
                                     [] OTHER -> vanish]
MCDecayTime == [k \in MCKinds |-> CASE k \in {ring, torch} -> 0 [] k = worn -> 6 [] OTHER -> 4]
MCStopTime  == [k \in MCKinds |-> k \in {ring, amulet}]
MCEquipTo   == [k \in MCKinds |-> CASE k = ring -> worn [] k = torch -> lit
                                     [] k = meat -> rotten [] OTHER -> never]
MCDeEquipTo == [k \in MCKinds |-> CASE k = worn -> ring [] k = lit -> torch [] OTHER -> never]
MCTypeOf    == [k \in MCKinds |-> k = body]

(* Creatures: one of the monsters is checked in the other round. *)
MCLot == [c \in {hero, wolf, rat} |-> IF c = rat THEN 1 ELSE 0]

(* Bound: one creature is removed and not yet forgotten, and one at a time is
   away from where the others are. *)
FewAway ==
  /\ Cardinality({c \in Creatures : creature[c].removed}) <= 1
  /\ Cardinality({c \in Creatures : creature[c].at = 2}) <= 1

(* Equal players, boxes and items are told apart by nothing but their names. *)
ThingsSymmetry ==
  Permutations({strong1, strong2}) \cup Permutations({box, bag})
    \cup Permutations({coin, sword})
=============================================================================
