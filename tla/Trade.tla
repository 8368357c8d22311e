-------------------------------- MODULE Trade --------------------------------
(***************************************************************************)
(* Trading between players: Game::playerRequestTrade, internalStartTrade,  *)
(* playerAcceptTrade, internalCloseTrade, and the notifications by which a *)
(* Player closes its trade when the things on offer move.  Every action is *)
(* one Dispatcher task.  Items lie in a tree: in an inventory, on the      *)
(* floor near the traders, or in a box.                                    *)
(***************************************************************************)
EXTENDS Integers, FiniteSets

CONSTANTS
  Players,   \* the players near each other
  Items,     \* the items in play
  Boxes,     \* the containers among them
  Floor,     \* the tiles around the players
  Gone,      \* where a destroyed item is
  Nobody,    \* NULL for a player
  Nothing,   \* NULL for an item
  Capacity   \* how many items each player can carry

ASSUME TradeAssumption ==
  /\ IsFiniteSet(Players) /\ IsFiniteSet(Items) /\ Boxes \subseteq Items
  /\ Floor \notin Items \cup Players /\ Gone \notin Items \cup Players \cup {Floor}
  /\ Players \cap Items = {}
  /\ Nobody \notin Players /\ Nothing \notin Items
  /\ Capacity \in [Players -> Nat]

VARIABLES
  parent,        \* Thing::getParent of every item
  tradeState,    \* of every player
  tradePartner,
  tradeItem,
  tradeItems,    \* Game::tradeItems: who has put the item up for trade
  shown          \* what the partner was shown: the offer and its contents

tradeVars == <<tradeState, tradePartner, tradeItem, tradeItems, shown>>
vars == <<parent, tradeVars>>

Places == Players \cup {Floor, Gone}

-----------------------------------------------------------------------------
(* The tree of items: what i is in, directly or not; what c holds. *)

Above(par, i) ==
  LET up[n \in 0..Cardinality(Boxes)] ==
        IF n = 0 THEN {par[i]} ELSE up[n-1] \cup {par[j] : j \in up[n-1] \cap Boxes}
  IN  up[Cardinality(Boxes)]

isHoldingItem(par, c, i) == c \in Above(par, i)
Tree(par, c)  == {c} \cup {i \in Items : isHoldingItem(par, c, i)}
Root(par, i)  == CHOOSE r \in Above(par, i) : r \in Places
Carried(par, p) == {i \in Items : isHoldingItem(par, p, i)}

(* __queryAdd: the player can carry the item and its contents. *)
Fits(par, p, i) ==
  \/ Root(par, i) = p
  \/ Cardinality(Carried(par, p)) + Cardinality(Tree(par, i)) <= Capacity[p]

(* __queryDestination: any box of the player. *)
DestinationsAnywhere(par, p) == {p} \cup (Carried(par, p) \cap Boxes)

(* __queryDestination skips what the player has put up for trade. *)
Destinations(par, p) ==
  {p} \cup ((Carried(par, p) \cap Boxes) \ Tree(par, tradeItem[p]))

Init ==
  /\ parent \in [Items -> Players \cup {Floor}]
  /\ \A p \in Players : Cardinality(Carried(parent, p)) <= Capacity[p]
  /\ tradeState = [p \in Players |-> "none"]
  /\ tradePartner = [p \in Players |-> Nobody]
  /\ tradeItem = [p \in Players |-> Nothing]
  /\ tradeItems = [i \in Items |-> Nobody]
  /\ shown = [p \in Players |-> {}]

-----------------------------------------------------------------------------

(* internalCloseTrade for each player of P: its trade ends on both sides. *)
CloseTrades(P) ==
  LET both == P \cup ({tradePartner[p] : p \in P} \ {Nobody})
  IN  /\ tradeState' = [p \in Players |-> IF p \in both THEN "none" ELSE tradeState[p]]
      /\ tradePartner' = [p \in Players |-> IF p \in both THEN Nobody ELSE tradePartner[p]]
      /\ tradeItem' = [p \in Players |-> IF p \in both THEN Nothing ELSE tradeItem[p]]
      /\ tradeItems' = [i \in Items |-> IF tradeItems[i] \in both THEN Nobody ELSE tradeItems[i]]
      /\ shown' = [p \in Players |-> IF p \in both THEN {} ELSE shown[p]]

(* MayStart: the state of the partner is not looked at. *)
MayStartWithAnyone(p, q) ==
  \/ tradeState[p] = "none"
  \/ tradeState[p] = "acknowledge" /\ tradePartner[p] = q

MayStart(p, q) ==
  /\ \/ tradeState[p] = "none"
     \/ tradeState[p] = "acknowledge" /\ tradePartner[p] = q
  /\ tradeState[q] = "none" \/ tradePartner[q] = p

(* The item, something in it or something it is in is up for trade. *)
Reserved(i) ==
  \E j \in Items :
    /\ tradeItems[j] # Nobody
    /\ i = j \/ isHoldingItem(parent, i, j) \/ isHoldingItem(parent, j, i)

(* playerRequestTrade and internalStartTrade.  A trade event that denies
   the request, and every other refusal, changes nothing. *)
RequestTrade(p, q, i) ==
  /\ p # q /\ Root(parent, i) \in {p, Floor}
  /\ ~Reserved(i) /\ MayStart(p, q)
  /\ tradePartner' = [tradePartner EXCEPT
       ![p] = q, ![q] = IF tradeState[q] = "none" THEN p ELSE @]
  /\ tradeState' = [tradeState EXCEPT
       ![p] = "initiated", ![q] = IF @ = "none" THEN "acknowledge" ELSE @]
  /\ tradeItem' = [tradeItem EXCEPT ![p] = i]
  /\ tradeItems' = [tradeItems EXCEPT ![i] = p]
  /\ shown' = [shown EXCEPT ![p] = Tree(parent, i)]
  /\ UNCHANGED parent

MayAccept(p) ==
  tradeState[p] \in {"acknowledge", "initiated"} /\ tradePartner[p] # Nobody

(* The first of the two accepts; or the second, and a trade event denies:
   both stay in TRADE_ACCEPT until somebody closes the trade. *)
AcceptTrade(p) ==
  /\ MayAccept(p)
  /\ tradeState' = [tradeState EXCEPT ![p] = "accept"]
  /\ UNCHANGED <<parent, tradePartner, tradeItem, tradeItems, shown>>

(* What a player is told of the move of item x from parent to par closes
   its trade when it touches the offer.  Touches: only the offer itself. *)
TouchesItself(par, x, p) == tradeItem[p] = x

Touches(par, x, p) ==
  LET t == tradeItem[p] from == parent[x]
  IN  /\ t # Nothing
      /\ \/ t = x
         \/ isHoldingItem(parent, t, x) \/ isHoldingItem(par, t, x)
         \/ isHoldingItem(parent, x, t)
         \/ from \in Items /\ isHoldingItem(parent, from, t) /\ parent[t] # from

(* The two calls of internalAddItem that only test. *)
BothFit(p, q) == Fits(parent, q, tradeItem[p]) /\ Fits(parent, p, tradeItem[q])

(* The second accepts and the items change hands: first p's, then q's.  The
   traders, in TRADE_TRANSFER, ignore the moves; others may be touched. *)
SwapItems(p, q) ==
  /\ MayAccept(p) /\ tradePartner[p] = q /\ tradeState[q] = "accept"
  /\ tradeItem[p] # Nothing /\ tradeItem[q] # Nothing
  /\ BothFit(p, q)
  /\ \E d1 \in Destinations(parent, q) :
       LET par1 == [parent EXCEPT ![tradeItem[p]] = d1]
       IN  IF Fits(par1, p, tradeItem[q])
             THEN \E d2 \in Destinations(par1, p) :
                    parent' = [par1 EXCEPT ![tradeItem[q]] = d2]
             ELSE parent' = par1
  /\ CloseTrades({p, q} \cup {r \in Players \ {p, q} :
       Touches(parent', tradeItem[p], r) \/ Touches(parent', tradeItem[q], r)})

(* The second accepts, but one side has no item, an item does not fit, or
   one cannot be removed from where it is: the trade ends, nothing moves. *)
SwapFails(p, q) ==
  /\ MayAccept(p) /\ tradePartner[p] = q /\ tradeState[q] = "accept"
  /\ CloseTrades({p})
  /\ UNCHANGED parent

(* playerCloseTrade; or the player logs out, dies or steps away. *)
CloseTrade(p) == CloseTrades({p}) /\ UNCHANGED parent

-----------------------------------------------------------------------------
(* The world moves items, and tells the players. *)

(* Somebody drops, takes or repacks an item. *)
MoveItem(x, to) ==
  LET par == [parent EXCEPT ![x] = to]
  IN  /\ to # parent[x] /\ to \notin Tree(parent, x)
      /\ Root(parent, x) # Gone /\ Root(par, x) # Gone
      /\ Root(par, x) \in {Root(parent, x), Floor} \/ Root(parent, x) = Floor
      /\ Root(par, x) \in Players => Fits(parent, Root(par, x), x)
      /\ parent' = par
      /\ CloseTrades({p \in Players : Touches(par, x, p)})

(* An item decays to nothing or is used up, with what it holds. *)
RemoveItem(x) ==
  LET par == [parent EXCEPT ![x] = Gone]
  IN  /\ Root(parent, x) # Gone
      /\ parent' = par
      /\ CloseTrades({p \in Players : Touches(par, x, p)})

Next ==
  \/ \E p, q \in Players :
       \/ \E i \in Items : RequestTrade(p, q, i)
       \/ SwapItems(p, q) \/ SwapFails(p, q)
  \/ \E p \in Players : AcceptTrade(p) \/ CloseTrade(p)
  \/ \E x \in Items :
       \/ \E to \in Players \cup {Floor} \cup Boxes : MoveItem(x, to)
       \/ RemoveItem(x)

Spec == Init /\ [][Next]_vars

-----------------------------------------------------------------------------
(* Between two tasks nobody is in TRADE_TRANSFER. *)
TypeOK ==
  /\ parent \in [Items -> Places \cup Boxes]
  /\ tradeState \in [Players -> {"none", "initiated", "accept", "acknowledge"}]
  /\ tradePartner \in [Players -> Players \cup {Nobody}]
  /\ tradeItem \in [Players -> Items \cup {Nothing}]
  /\ tradeItems \in [Items -> Players \cup {Nobody}]
  /\ shown \in [Players -> SUBSET Items]

(* Trading is mutual: the tradePartner pointers of two players point at
   each other or nowhere, so closing one side ends the other as well and no
   pointer to a player that has logged out is left behind.  Game::tradeItems
   lists exactly the offers: an item never stays reserved when its trade has
   ended, whichever way it ended. *)
PartnersAgree ==
  \A p \in Players :
    /\ tradePartner[p] # Nobody => tradePartner[tradePartner[p]] = p
    /\ tradePartner[p] = Nobody <=> tradeState[p] = "none"
    /\ \A i \in Items : tradeItems[i] = p <=> tradeItem[p] = i

(* What is handed over is what was shown: while an offer is open nothing is
   taken out of its box or put into it, no item is promised to two players,
   even inside a box that was packed after the offer, and the offered item is
   with the one who made it, or on the floor. *)
OffersKept ==
  \A p \in Players : tradeItem[p] # Nothing =>
    /\ Tree(parent, tradeItem[p]) = shown[p]
    /\ Root(parent, tradeItem[p]) \in {p, Floor}
    /\ \A q \in Players \ {p} :
         tradeItem[q] # Nothing => shown[q] \cap Tree(parent, tradeItem[p]) = {}

(* The swap is atomic: an item on offer gets from its owner's hands into the
   partner's only when the counter item comes back in the same step. *)
SwapAtomic ==
  [][\A p, q \in Players :
       /\ tradePartner[p] = q /\ tradeItem[p] # Nothing
       /\ Root(parent, tradeItem[p]) = p /\ Root(parent', tradeItem[p]) = q
       => tradeItem[q] # Nothing /\ Root(parent', tradeItem[q]) = p]_vars
=============================================================================
