------------------------------- MODULE Houses -------------------------------
(***************************************************************************)
(* Houses: buying, selling to another player through a trade, and the      *)
(* rent that Houses::check collects (house.cpp, talkaction.cpp).           *)
(* Time is counted in days.  The trade is the window between its start and *)
(* the moment both accept; a player is in one at most.                     *)
(* Left out: guild halls, auctions, access lists, beds, the conditions of  *)
(* a purchase other than money and houses, and the moving of the goods;    *)
(* what else players do with their money.  Without BANK_SYSTEM nobody has  *)
(* gold in the bank.                                                       *)
(***************************************************************************)
EXTENDS Integers, FiniteSets

CONSTANTS Tenants,
          HouseCount,    \* the ids of the houses go from 1 to it
          Price, Rent,   \* in gold
          Period,        \* days a rent lasts
          Limit,         \* warningsLimit
          Purse, Bank, Deposit,  \* bounds: gold a player starts with
          SkipInitRent,  \* the values of HOUSE_SKIP_INIT_RENT to look at
          NoTenant       \* an owner of 0

ASSUME HouseAssumption ==
  /\ HouseCount \in Nat /\ Price \in Nat /\ Rent \in Nat \ {0} /\ Period \in Nat \ {0}
  /\ Limit \in Nat /\ Purse \cup Bank \cup Deposit \subseteq Nat
  /\ SkipInitRent \subseteq BOOLEAN /\ NoTenant \notin Tenants

Flats == 1..HouseCount

VARIABLES
  flat,   \* each house's fields, see Vacant
  gold,   \* what each player carries, has in the bank and in the town's depot
  sales,  \* open trades of a transfer document
  taken   \* history: houses the last check took without regard to the rent
houseVars == <<flat, gold, sales, taken>>

NeverPaid == -1   \* a paidUntil of 0
Vacant == [owner |-> NoTenant,
           paid |-> NeverPaid,   \* paidUntil, in days from today, 0 when it is over
           warned |-> FALSE,     \* lastWarning is less than a day ago
           rentWarnings |-> 0,
           letters |-> 0,        \* history: warnings this owner got since the last
           lost |-> 0]           \* rent, and warnings that did not come to be read

HouseInit == /\ flat = [h \in Flats |-> Vacant]
             /\ gold \in [Tenants -> [purse : Purse, bank : Bank, depot : Deposit]]
             /\ sales = {} /\ taken = {}

Rents(p) == \E h \in Flats : flat[h].owner = p
InSale(p) == \E s \in sales : p \in {s.seller, s.buyer}

(* Mutant: the warnings of the last owner stay. *)
WithOwnerWarned(f, p) ==
  IF f.owner = p THEN f
  ELSE [Vacant EXCEPT !.owner = p, !.warned = p # NoTenant, !.rentWarnings = f.rentWarnings]

(* House::setOwnerEx *)
WithOwner(f, p) ==
  IF f.owner = p THEN f
  ELSE LET kept == IF f.owner = NoTenant THEN f ELSE [f EXCEPT !.rentWarnings = 0, !.paid = NeverPaid]
       IN  [kept EXCEPT !.owner = p, !.warned = p # NoTenant, !.letters = 0, !.lost = 0]

(* payRent: the whole rent from the bank, or else from the depot; what it leaves
   in the house *)
CanPay(g) == g.bank >= Rent \/ g.depot >= Rent
Charged(g) == IF g.bank >= Rent THEN [g EXCEPT !.bank = @ - Rent]
              ELSE [g EXCEPT !.depot = @ - Rent]
RentPaid(f) == [f EXCEPT !.paid = Period, !.warned = FALSE, !.rentWarnings = 0,
                         !.letters = 0, !.lost = 0]

(* A warning counts whether or not its letter comes to be read: the depot may be
   full, and a player who is not online may not be saved. *)
Warned(f, arrives) ==
  LET g == [f EXCEPT !.warned = TRUE, !.rentWarnings = @ + 1]
  IN  IF arrives THEN [g EXCEPT !.letters = @ + 1] ELSE [g EXCEPT !.lost = @ + 1]
-----------------------------------------------------------------------------
(* TalkAction::houseBuy, with gold the buyer carries *)
Buy(p, h) ==
  /\ ~Rents(p) /\ flat[h].owner = NoTenant /\ gold[p].purse >= Price
  /\ gold' = [gold EXCEPT ![p].purse = @ - Price]
  /\ \E skip \in SkipInitRent :
       LET f == WithOwner(flat[h], p)
       IN  flat' = [flat EXCEPT ![h] = IF skip THEN [f EXCEPT !.paid = Period, !.warned = FALSE]
                                       ELSE f]
  /\ taken' = {} /\ UNCHANGED sales

(* TalkAction::houseSell of the first house that getHouseByPlayerId finds;
   payRent has no time here, so that a rent that was ever paid will do. *)
Sell(p, q, h) ==
  /\ flat[h].owner = p /\ p # q /\ ~Rents(q)
  /\ \A k \in Flats : k < h => flat[k].owner # p
  /\ \/ flat[h].paid # NeverPaid /\ UNCHANGED <<flat, gold>>
     \/ /\ flat[h].paid = NeverPaid /\ CanPay(gold[p])
        /\ flat' = [flat EXCEPT ![h] = RentPaid(@)]
        /\ gold' = [gold EXCEPT ![p] = Charged(@)]
  /\ sales' = IF InSale(p) \/ InSale(q) THEN sales
              ELSE sales \cup {[seller |-> p, buyer |-> q, house |-> h]}
  /\ taken' = {}

(* TransferItem::onTradeEvent, when both have accepted and when not *)
Transfer(s) == /\ flat' = [flat EXCEPT ![s.house] = WithOwner(@, s.buyer)]
               /\ sales' = sales \ {s} /\ taken' = {} /\ UNCHANGED gold
CancelSale(s) == sales' = sales \ {s} /\ taken' = {} /\ UNCHANGED <<flat, gold>>

NewDay == /\ flat' = [h \in Flats |-> [flat[h] EXCEPT !.warned = FALSE,
                                          !.paid = IF @ > 0 THEN @ - 1 ELSE @]]
          /\ taken' = {} /\ UNCHANGED <<gold, sales>>

(* What payHouse finds out about the owner of a house: nobody by the name, no
   premium time left or a long absence (the house is taken), a player who cannot
   be loaded or need not pay (it is passed over), one whose letter or payment
   is lost because the depot is full or savePlayer fails, or none of these. *)
Fates == {"taken", "skipped", "unsaved", "normal"}

(* Houses::payHouse *)
PayHouse(w, h, fate) ==
  LET f == w.flat[h]
  IN  IF f.owner = NoTenant \/ f.paid > 0 \/ fate = "skipped" THEN w
      ELSE IF fate = "taken"
      THEN [w EXCEPT !.flat[h] = WithOwner(@, NoTenant), !.taken = @ \cup {h}]
      ELSE IF CanPay(w.gold[f.owner])
      THEN [w EXCEPT !.flat[h] = RentPaid(@),
                     !.gold[f.owner] = IF fate = "unsaved" THEN @ ELSE Charged(@)]
      ELSE IF f.warned THEN w
      ELSE IF f.rentWarnings >= Limit THEN [w EXCEPT !.flat[h] = WithOwner(@, NoTenant)]
      ELSE [w EXCEPT !.flat[h] = Warned(@, fate = "normal")]

(* Houses::check: at startup, at the global save and on the admin's command;
   the houses come in the order of their ids. *)
Paid(fates) ==
  LET paid[h \in 0..HouseCount] ==
        IF h = 0 THEN [flat |-> flat, gold |-> gold, taken |-> {}]
        ELSE PayHouse(paid[h-1], h, fates[h])
  IN  paid[HouseCount]

Check == /\ \E fates \in [Flats -> Fates] :
              LET w == Paid(fates)
              IN  flat' = w.flat /\ gold' = w.gold /\ taken' = w.taken
         /\ UNCHANGED sales

HouseNext ==
  \/ \E p \in Tenants, h \in Flats : Buy(p, h) \/ \E q \in Tenants : Sell(p, q, h)
  \/ \E s \in sales : Transfer(s) \/ CancelSale(s)
  \/ NewDay \/ Check

HouseSpec == HouseInit /\ [][HouseNext]_houseVars
-----------------------------------------------------------------------------
(* Who loses a house for its rent was warned Limit times about this house and
   since the last rent, by letters that came or were lost, and has the rent
   neither in the bank nor in the depot: warnings are not inherited from the
   owner before nor kept from a rent that was paid.  A house that is taken for
   another reason (no premium time, a long absence) is taken without a warning. *)
WarnedBeforeLost ==
  [][\A h \in Flats : flat[h].owner # NoTenant /\ flat'[h].owner = NoTenant =>
       \/ h \in taken'
       \/ /\ flat[h].letters + flat[h].lost = Limit
          /\ ~CanPay(gold'[flat[h].owner])]_houseVars

(* What houseBuy and houseSell say they see to: "You already rent another
   house.", "Trade player already rents another house." *)
OneHouse == \A p \in Tenants : Cardinality({h \in Flats : flat[h].owner = p}) <= 1
=============================================================================
