---------------------------- MODULE Trade_proofs ----------------------------
(***************************************************************************)
(* Proofs about what players own and trade.                                *)
(* Trade, for every set of players, items and boxes and every capacity:    *)
(* trading is mutual, an item is reserved exactly while it is on offer,    *)
(* what is handed over is what was shown, and a swap moves both items or   *)
(* none.  Houses, for any number of them: who loses one was warned.        *)
(* Containers, for any number of them and any sizes: no coin and no        *)
(* container is lost.                                                      *)
(***************************************************************************)
EXTENDS Trade, Houses, Containers, FiniteSetTheorems, WellFoundedInduction, TLAPS

Types ==
  /\ tradeState \in [Players -> {"none", "initiated", "accept", "acknowledge"}]
  /\ tradePartner \in [Players -> Players \cup {Nobody}]
  /\ tradeItem \in [Players -> Items \cup {Nothing}]
  /\ tradeItems \in [Items -> Players \cup {Nobody}]

(* Who has only been asked, or has no trade, offers nothing. *)
OffersNothing ==
  \A p \in Players : tradeState[p] \in {"none", "acknowledge"} => tradeItem[p] = Nothing

IInv == Types /\ PartnersAgree /\ OffersNothing

-----------------------------------------------------------------------------
(* At first nobody trades. *)
LEMMA InitIInv == Init => IInv
  BY TradeAssumption DEF Init, IInv, Types, PartnersAgree, OffersNothing

(* Ending the trades of any players ends those of their partners, and only
   those: nobody is left with a partner that has none. *)
LEMMA CloseTradesKeeps ==
  ASSUME IInv, NEW P \in SUBSET Players, CloseTrades(P)
  PROVE  IInv'
<1> DEFINE both == P \cup ({tradePartner[p] : p \in P} \ {Nobody})
<1>1. /\ tradeState' = [p \in Players |-> IF p \in both THEN "none" ELSE tradeState[p]]
      /\ tradePartner' = [p \in Players |-> IF p \in both THEN Nobody ELSE tradePartner[p]]
      /\ tradeItem' = [p \in Players |-> IF p \in both THEN Nothing ELSE tradeItem[p]]
      /\ tradeItems' = [i \in Items |-> IF tradeItems[i] \in both THEN Nobody ELSE tradeItems[i]]
  BY DEF CloseTrades
<1>2. \A p \in Players \ both : tradePartner[p] \notin both
  <2> SUFFICES ASSUME NEW p \in Players, tradePartner[p] \in both PROVE p \in both
    OBVIOUS
  <2>1. tradePartner[p] # Nobody /\ tradePartner[tradePartner[p]] = p
    BY TradeAssumption DEF IInv, PartnersAgree
  <2>2. CASE tradePartner[p] \in P
    BY <2>1, <2>2, TradeAssumption
  <2>3. CASE \E s \in P : tradePartner[p] = tradePartner[s]
    BY <2>1, <2>3 DEF IInv, PartnersAgree
  <2> QED
    BY <2>2, <2>3
<1>3. Nobody \notin both
  BY TradeAssumption
<1> HIDE DEF both
<1>4. Types'
  BY <1>1 DEF IInv, Types
<1>5. PartnersAgree'
  <2> SUFFICES ASSUME NEW p \in Players
      PROVE  /\ tradePartner'[p] # Nobody => tradePartner'[tradePartner'[p]] = p
             /\ tradePartner'[p] = Nobody <=> tradeState'[p] = "none"
             /\ \A i \in Items : tradeItems'[i] = p <=> tradeItem'[p] = i
    BY DEF PartnersAgree
  <2>1. CASE p \in both
    BY <1>1, <1>3, <2>1, TradeAssumption DEF IInv, Types
  <2>2. CASE p \notin both
    <3>1. /\ tradePartner'[p] = tradePartner[p] /\ tradeState'[p] = tradeState[p]
          /\ tradeItem'[p] = tradeItem[p]
      BY <1>1, <2>2
    <3>2. \A i \in Items : tradeItems'[i] = p <=> tradeItems[i] = p
      BY <1>1, <2>2, TradeAssumption
    <3>3. tradePartner[p] # Nobody => tradePartner'[tradePartner[p]] = tradePartner[tradePartner[p]]
      BY <1>1, <1>2, <2>2 DEF IInv, Types
    <3> QED
      BY <3>1, <3>2, <3>3 DEF IInv, PartnersAgree
  <2> QED
    BY <2>1, <2>2
<1>6. OffersNothing'
  BY <1>1 DEF IInv, OffersNothing
<1> QED
  BY <1>4, <1>5, <1>6 DEF IInv

LEMMA StepIInv == IInv /\ [Next]_vars => IInv'
<1> SUFFICES ASSUME IInv, [Next]_vars PROVE IInv'
  OBVIOUS
<1> USE DEF IInv
<1>1. ASSUME NEW p \in Players, NEW q \in Players, NEW i \in Items, RequestTrade(p, q, i)
      PROVE  IInv'
  <2>1. /\ p # q /\ MayStart(p, q) /\ tradeItems[i] = Nobody
        /\ tradePartner' = [tradePartner EXCEPT
             ![p] = q, ![q] = IF tradeState[q] = "none" THEN p ELSE @]
        /\ tradeState' = [tradeState EXCEPT
             ![p] = "initiated", ![q] = IF @ = "none" THEN "acknowledge" ELSE @]
        /\ tradeItem' = [tradeItem EXCEPT ![p] = i]
        /\ tradeItems' = [tradeItems EXCEPT ![i] = p]
    BY <1>1 DEF RequestTrade, Reserved
  <2>2. tradeItem[p] = Nothing
    BY <2>1 DEF MayStart, OffersNothing
  <2>3. /\ tradePartner[p] \in {Nobody, q} /\ tradePartner[q] \in {Nobody, p}
        /\ tradePartner[q] = Nobody <=> tradeState[q] = "none"
    BY <2>1 DEF MayStart, PartnersAgree, Types
  <2>4. Types'
    BY <2>1 DEF Types
  <2>5. /\ tradePartner'[p] = q /\ tradePartner'[q] = p
        /\ tradeState'[p] = "initiated" /\ tradeState'[q] # "none"
        /\ tradeState'[q] \in {tradeState[q], "acknowledge"}
        /\ tradeState'[q] # tradeState[q] => tradeState[q] = "none"
        /\ \A r \in Players \ {p, q} :
             tradePartner'[r] = tradePartner[r] /\ tradeState'[r] = tradeState[r]
    BY <2>1, <2>3 DEF Types
  <2>6. /\ tradeItem'[p] = i /\ tradeItems'[i] = p
        /\ \A r \in Players \ {p} : tradeItem'[r] = tradeItem[r]
        /\ \A j \in Items \ {i} : tradeItems'[j] = tradeItems[j]
    BY <2>1 DEF Types
  <2>7. PartnersAgree'
    <3>1. ASSUME NEW r \in Players
          PROVE  /\ tradePartner'[r] # Nobody => tradePartner'[tradePartner'[r]] = r
                 /\ tradePartner'[r] = Nobody <=> tradeState'[r] = "none"
      <4>1. CASE r \in {p, q}
        BY <2>5, <4>1, TradeAssumption
      <4>2. CASE r \notin {p, q}
        <5>1. tradePartner[r] \notin {p, q}
          BY <2>3, <4>2, TradeAssumption DEF PartnersAgree
        <5> QED
          BY <2>5, <4>2, <5>1 DEF PartnersAgree, Types
      <4> QED
        BY <4>1, <4>2
    <3>2. ASSUME NEW r \in Players, NEW j \in Items
          PROVE  tradeItems'[j] = r <=> tradeItem'[r] = j
      <4>1. tradeItems[j] = r <=> tradeItem[r] = j
        BY DEF PartnersAgree
      <4> QED
        BY <2>1, <2>2, <2>6, <4>1, TradeAssumption
    <3> QED
      BY <3>1, <3>2 DEF PartnersAgree
  <2>8. OffersNothing'
    BY <2>1, <2>5, <2>6 DEF OffersNothing
  <2> QED
    BY <2>4, <2>7, <2>8
<1>2. ASSUME NEW p \in Players, NEW q \in Players, SwapItems(p, q) PROVE IInv'
  <2>1. PICK P \in SUBSET Players : CloseTrades(P)
    BY <1>2 DEF SwapItems
  <2> QED
    BY <2>1, CloseTradesKeeps
<1>3. ASSUME NEW p \in Players, NEW q \in Players, SwapFails(p, q) PROVE IInv'
  BY <1>3, CloseTradesKeeps DEF SwapFails
<1>4. ASSUME NEW p \in Players, AcceptTrade(p) PROVE IInv'
  <2>1. /\ tradeState' = [tradeState EXCEPT ![p] = "accept"]
        /\ tradeState[p] # "none" /\ tradePartner[p] # Nobody
        /\ UNCHANGED <<tradePartner, tradeItem, tradeItems>>
    BY <1>4 DEF AcceptTrade, MayAccept
  <2> QED
    BY <2>1 DEF Types, PartnersAgree, OffersNothing
<1>5. ASSUME NEW p \in Players, CloseTrade(p) PROVE IInv'
  BY <1>5, CloseTradesKeeps DEF CloseTrade
<1>6. ASSUME NEW x \in Items, NEW to, MoveItem(x, to) PROVE IInv'
  <2>1. PICK P \in SUBSET Players : CloseTrades(P)
    BY <1>6 DEF MoveItem
  <2> QED
    BY <2>1, CloseTradesKeeps
<1>7. ASSUME NEW x \in Items, RemoveItem(x) PROVE IInv'
  <2>1. PICK P \in SUBSET Players : CloseTrades(P)
    BY <1>7 DEF RemoveItem
  <2> QED
    BY <2>1, CloseTradesKeeps
<1>8. CASE UNCHANGED vars
  BY <1>8 DEF vars, tradeVars, Types, PartnersAgree, OffersNothing
<1> QED
  BY <1>1, <1>2, <1>3, <1>4, <1>5, <1>6, <1>7, <1>8 DEF Next

-----------------------------------------------------------------------------
(* Every set of numbers that is not empty has a least one. *)
LEMMA HasLeast ==
  ASSUME NEW S \in SUBSET Nat, S # {}
  PROVE  \E x \in S : \A y \in S : x =< y
<1>1. PICK x \in S : \A y \in S : ~(<<y, x>> \in OpToRel(<, Nat))
  BY NatLessThanWellFounded, WFMin
<1>2. OpToRel(<, Nat) = {ss \in Nat \X Nat : ss[1] < ss[2]}
  BY DEF OpToRel
<1>3. \A y \in S : x =< y
  <2> SUFFICES ASSUME NEW y \in S, y < x PROVE FALSE
    OBVIOUS
  <2>1. <<y, x>> \in {ss \in Nat \X Nat : ss[1] < ss[2]}
    OBVIOUS
  <2> QED
    BY <1>1, <1>2, <2>1
<1> QED
  BY <1>3

(* The function that Above is defined by, for m steps up. *)
Climbs(par, i, m, f) ==
  f = [n \in 0..m |-> IF n = 0 THEN {par[i]}
                      ELSE f[n-1] \cup {par[j] : j \in f[n-1] \cap Boxes}]

LEMMA ClimbExists ==
  ASSUME NEW par, NEW i, NEW m \in Nat
  PROVE  \E f : Climbs(par, i, m, f)
<1> DEFINE Bad == {k \in Nat : ~\E f : Climbs(par, i, k, f)}
<1>1. ASSUME Bad # {} PROVE FALSE
  <2>1. PICK k \in Bad : \A y \in Bad : k =< y
    BY <1>1, HasLeast
  <2>2. Climbs(par, i, 0, [n \in 0..0 |-> {par[i]}])
    BY DEF Climbs
  <2>3. k \in Nat \ {0} /\ k - 1 \in Nat /\ k - 1 \notin Bad
    BY <2>1, <2>2
  <2>4. PICK f : Climbs(par, i, k - 1, f)
    BY <2>3
  <2> DEFINE e == f[k-1] \cup {par[j] : j \in f[k-1] \cap Boxes}
             g == [n \in 0..k |-> IF n = k THEN e ELSE f[n]]
  <2>5. /\ \A n \in 0..(k-1) : n \in 0..k /\ n # k /\ g[n] = f[n]
        /\ g[k] = e /\ k - 1 \in 0..(k-1)
    BY <2>3
  <2>6. \A n \in 0..k :
          g[n] = IF n = 0 THEN {par[i]} ELSE g[n-1] \cup {par[j] : j \in g[n-1] \cap Boxes}
    <3> SUFFICES ASSUME NEW n \in 0..k
        PROVE  g[n] = IF n = 0 THEN {par[i]}
                      ELSE g[n-1] \cup {par[j] : j \in g[n-1] \cap Boxes}
      OBVIOUS
    <3>1. CASE n = k
      <4>1. g[n-1] = f[k-1] /\ n # 0
        BY <2>3, <2>5, <3>1
      <4> QED
        BY <2>5, <3>1, <4>1
    <3>2. CASE n # k
      <4>1. n \in 0..(k-1) /\ (n # 0 => n - 1 \in 0..(k-1))
        BY <2>3, <3>2
      <4> HIDE DEF g, e
      <4>2. f[n] = IF n = 0 THEN {par[i]}
                   ELSE f[n-1] \cup {par[j] : j \in f[n-1] \cap Boxes}
        BY <2>4, <4>1 DEF Climbs
      <4>3. n # 0 => g[n-1] = f[n-1]
        BY <2>5, <4>1
      <4> QED
        BY <2>5, <4>1, <4>2, <4>3
    <3> QED
      BY <3>1, <3>2
  <2>7. g = [n \in 0..k |-> g[n]]
    OBVIOUS
  <2> HIDE DEF g
  <2>8. Climbs(par, i, k, g)
    BY <2>6, <2>7 DEF Climbs
  <2> QED
    BY <2>8
<1> QED
  BY <1>1

(* Upwards closed: with a box, the set has what the box is in. *)
Closed(par, S) == \A j \in S \cap Boxes : par[j] \in S

(* What an item is in: the least set with its parent that is closed.  A step up
   that is still needed after Cardinality(Boxes) of them would have met more
   boxes than there are. *)
LEMMA AboveIs ==
  ASSUME NEW par, NEW i
  PROVE  /\ par[i] \in Above(par, i) /\ Closed(par, Above(par, i))
         /\ \A S : par[i] \in S /\ Closed(par, S) => Above(par, i) \subseteq S
<1> DEFINE C == Cardinality(Boxes)
           f == CHOOSE f : Climbs(par, i, C, f)
<1>1. IsFiniteSet(Boxes) /\ C \in Nat
  BY TradeAssumption, FS_Subset, FS_CardinalityType
<1>2. Climbs(par, i, C, f)
  <2> HIDE DEF C
  <2> QED
    BY <1>1, ClimbExists
<1>3. Above(par, i) = f[C]
  BY DEF Above, Climbs
<1> HIDE DEF f
<1>4. /\ f[0] = {par[i]}
      /\ \A n \in 0..(C-1) : f[n+1] = f[n] \cup {par[j] : j \in f[n] \cap Boxes}
  <2> HIDE DEF C
  <2>1. ASSUME NEW n \in 0..C
        PROVE  f[n] = IF n = 0 THEN {par[i]}
                      ELSE f[n-1] \cup {par[j] : j \in f[n-1] \cap Boxes}
    BY <1>2 DEF Climbs
  <2>2. 0 \in 0..C
    BY <1>1
  <2>3. f[0] = {par[i]}
    BY <2>1, <2>2
  <2>4. ASSUME NEW n \in 0..(C-1)
        PROVE  f[n+1] = f[n] \cup {par[j] : j \in f[n] \cap Boxes}
    <3>1. n + 1 \in 0..C /\ n + 1 # 0 /\ (n + 1) - 1 = n
      BY <1>1
    <3>2. f[n+1] = f[(n+1)-1] \cup {par[j] : j \in f[(n+1)-1] \cap Boxes}
      BY <2>1, <3>1
    <3> QED
      BY <3>1, <3>2
  <2> QED
    BY <2>3, <2>4
<1> DEFINE Grown(n) == Closed(par, f[n]) \/ Cardinality(f[n] \cap Boxes) >= n + 1
           Ok(n)    == /\ par[i] \in f[n] /\ Grown(n)
                       /\ \A S : par[i] \in S /\ Closed(par, S) => f[n] \subseteq S
<1>5. Ok(0)
  <2>1. f[0] = {par[i]}
    BY <1>4
  <2>2. CASE par[i] \in Boxes
    <3>1. f[0] \cap Boxes = {par[i]}
      BY <2>1, <2>2
    <3>2. Cardinality(f[0] \cap Boxes) = 1
      BY <3>1, FS_Singleton
    <3> QED
      BY <2>1, <3>2
  <2>3. CASE par[i] \notin Boxes
    BY <2>1, <2>3 DEF Closed
  <2> QED
    BY <2>2, <2>3
<1>6. ASSUME NEW n \in 0..(C-1), Ok(n) PROVE Ok(n+1)
  <2>0. n \in Nat
    BY <1>1
  <2>1. f[n+1] = f[n] \cup {par[j] : j \in f[n] \cap Boxes}
    BY <1>4
  <2>2. par[i] \in f[n+1] /\ \A S : par[i] \in S /\ Closed(par, S) => f[n+1] \subseteq S
    BY <1>6, <2>1 DEF Closed
  <2>3. CASE Closed(par, f[n])
    <3>1. f[n+1] = f[n]
      BY <2>1, <2>3 DEF Closed
    <3> QED
      BY <2>2, <2>3, <3>1
  <2>4. CASE ~Closed(par, f[n]) /\ ~Closed(par, f[n+1])
    <3>1. PICK j \in f[n+1] \cap Boxes : par[j] \notin f[n+1]
      BY <2>4 DEF Closed
    <3>2. j \notin f[n] \cap Boxes
      BY <2>1, <3>1
    <3> DEFINE A == f[n] \cap Boxes
               B == f[n+1] \cap Boxes
    <3>3. IsFiniteSet(A) /\ IsFiniteSet(B) /\ A \cup {j} \subseteq B
      BY <1>1, <2>1, <3>1, FS_Subset
    <3>4. /\ Cardinality(A) \in Nat /\ Cardinality(B) \in Nat
          /\ Cardinality(A) >= n + 1
      <4>1. Cardinality(A) >= n + 1
        BY <1>6, <2>4
      <4> QED
        BY <3>3, <4>1, FS_CardinalityType
    <3> HIDE DEF A, B
    <3>5. Cardinality(A \cup {j}) = Cardinality(A) + 1 /\ IsFiniteSet(A \cup {j})
      BY <3>2, <3>3, FS_AddElement DEF A
    <3>6. Cardinality(A \cup {j}) <= Cardinality(B)
      BY <3>3, <3>5, FS_Subset
    <3>7. Cardinality(B) >= (n + 1) + 1
      BY <2>0, <3>4, <3>5, <3>6
    <3> QED
      BY <2>2, <3>7 DEF B
  <2>5. CASE Closed(par, f[n+1])
    BY <2>2, <2>5
  <2> QED
    BY <2>3, <2>4, <2>5
<1> DEFINE Bad == {n \in 0..C : ~Ok(n)}
<1>7. ASSUME Bad # {} PROVE FALSE
  <2>0. Bad \in SUBSET Nat
    OBVIOUS
  <2>1. PICK n \in Bad : \A y \in Bad : n =< y
    <3> HIDE DEF Bad
    <3> QED
      BY <1>7, <2>0, HasLeast
  <2> HIDE DEF Ok
  <2>2. n \in 0..C /\ n # 0
    BY <1>5, <2>1
  <2>3. n - 1 \in 0..(C-1) /\ (n - 1) + 1 = n /\ n - 1 \in 0..C
    BY <1>1, <2>2
  <2>4. Ok(n - 1)
    BY <2>1, <2>3
  <2>5. Ok((n - 1) + 1)
    BY <1>6, <2>3, <2>4
  <2> QED
    BY <2>1, <2>3, <2>5
<1>8. Ok(C)
  <2> HIDE DEF Ok
  <2>1. C \in 0..C
    BY <1>1
  <2> QED
    BY <1>7, <2>1
<1>9. ~(Cardinality(f[C] \cap Boxes) >= C + 1)
  <2>1. Cardinality(f[C] \cap Boxes) <= C
    BY <1>1, FS_Subset
  <2>2. Cardinality(f[C] \cap Boxes) \in Nat
    BY <1>1, FS_Subset, FS_CardinalityType
  <2> QED
    BY <1>1, <2>1, <2>2
<1> QED
  BY <1>3, <1>8, <1>9

LEMMA Kinds ==
  /\ Boxes \subseteq Items /\ Places \cap Items = {}
  /\ \A p \in Players : p \in Places
  /\ Floor \in Places /\ Gone \in Places
  BY TradeAssumption DEF Places

(* One step up, and then what the box is in. *)
LEMMA AboveUp ==
  ASSUME NEW par, NEW i
  PROVE  /\ \A c \in Above(par, i) \cap Boxes : Above(par, c) \subseteq Above(par, i)
         /\ \A x \in Above(par, i) :
              x = par[i] \/ (par[i] \in Boxes /\ x \in Above(par, par[i]))
<1>1. ASSUME NEW c \in Above(par, i) \cap Boxes
      PROVE  Above(par, c) \subseteq Above(par, i)
  <2>1. par[c] \in Above(par, i) /\ Closed(par, Above(par, i))
    BY AboveIs DEF Closed
  <2> QED
    BY <2>1, AboveIs
<1> DEFINE S == {par[i]} \cup IF par[i] \in Boxes THEN Above(par, par[i]) ELSE {}
<1>2. Closed(par, S)
  <2> SUFFICES ASSUME NEW j \in S \cap Boxes PROVE par[j] \in S
    BY DEF Closed
  <2>1. CASE j = par[i]
    BY <2>1, AboveIs
  <2>2. CASE j # par[i]
    <3>1. par[i] \in Boxes /\ j \in Above(par, par[i])
      BY <2>2
    <3>2. par[j] \in Above(par, par[i])
      BY <3>1, AboveIs DEF Closed
    <3> QED
      BY <3>1, <3>2
  <2> QED
    BY <2>1, <2>2
<1>3. Above(par, i) \subseteq S
  <2>1. par[i] \in S
    OBVIOUS
  <2> HIDE DEF S
  <2> QED
    BY <1>2, <2>1, AboveIs
<1> QED
  BY <1>1, <1>3

(* Of two things that an item is in, one is in the other. *)
LEMMA InLine ==
  ASSUME NEW par, NEW i, NEW x \in Above(par, i), NEW y \in Above(par, i)
  PROVE  \/ x = y
         \/ y \in Boxes /\ x \in Above(par, y)
         \/ x \in Boxes /\ y \in Above(par, x)
<1> DEFINE S == {z \in Above(par, i) : \/ x = z
                                       \/ z \in Boxes /\ x \in Above(par, z)
                                       \/ x \in Boxes /\ z \in Above(par, x)}
<1>1. par[i] \in S
  BY AboveIs, AboveUp
<1>2. Closed(par, S)
  <2> SUFFICES ASSUME NEW z \in S \cap Boxes PROVE par[z] \in S
    BY DEF Closed
  <2>1. par[z] \in Above(par, i)
    BY AboveIs DEF Closed
  <2>2. CASE x = z
    BY <2>1, <2>2, AboveIs
  <2>3. CASE x \in Above(par, z)
    BY <2>1, <2>3, AboveUp
  <2>4. CASE x \in Boxes /\ z \in Above(par, x)
    BY <2>1, <2>4, AboveIs DEF Closed
  <2> QED
    BY <2>2, <2>3, <2>4
<1>3. Above(par, i) \subseteq S
  <2> HIDE DEF S
  <2> QED
    BY <1>1, <1>2, AboveIs
<1> QED
  BY <1>3

(* par2 is par but for the items of X.  An item above which none of them is
   lies where it lay. *)
LEMMA SameAbove ==
  ASSUME NEW par, NEW par2, NEW X, \A j \in Items \ X : par2[j] = par[j],
         NEW i \in Items \ X, Above(par, i) \cap X = {}
  PROVE  Above(par2, i) = Above(par, i)
<1>1. /\ par2[i] = par[i]
      /\ par[i] \in Above(par, i) /\ Closed(par, Above(par, i))
      /\ par2[i] \in Above(par2, i) /\ Closed(par2, Above(par2, i))
  BY AboveIs
<1>2. Closed(par2, Above(par, i))
  BY <1>1, Kinds DEF Closed
<1>3. Above(par2, i) \subseteq Above(par, i)
  BY <1>1, <1>2, AboveIs
<1>4. Closed(par, Above(par2, i))
  BY <1>1, <1>3, Kinds DEF Closed
<1>5. Above(par, i) \subseteq Above(par2, i)
  BY <1>1, <1>4, AboveIs
<1> QED
  BY <1>3, <1>5

(* And a thing that has none of them in it, and is in none, before or after,
   holds what it held. *)
LEMMA SameTree ==
  ASSUME NEW par, NEW par2, NEW X, \A j \in Items \ X : par2[j] = par[j],
         NEW t \in Items \ X, Above(par, t) \cap X = {},
         \A x \in X : t \notin Above(par, x) /\ t \notin Above(par2, x)
  PROVE  Above(par2, t) = Above(par, t) /\ Tree(par2, t) = Tree(par, t)
<1>1. Above(par2, t) = Above(par, t)
  BY SameAbove
<1>2. ASSUME NEW i \in Items, t \in Above(par, i) PROVE t \in Above(par2, i)
  <2>1. i \notin X
    BY <1>2
  <2>2. Above(par, i) \cap X = {}
    <3> SUFFICES ASSUME NEW x \in X, x \in Above(par, i) PROVE FALSE
      OBVIOUS
    <3> QED
      BY <1>2, InLine
  <2> QED
    BY <1>2, <2>1, <2>2, SameAbove
<1>3. ASSUME NEW i \in Items, t \in Above(par2, i) PROVE t \in Above(par, i)
  <2>1. i \notin X
    BY <1>3
  <2>2. Above(par2, i) \cap X = {}
    <3> SUFFICES ASSUME NEW x \in X, x \in Above(par2, i) PROVE FALSE
      OBVIOUS
    <3> QED
      BY <1>1, <1>3, InLine
  <2>3. \A j \in Items \ X : par[j] = par2[j]
    OBVIOUS
  <2>4. Above(par, i) = Above(par2, i)
    BY <2>1, <2>2, <2>3, SameAbove
  <2> QED
    BY <1>3, <2>4
<1> QED
  BY <1>1, <1>2, <1>3 DEF Tree, isHoldingItem

LEMMA SameTreeButOne ==
  ASSUME NEW par, NEW par2, NEW x \in Items, \A j \in Items \ {x} : par2[j] = par[j],
         NEW t \in Items, t # x, x \notin Above(par, t),
         t \notin Above(par, x), t \notin Above(par2, x)
  PROVE  Above(par2, t) = Above(par, t) /\ Tree(par2, t) = Tree(par, t)
<1> DEFINE X == {x}
<1>1. /\ \A j \in Items \ X : par2[j] = par[j]
      /\ t \in Items \ X /\ Above(par, t) \cap X = {}
      /\ \A y \in X : t \notin Above(par, y) /\ t \notin Above(par2, y)
  OBVIOUS
<1> HIDE DEF X
<1> QED
  BY <1>1, SameTree

-----------------------------------------------------------------------------
(* Every item lies somewhere. *)
Parents == [Items -> Places \cup Boxes]
Rooted(par) == \A i \in Items : \E r \in Places : r \in Above(par, i)

LEMMA RootIs ==
  ASSUME NEW par, Rooted(par), NEW i \in Items
  PROVE  /\ Root(par, i) \in Places /\ Root(par, i) \in Above(par, i)
         /\ \A r \in Places : r \in Above(par, i) => r = Root(par, i)
         /\ \A c \in Boxes : c \in Above(par, i) => Root(par, c) = Root(par, i)
<1>1. Root(par, i) \in Places /\ Root(par, i) \in Above(par, i)
  BY DEF Rooted, Root
<1>2. ASSUME NEW r \in Places, r \in Above(par, i) PROVE r = Root(par, i)
  BY <1>1, <1>2, InLine, Kinds
<1>3. ASSUME NEW c \in Boxes, c \in Above(par, i) PROVE Root(par, c) = Root(par, i)
  <2>1. Root(par, c) \in Places /\ Root(par, c) \in Above(par, c)
    BY Kinds DEF Rooted, Root
  <2>2. Root(par, c) \in Above(par, i)
    BY <1>3, <2>1, AboveUp
  <2> QED
    BY <1>2, <2>1, <2>2
<1> QED
  BY <1>1, <1>2, <1>3

LEMMA AboveType ==
  ASSUME NEW par \in Parents, NEW i \in Items
  PROVE  Above(par, i) \subseteq Places \cup Boxes
<1>1. par[i] \in Places \cup Boxes /\ Closed(par, Places \cup Boxes)
  BY Kinds DEF Parents, Closed
<1> QED
  BY <1>1, AboveIs

LEMMA NoCycle ==
  ASSUME NEW par \in Parents, Rooted(par), NEW x \in Items
  PROVE  x \notin Above(par, x)
<1> SUFFICES ASSUME x \in Above(par, x) PROVE FALSE
  OBVIOUS
<1> DEFINE S == {y \in Above(par, x) : y \in Boxes /\ x \in Above(par, y)}
<1>1. x \in Boxes
  BY AboveType, Kinds
<1>2. par[x] \in S
  BY <1>1, AboveIs, AboveUp
<1>3. Closed(par, S)
  <2> SUFFICES ASSUME NEW y \in S \cap Boxes PROVE par[y] \in S
    BY DEF Closed
  <2>1. par[y] \in Above(par, x)
    BY AboveIs DEF Closed
  <2>2. x = par[y] \/ (par[y] \in Boxes /\ x \in Above(par, par[y]))
    BY AboveUp
  <2> QED
    BY <1>1, <2>1, <2>2
<1>4. Above(par, x) \subseteq Boxes
  <2>1. Above(par, x) \subseteq S
    <3> HIDE DEF S
    <3> QED
      BY <1>2, <1>3, AboveIs
  <2> QED
    BY <2>1
<1> QED
  BY <1>4, Kinds DEF Rooted

(* Item x is put somewhere that is not in it. *)
Moves(par, x, to, par2) ==
  /\ par \in Parents /\ Rooted(par) /\ x \in Items
  /\ to \in Places \cup Boxes /\ to \notin Tree(par, x)
  /\ par2 = [par EXCEPT ![x] = to]

LEMMA Moved ==
  ASSUME NEW par, NEW x, NEW to, NEW par2, Moves(par, x, to, par2)
  PROVE  /\ par2 \in Parents /\ Rooted(par2)
         /\ Root(par2, x) = IF to \in Places THEN to ELSE Root(par, to)
         /\ \A i \in Items \ {x} :
              x \notin Above(par, i) => Above(par2, i) = Above(par, i)
         /\ \A i \in Items : x \in Above(par, i) =>
              x \in Above(par2, i) /\ Root(par2, i) = Root(par2, x)
         /\ \A c \in Above(par2, x) :
              c = to \/ (to \in Boxes /\ c \in Above(par, to))
<1>0. /\ par \in Parents /\ Rooted(par) /\ x \in Items
      /\ to \in Places \cup Boxes /\ to \notin Tree(par, x)
      /\ par2 = [par EXCEPT ![x] = to]
  BY DEF Moves
<1>1. /\ par2 \in Parents /\ par2[x] = to
      /\ \A j \in Items \ {x} : par2[j] = par[j]
  BY <1>0 DEF Parents
<1>2. ASSUME NEW i \in Items \ {x}, x \notin Above(par, i)
      PROVE  Above(par2, i) = Above(par, i)
  <2>1. i \in Items \ {x} /\ Above(par, i) \cap {x} = {}
    BY <1>2
  <2> QED
    BY <1>1, <2>1, SameAbove
<1>3. ASSUME to \in Boxes PROVE Above(par2, to) = Above(par, to)
  <2>1. to \in Items \ {x} /\ x \notin Above(par, to)
    BY <1>0, <1>3, Kinds DEF Tree, isHoldingItem
  <2> QED
    BY <1>2, <2>1
<1>4. ASSUME NEW c \in Above(par2, x)
      PROVE  c = to \/ (to \in Boxes /\ c \in Above(par, to))
  <2>1. c = par2[x] \/ (par2[x] \in Boxes /\ c \in Above(par2, par2[x]))
    BY AboveUp
  <2> QED
    BY <1>1, <1>3, <2>1
<1> DEFINE r == IF to \in Places THEN to ELSE Root(par, to)
<1>5. r \in Places /\ r \in Above(par2, x)
  <2>1. CASE to \in Places
    BY <1>1, <2>1, AboveIs
  <2>2. CASE to \in Boxes /\ to \notin Places
    <3>1. r \in Places /\ r \in Above(par, to)
      BY <1>0, <2>2, RootIs, Kinds
    <3>2. to \in Above(par2, x)
      BY <1>1, AboveIs
    <3> QED
      BY <1>3, <2>2, <3>1, <3>2, AboveUp
  <2> QED
    BY <1>0, <2>1, <2>2
<1> HIDE DEF r
<1>6. ASSUME NEW i \in Items, x \in Above(par, i) PROVE x \in Above(par2, i) /\ x \in Boxes
  <2>1. x \in Boxes /\ i # x
    BY <1>0, <1>6, AboveType, NoCycle, Kinds
  <2>2. ASSUME x \notin Above(par2, i) PROVE FALSE
    <3> DEFINE X == {x}
    <3>1. \A j \in Items \ X : par[j] = par2[j]
      BY <1>1
    <3>2. i \in Items \ X /\ Above(par2, i) \cap X = {}
      BY <2>1, <2>2
    <3> HIDE DEF X
    <3>3. Above(par, i) = Above(par2, i)
      BY ONLY <3>1, <3>2, SameAbove, Zenon
    <3> QED
      BY <1>6, <2>2, <3>3
  <2> QED
    BY <2>1, <2>2
<1>7. Rooted(par2)
  <2> SUFFICES ASSUME NEW i \in Items PROVE \E s \in Places : s \in Above(par2, i)
    BY DEF Rooted
  <2>1. CASE i = x
    BY <1>5, <2>1
  <2>2. CASE i # x /\ x \notin Above(par, i)
    BY <1>0, <1>2, <2>2 DEF Rooted
  <2>3. CASE x \in Above(par, i)
    BY <1>5, <1>6, <2>3, AboveUp
  <2> QED
    BY <2>1, <2>2, <2>3
<1>8. Root(par2, x) = r
  BY <1>0, <1>5, <1>7, RootIs
<1>9. ASSUME NEW i \in Items, x \in Above(par, i)
      PROVE  x \in Above(par2, i) /\ Root(par2, i) = Root(par2, x)
  BY <1>6, <1>7, <1>9, RootIs
<1> QED
  BY <1>1, <1>2, <1>4, <1>7, <1>8, <1>9 DEF r

-----------------------------------------------------------------------------
(* The offers are as they were shown, and each lies where it was. *)
NotAlone == \A p \in Players : tradePartner[p] # p

OfferIInv ==
  /\ IInv /\ NotAlone /\ OffersKept
  /\ parent \in Parents /\ Rooted(parent)
  /\ shown \in [Players -> SUBSET Items]

LEMMA InitOffer == Init => OfferIInv
<1> SUFFICES ASSUME Init PROVE OfferIInv
  OBVIOUS
<1>1. IInv
  BY InitIInv
<1>2. NotAlone /\ OffersKept
  BY TradeAssumption DEF Init, NotAlone, OffersKept
<1>3. parent \in Parents /\ shown \in [Players -> SUBSET Items]
  BY DEF Init, Parents, Places
<1>4. Rooted(parent)
  BY AboveIs, Kinds DEF Init, Rooted
<1> QED
  BY <1>1, <1>2, <1>3, <1>4 DEF OfferIInv

(* A player that the moves of the items of X do not touch finds its offer as it
   was, where it was. *)
LEMMA Untouched ==
  ASSUME NEW r \in Players, tradeItem[r] \in Items,
         NEW par, NEW X, \A j \in Items \ X : par[j] = parent[j],
         \A x \in X : ~Touches(par, x, r)
  PROVE  /\ Tree(par, tradeItem[r]) = Tree(parent, tradeItem[r])
         /\ Root(par, tradeItem[r]) = Root(parent, tradeItem[r])
<1> DEFINE t == tradeItem[r]
<1>1. t # Nothing
  BY TradeAssumption
<1>2. ASSUME NEW x \in X
      PROVE  /\ t # x /\ x \notin Above(parent, t)
             /\ t \notin Above(parent, x) /\ t \notin Above(par, x)
  BY <1>1, <1>2 DEF Touches, isHoldingItem
<1> HIDE DEF t
<1>3. t \in Items \ X /\ Above(parent, t) \cap X = {}
  BY <1>2 DEF t
<1>4. Above(par, t) = Above(parent, t) /\ Tree(par, t) = Tree(parent, t)
  BY <1>2, <1>3, SameTree
<1> QED
  BY <1>4 DEF Root, t

LEMMA ClosedOffers ==
  ASSUME IInv, NotAlone, OffersKept, shown \in [Players -> SUBSET Items],
         NEW P \in SUBSET Players, CloseTrades(P),
         \A r \in Players \ P : tradeItem[r] # Nothing =>
           /\ Tree(parent', tradeItem[r]) = Tree(parent, tradeItem[r])
           /\ Root(parent', tradeItem[r]) = Root(parent, tradeItem[r])
  PROVE  NotAlone' /\ OffersKept' /\ shown' \in [Players -> SUBSET Items]
<1> DEFINE both == P \cup ({tradePartner[p] : p \in P} \ {Nobody})
<1>1. /\ tradePartner' = [p \in Players |-> IF p \in both THEN Nobody ELSE tradePartner[p]]
      /\ tradeItem' = [p \in Players |-> IF p \in both THEN Nothing ELSE tradeItem[p]]
      /\ shown' = [p \in Players |-> IF p \in both THEN {} ELSE shown[p]]
  BY DEF CloseTrades
<1>2. P \subseteq both
  OBVIOUS
<1> HIDE DEF both
<1>3. NotAlone' /\ shown' \in [Players -> SUBSET Items]
  BY <1>1, TradeAssumption DEF NotAlone
<1>4. \A r \in Players : tradeItem'[r] # Nothing =>
        r \notin P /\ tradeItem'[r] = tradeItem[r] /\ shown'[r] = shown[r]
  BY <1>1, <1>2
<1>5. OffersKept'
  <2> SUFFICES ASSUME NEW p \in Players, tradeItem'[p] # Nothing
      PROVE  /\ Tree(parent', tradeItem'[p]) = shown'[p]
             /\ Root(parent', tradeItem'[p]) \in {p, Floor}
             /\ \A q \in Players \ {p} :
                  tradeItem'[q] # Nothing => shown'[q] \cap Tree(parent', tradeItem'[p]) = {}
    BY DEF OffersKept
  <2>1. /\ tradeItem'[p] = tradeItem[p] /\ shown'[p] = shown[p]
        /\ Tree(parent', tradeItem[p]) = Tree(parent, tradeItem[p])
        /\ Root(parent', tradeItem[p]) = Root(parent, tradeItem[p])
    BY <1>4
  <2>2. /\ Tree(parent, tradeItem[p]) = shown[p]
        /\ Root(parent, tradeItem[p]) \in {p, Floor}
        /\ \A q \in Players \ {p} :
             tradeItem[q] # Nothing => shown[q] \cap Tree(parent, tradeItem[p]) = {}
    BY <2>1 DEF OffersKept
  <2> QED
    BY <1>4, <2>1, <2>2
<1> QED
  BY <1>3, <1>5

(* Between two offers nothing is in the one and the other. *)
LEMMA OffersApart ==
  ASSUME OfferIInv, NEW p \in Players, NEW q \in Players, p # q,
         tradeItem[p] # Nothing, tradeItem[q] # Nothing
  PROVE  /\ tradeItem[p] \in Items /\ tradeItem[q] \in Items
         /\ Tree(parent, tradeItem[p]) \cap Tree(parent, tradeItem[q]) = {}
         /\ Root(parent, tradeItem[p]) \in {p, Floor}
         /\ tradeItem[p] \notin Tree(parent, tradeItem[q])
         /\ tradeItem[q] \notin Tree(parent, tradeItem[p])
<1>1. /\ tradeItem[p] \in Items /\ tradeItem[q] \in Items
      /\ Root(parent, tradeItem[p]) \in {p, Floor}
      /\ Tree(parent, tradeItem[q]) = shown[q]
      /\ shown[q] \cap Tree(parent, tradeItem[p]) = {}
  BY DEF OfferIInv, IInv, Types, OffersKept
<1>2. tradeItem[p] \in Tree(parent, tradeItem[p]) /\ tradeItem[q] \in Tree(parent, tradeItem[q])
  BY DEF Tree
<1> QED
  BY <1>1, <1>2

(* What a swap does to the tree: both items change hands, though only the first
   move was tested with the tree it is made in. *)
LEMMA SwapDoes ==
  ASSUME OfferIInv, NEW p \in Players, NEW q \in Players, SwapItems(p, q)
  PROVE  /\ p # q /\ tradeItem[p] \in Items /\ tradeItem[q] \in Items
         /\ parent' \in Parents /\ Rooted(parent')
         /\ Root(parent', tradeItem[p]) = q /\ Root(parent', tradeItem[q]) = p
         /\ \A k \in Items \ {tradeItem[p], tradeItem[q]} : parent'[k] = parent[k]
<1> DEFINE i == tradeItem[p]
           j == tradeItem[q]
<1>1. /\ p # q /\ tradePartner[p] = q /\ i # Nothing /\ j # Nothing
      /\ BothFit(p, q)
  BY DEF SwapItems, OfferIInv, NotAlone
<1>2. /\ i \in Items /\ j \in Items /\ i # j
      /\ Tree(parent, i) \cap Tree(parent, j) = {}
      /\ Root(parent, i) \in {p, Floor} /\ Root(parent, j) \in {q, Floor}
      /\ i \notin Tree(parent, j) /\ j \notin Tree(parent, i)
  <2>1. i \in Tree(parent, i)
    BY DEF Tree
  <2> QED
    BY <1>1, <2>1, OffersApart
<1>3. PICK d1 \in Destinations(parent, q) :
        LET par1 == [parent EXCEPT ![i] = d1]
        IN  IF Fits(par1, p, j)
              THEN \E d2 \in Destinations(par1, p) : parent' = [par1 EXCEPT ![j] = d2]
              ELSE parent' = par1
  BY DEF SwapItems
<1> DEFINE par1 == [parent EXCEPT ![i] = d1]
<1>0. parent \in Parents /\ Rooted(parent) /\ p # Floor /\ q # Floor
  BY TradeAssumption DEF OfferIInv
<1>4. i \notin Above(parent, j) /\ j \notin Above(parent, i)
  BY <1>2 DEF Tree, isHoldingItem
<1>31. tradeItem[q] = j /\ tradeItem[p] = i
  OBVIOUS
<1> HIDE DEF i, j
<1>5. /\ d1 \in Places \cup Boxes /\ d1 \notin Tree(parent, j) /\ d1 \notin Tree(parent, i)
      /\ d1 \in Places => d1 = q
      /\ d1 \in Boxes => Root(parent, d1) = q
  <2>1. CASE d1 = q
    BY <1>2, <2>1, Kinds DEF Tree
  <2>2. CASE d1 # q
    <3>1. d1 \in Boxes /\ q \in Above(parent, d1) /\ d1 \notin Tree(parent, j) /\ d1 \in Items
      BY <1>31, <2>2, Kinds DEF Destinations, Carried, isHoldingItem
    <3>2. Root(parent, d1) = q
      BY <1>0, <3>1, RootIs, Kinds
    <3>3. d1 # i
      BY <1>0, <1>1, <1>2, <3>2
    <3>4. i \notin Above(parent, d1)
      <4> SUFFICES ASSUME i \in Above(parent, d1) PROVE FALSE
        OBVIOUS
      <4>1. i \in Boxes
        BY <1>0, <1>2, <3>1, AboveType, Kinds
      <4>2. Root(parent, i) = q
        BY <1>0, <3>1, <3>2, <4>1, RootIs
      <4> QED
        BY <1>0, <1>1, <1>2, <4>2
    <3> QED
      BY <3>1, <3>2, <3>3, <3>4, Kinds DEF Tree, isHoldingItem
  <2> QED
    BY <2>1, <2>2
<1>6. /\ par1 \in Parents /\ Rooted(par1)
      /\ Root(par1, i) = IF d1 \in Places THEN d1 ELSE Root(parent, d1)
      /\ \A k \in Items \ {i} : i \notin Above(parent, k) => Above(par1, k) = Above(parent, k)
      /\ \A k \in Items : i \in Above(parent, k) =>
           i \in Above(par1, k) /\ Root(par1, k) = Root(par1, i)
      /\ \A c \in Above(par1, i) : c = d1 \/ (d1 \in Boxes /\ c \in Above(parent, d1))
  <2>1. par1 = [parent EXCEPT ![i] = d1]
    OBVIOUS
  <2> HIDE DEF par1
  <2>2. Moves(parent, i, d1, par1)
    BY <1>0, <1>2, <1>5, <2>1 DEF Moves
  <2> QED
    BY <2>2, Moved
<1>7. Root(par1, i) = q
  BY <1>5, <1>6
<1>8. \A k \in Items \ {i} : par1[k] = parent[k]
  BY <1>0 DEF Parents
<1>32. IF Fits(par1, p, j)
         THEN \E d2 \in Destinations(par1, p) : parent' = [par1 EXCEPT ![j] = d2]
         ELSE parent' = par1
  BY <1>3
<1> HIDE DEF par1
<1>9. Above(par1, j) = Above(parent, j) /\ Tree(par1, j) = Tree(parent, j)
      /\ j \notin Above(par1, i)
  <2>1. j \notin Above(par1, i)
    <3> SUFFICES ASSUME j \in Above(par1, i) PROVE FALSE
      OBVIOUS
    <3>1. j = d1 \/ (d1 \in Boxes /\ j \in Above(parent, d1))
      BY <1>6
    <3> QED
      BY <1>5, <3>1, Kinds DEF Tree, isHoldingItem
  <2>2. Above(par1, j) = Above(parent, j) /\ Tree(par1, j) = Tree(parent, j)
    BY <1>2, <1>4, <1>8, <2>1, SameTreeButOne
  <2> QED
    BY <2>1, <2>2
<1>10. Root(par1, j) \in {q, Floor}
  BY <1>2, <1>9 DEF Root
<1>11. Carried(par1, p) \subseteq Carried(parent, p)
  <2> SUFFICES ASSUME NEW k \in Items, p \in Above(par1, k) PROVE p \in Above(parent, k)
    BY DEF Carried, isHoldingItem
  <2>1. Root(par1, k) = p
    BY <1>6, RootIs, Kinds
  <2>2. k # i /\ i \notin Above(parent, k)
    BY <1>1, <1>6, <1>7, <2>1
  <2> QED
    BY <1>6, <2>2
<1>12. Fits(par1, p, j)
  <2>1. Cardinality(Carried(parent, p)) + Cardinality(Tree(parent, j)) <= Capacity[p]
    BY <1>0, <1>1, <1>2, <1>31 DEF BothFit, Fits
  <2>2. IsFiniteSet(Carried(parent, p)) /\ IsFiniteSet(Tree(parent, j))
    <3>1. Carried(parent, p) \subseteq Items /\ Tree(parent, j) \subseteq Items
      BY <1>2 DEF Carried, Tree
    <3> QED
      BY <3>1, TradeAssumption, FS_Subset
  <2>3. /\ IsFiniteSet(Carried(par1, p))
        /\ Cardinality(Carried(par1, p)) <= Cardinality(Carried(parent, p))
    BY <1>11, <2>2, FS_Subset
  <2>4. /\ Cardinality(Carried(par1, p)) \in Nat /\ Cardinality(Carried(parent, p)) \in Nat
        /\ Cardinality(Tree(parent, j)) \in Nat /\ Capacity[p] \in Nat
    BY <2>2, <2>3, FS_CardinalityType, TradeAssumption
  <2>5. Cardinality(Carried(par1, p)) + Cardinality(Tree(par1, j)) <= Capacity[p]
    BY <1>9, <2>1, <2>3, <2>4
  <2> QED
    BY <2>5 DEF Fits
<1>13. PICK d2 \in Destinations(par1, p) : parent' = [par1 EXCEPT ![j] = d2]
  BY <1>12, <1>32
<1>14. /\ d2 \in Places \cup Boxes /\ d2 \notin Tree(par1, j)
       /\ d2 \in Places => d2 = p
       /\ d2 \in Boxes => Root(par1, d2) = p
  <2>1. CASE d2 = p
    BY <1>2, <2>1, Kinds DEF Tree
  <2>2. CASE d2 # p
    <3>1. d2 \in Boxes /\ p \in Above(par1, d2) /\ d2 \in Items
      BY <2>2, Kinds DEF Destinations, Carried, isHoldingItem
    <3>2. Root(par1, d2) = p
      BY <1>6, <3>1, RootIs, Kinds
    <3>3. d2 # j
      BY <1>0, <1>1, <1>10, <3>2
    <3>4. j \notin Above(par1, d2)
      <4> SUFFICES ASSUME j \in Above(par1, d2) PROVE FALSE
        OBVIOUS
      <4>1. j \in Boxes
        BY <1>2, <1>6, <3>1, AboveType, Kinds
      <4>2. Root(par1, j) = p
        BY <1>6, <3>1, <3>2, <4>1, RootIs
      <4> QED
        BY <1>0, <1>1, <1>10, <4>2
    <3> QED
      BY <3>1, <3>2, <3>3, <3>4, Kinds DEF Tree, isHoldingItem
  <2> QED
    BY <2>1, <2>2
<1>15. /\ parent' \in Parents /\ Rooted(parent')
       /\ Root(parent', j) = IF d2 \in Places THEN d2 ELSE Root(par1, d2)
       /\ \A k \in Items \ {j} : j \notin Above(par1, k) => Above(parent', k) = Above(par1, k)
  <2>1. Moves(par1, j, d2, parent')
    BY <1>2, <1>6, <1>13, <1>14 DEF Moves
  <2> QED
    BY <2>1, Moved
<1>16. Root(parent', j) = p
  BY <1>14, <1>15
<1>17. Root(parent', i) = q
  <2>1. Above(parent', i) = Above(par1, i)
    BY <1>2, <1>9, <1>15
  <2> QED
    BY <1>7, <2>1 DEF Root
<1>18. \A k \in Items \ {i, j} : parent'[k] = parent[k]
  BY <1>6, <1>8, <1>13 DEF Parents
<1> QED
  BY <1>1, <1>2, <1>15, <1>16, <1>17, <1>18 DEF i, j

(* One item is moved or goes, and who it touches is told. *)
LEMMA MoveKeeps ==
  ASSUME OfferIInv, IInv', NEW x \in Items, NEW to, Moves(parent, x, to, parent'),
         CloseTrades({p \in Players : Touches(parent', x, p)})
  PROVE  OfferIInv'
<1> DEFINE P == {p \in Players : Touches(parent', x, p)}
           X == {x}
<1>1. parent' \in Parents /\ Rooted(parent')
  BY Moved
<1>2. \A j \in Items \ X : parent'[j] = parent[j]
  BY DEF OfferIInv, Parents, Moves
<1>3. ASSUME NEW r \in Players \ P, tradeItem[r] # Nothing
      PROVE  /\ Tree(parent', tradeItem[r]) = Tree(parent, tradeItem[r])
             /\ Root(parent', tradeItem[r]) = Root(parent, tradeItem[r])
  <2>1. r \in Players /\ tradeItem[r] \in Items
    BY <1>3 DEF OfferIInv, IInv, Types
  <2>2. \A y \in X : ~Touches(parent', y, r)
    BY <1>3
  <2> HIDE DEF X
  <2> QED
    BY <1>2, <2>1, <2>2, Untouched
<1>4. P \in SUBSET Players /\ CloseTrades(P)
  OBVIOUS
<1> HIDE DEF P
<1>5. NotAlone' /\ OffersKept' /\ shown' \in [Players -> SUBSET Items]
  BY <1>3, <1>4, ClosedOffers DEF OfferIInv
<1> QED
  BY <1>1, <1>5 DEF OfferIInv, Parents, Rooted, Above

LEMMA SwapKeeps ==
  ASSUME OfferIInv, IInv', NEW p \in Players, NEW q \in Players, SwapItems(p, q)
  PROVE  OfferIInv'
<1> DEFINE P == {p, q} \cup {r \in Players \ {p, q} :
                   Touches(parent', tradeItem[p], r) \/ Touches(parent', tradeItem[q], r)}
           X == {tradeItem[p], tradeItem[q]}
<1>1. /\ parent' \in Parents /\ Rooted(parent')
      /\ \A j \in Items \ X : parent'[j] = parent[j]
  BY SwapDoes
<1>2. ASSUME NEW r \in Players \ P, tradeItem[r] # Nothing
      PROVE  /\ Tree(parent', tradeItem[r]) = Tree(parent, tradeItem[r])
             /\ Root(parent', tradeItem[r]) = Root(parent, tradeItem[r])
  <2>1. r \in Players /\ tradeItem[r] \in Items
    BY <1>2 DEF OfferIInv, IInv, Types
  <2>2. \A y \in X : ~Touches(parent', y, r)
    BY <1>2
  <2> HIDE DEF X
  <2> QED
    BY <1>1, <2>1, <2>2, Untouched
<1>3. P \in SUBSET Players /\ CloseTrades(P)
  BY DEF SwapItems
<1> HIDE DEF P
<1>4. NotAlone' /\ OffersKept' /\ shown' \in [Players -> SUBSET Items]
  BY <1>2, <1>3, ClosedOffers DEF OfferIInv
<1> QED
  BY <1>1, <1>4 DEF OfferIInv, Parents, Rooted, Above

LEMMA ClosesOnly ==
  ASSUME OfferIInv, IInv', NEW P \in SUBSET Players, CloseTrades(P), UNCHANGED parent
  PROVE  OfferIInv'
<1>1. NotAlone' /\ OffersKept' /\ shown' \in [Players -> SUBSET Items]
  <2>1. \A r \in Players \ P : tradeItem[r] # Nothing =>
          /\ Tree(parent', tradeItem[r]) = Tree(parent, tradeItem[r])
          /\ Root(parent', tradeItem[r]) = Root(parent, tradeItem[r])
    OBVIOUS
  <2> QED
    BY <2>1, ClosedOffers DEF OfferIInv
<1>2. parent' \in Parents /\ Rooted(parent')
  BY DEF OfferIInv
<1> QED
  BY <1>1, <1>2 DEF OfferIInv, Parents, Rooted, Above

(* An item is offered: nothing of it is in another offer, nor the other way. *)
LEMMA RequestKeeps ==
  ASSUME OfferIInv, IInv', NEW p \in Players, NEW q \in Players, NEW i \in Items,
         RequestTrade(p, q, i)
  PROVE  OfferIInv'
<1>1. /\ p # q /\ Root(parent, i) \in {p, Floor} /\ ~Reserved(i) /\ parent' = parent
      /\ tradePartner' = [tradePartner EXCEPT
           ![p] = q, ![q] = IF tradeState[q] = "none" THEN p ELSE @]
      /\ tradeItem' = [tradeItem EXCEPT ![p] = i]
      /\ shown' = [shown EXCEPT ![p] = Tree(parent, i)]
  BY DEF RequestTrade
<1>2. /\ \A r \in Players \ {p} : tradeItem'[r] = tradeItem[r] /\ shown'[r] = shown[r]
      /\ tradeItem'[p] = i /\ shown'[p] = Tree(parent, i)
      /\ shown' \in [Players -> SUBSET Items]
  BY <1>1 DEF OfferIInv, IInv, Types, Tree
<1>3. ASSUME NEW r \in Players \ {p}, tradeItem[r] # Nothing
      PROVE  Tree(parent, i) \cap Tree(parent, tradeItem[r]) = {}
  <2> DEFINE j == tradeItem[r]
  <2>1. j \in Items /\ tradeItems[j] # Nobody
    BY <1>3, TradeAssumption DEF OfferIInv, IInv, Types, PartnersAgree
  <2>2. i # j /\ i \notin Above(parent, j) /\ j \notin Above(parent, i)
    BY <1>1, <2>1 DEF Reserved, isHoldingItem
  <2> HIDE DEF j
  <2>3. ASSUME NEW k \in Items, i \in Above(parent, k), j \in Above(parent, k) PROVE FALSE
    BY <2>2, <2>3, InLine
  <2>4. Tree(parent, i) \cap Tree(parent, j) = {}
    BY <2>2, <2>3 DEF Tree, isHoldingItem
  <2> QED
    BY <2>4 DEF j
<1>4. NotAlone'
  BY <1>1 DEF OfferIInv, NotAlone, IInv, Types
<1>5. OffersKept'
  <2> SUFFICES ASSUME NEW r \in Players, tradeItem'[r] # Nothing
      PROVE  /\ Tree(parent, tradeItem'[r]) = shown'[r]
             /\ Root(parent, tradeItem'[r]) \in {r, Floor}
             /\ \A s \in Players \ {r} :
                  tradeItem'[s] # Nothing => shown'[s] \cap Tree(parent, tradeItem'[r]) = {}
    BY <1>1 DEF OffersKept
  <2>1. CASE r = p
    <3>1. \A s \in Players \ {p} : tradeItem[s] # Nothing => shown[s] = Tree(parent, tradeItem[s])
      BY DEF OfferIInv, OffersKept
    <3> QED
      BY <1>1, <1>2, <1>3, <2>1, <3>1
  <2>2. CASE r # p
    BY <1>2, <1>3, <2>2 DEF OfferIInv, OffersKept
  <2> QED
    BY <2>1, <2>2
<1>6. parent' \in Parents /\ Rooted(parent')
  BY <1>1 DEF OfferIInv
<1> QED
  BY <1>2, <1>4, <1>5, <1>6 DEF OfferIInv, Parents, Rooted, Above

LEMMA StepOffer == OfferIInv /\ [Next]_vars => OfferIInv'
<1> SUFFICES ASSUME OfferIInv, [Next]_vars PROVE OfferIInv'
  OBVIOUS
<1>0. IInv'
  BY StepIInv DEF OfferIInv
<1>1. ASSUME NEW p \in Players, NEW q \in Players, NEW i \in Items, RequestTrade(p, q, i)
      PROVE  OfferIInv'
  BY <1>0, <1>1, RequestKeeps
<1>2. ASSUME NEW p \in Players, NEW q \in Players, SwapItems(p, q) PROVE OfferIInv'
  BY <1>0, <1>2, SwapKeeps
<1>3. ASSUME NEW p \in Players, NEW q \in Players, SwapFails(p, q) PROVE OfferIInv'
  <2>1. {p} \in SUBSET Players /\ CloseTrades({p}) /\ UNCHANGED parent
    BY <1>3 DEF SwapFails
  <2> QED
    BY <1>0, <2>1, ClosesOnly
<1>4. ASSUME NEW p \in Players, AcceptTrade(p) PROVE OfferIInv'
  <2>1. UNCHANGED <<parent, tradePartner, tradeItem, tradeItems, shown>>
    BY <1>4 DEF AcceptTrade
  <2>2. NotAlone' /\ OffersKept' /\ shown' \in [Players -> SUBSET Items]
    BY <2>1 DEF OfferIInv, NotAlone, OffersKept
  <2>3. parent' \in Parents /\ Rooted(parent')
    BY <2>1 DEF OfferIInv
  <2> QED
    BY <1>0, <2>2, <2>3 DEF OfferIInv, Parents, Rooted, Above
<1>5. ASSUME NEW p \in Players, CloseTrade(p) PROVE OfferIInv'
  <2>1. {p} \in SUBSET Players /\ CloseTrades({p}) /\ UNCHANGED parent
    BY <1>5 DEF CloseTrade
  <2> QED
    BY <1>0, <2>1, ClosesOnly
<1>6. ASSUME NEW x \in Items, NEW to \in Players \cup {Floor} \cup Boxes, MoveItem(x, to)
      PROVE  OfferIInv'
  <2>1. /\ parent' = [parent EXCEPT ![x] = to] /\ to \notin Tree(parent, x)
        /\ CloseTrades({p \in Players : Touches(parent', x, p)})
    BY <1>6 DEF MoveItem
  <2>2. Moves(parent, x, to, parent')
    BY <2>1 DEF Moves, OfferIInv, Places
  <2> QED
    BY <1>0, <2>1, <2>2, MoveKeeps
<1>7. ASSUME NEW x \in Items, RemoveItem(x) PROVE OfferIInv'
  <2>1. /\ parent' = [parent EXCEPT ![x] = Gone]
        /\ CloseTrades({p \in Players : Touches(parent', x, p)})
    BY <1>7 DEF RemoveItem
  <2>2. Gone \notin Tree(parent, x) /\ Gone \in Places
    BY Kinds DEF Tree
  <2>3. Moves(parent, x, Gone, parent')
    BY <2>1, <2>2 DEF Moves, OfferIInv
  <2> QED
    BY <1>0, <2>1, <2>3, MoveKeeps
<1>8. CASE UNCHANGED vars
  <2>1. NotAlone' /\ OffersKept' /\ shown' \in [Players -> SUBSET Items]
    BY <1>8 DEF OfferIInv, NotAlone, OffersKept, vars, tradeVars
  <2>2. parent' \in Parents /\ Rooted(parent')
    BY <1>8 DEF OfferIInv, vars
  <2> QED
    BY <1>0, <2>1, <2>2 DEF OfferIInv, Parents, Rooted, Above
<1> QED
  BY <1>1, <1>2, <1>3, <1>4, <1>5, <1>6, <1>7, <1>8 DEF Next

(* Trading is mutual, and Game::tradeItems lists exactly the open offers,
   whoever asks, accepts or closes and wherever items move. *)
THEOREM PartnersAgreeHolds == Spec => []PartnersAgree
<1>1. IInv => PartnersAgree
  BY DEF IInv
<1> QED
  BY InitIInv, StepIInv, <1>1, PTL DEF Spec

LEMMA OfferAlways == Spec => []OfferIInv
  BY InitOffer, StepOffer, PTL DEF Spec

(* Every variable has its type: between two tasks nobody is in TRADE_TRANSFER,
   and an item lies in a player's hands, on the floor, in a box or nowhere. *)
THEOREM TypeCorrect == Spec => []TypeOK
<1>1. OfferIInv => TypeOK
  BY DEF OfferIInv, IInv, Types, TypeOK, Parents
<1> QED
  BY OfferAlways, <1>1, PTL

(* What is handed over is what was shown, for any number of traders, offers and
   nested boxes: no move, decay, swap or new offer changes an open offer, puts
   part of it in another one, or takes it from its owner. *)
THEOREM OffersKeptHolds == Spec => []OffersKept
<1>1. OfferIInv => OffersKept
  BY DEF OfferIInv
<1> QED
  BY OfferAlways, <1>1, PTL

(* A move of one item takes no item from one player's hands into another's. *)
LEMMA MovesToNobody ==
  ASSUME OfferIInv, NEW x \in Items, NEW to, Moves(parent, x, to, parent'),
         \/ Root(parent', x) \in {Root(parent, x), Floor, Gone}
         \/ Root(parent, x) = Floor,
         NEW t \in Items, NEW p \in Players, NEW q \in Players, p # q,
         Root(parent, t) = p, Root(parent', t) = q
  PROVE  FALSE
<1>1. p # Floor /\ q # Floor /\ q # Gone
  BY TradeAssumption
<1>2. x = t \/ x \in Above(parent, t)
  <2> SUFFICES ASSUME x # t, x \notin Above(parent, t) PROVE FALSE
    OBVIOUS
  <2>1. Above(parent', t) = Above(parent, t)
    BY Moved
  <2> QED
    BY <2>1 DEF Root
<1>3. Root(parent', x) = q
  BY <1>2, Moved
<1>4. Root(parent, x) = p
  BY <1>2, RootIs, AboveType, Kinds DEF OfferIInv
<1> QED
  BY <1>1, <1>3, <1>4

(* An action property: a swap whose items both fit hands over both, and nothing
   else takes an offer from its owner's hands into the partner's.  That the
   second item still fits is seen only here: the first one is put neither into
   the second nor where its owner's capacity is counted. *)
THEOREM SwapAtomicHolds == Spec => SwapAtomic
<1> DEFINE Atomic(p, q) ==
             /\ tradePartner[p] = q /\ tradeItem[p] # Nothing
             /\ Root(parent, tradeItem[p]) = p /\ Root(parent', tradeItem[p]) = q
             => tradeItem[q] # Nothing /\ Root(parent', tradeItem[q]) = p
<1>1. OfferIInv /\ [Next]_vars => \A p, q \in Players : Atomic(p, q)
  <2> SUFFICES ASSUME OfferIInv, [Next]_vars, NEW p \in Players, NEW q \in Players,
                      tradePartner[p] = q, tradeItem[p] # Nothing,
                      Root(parent, tradeItem[p]) = p, Root(parent', tradeItem[p]) = q
      PROVE  tradeItem[q] # Nothing /\ Root(parent', tradeItem[q]) = p
    OBVIOUS
  <2> DEFINE t == tradeItem[p]
  <2>1. t \in Items /\ p # q /\ tradePartner[q] = p
    BY TradeAssumption DEF OfferIInv, IInv, Types, NotAlone, PartnersAgree
  <2>2. ASSUME UNCHANGED parent PROVE FALSE
    BY <2>1, <2>2
  <2>3. ASSUME NEW x \in Items, NEW to \in Players \cup {Floor} \cup Boxes, MoveItem(x, to)
        PROVE  FALSE
    <3>1. /\ parent' = [parent EXCEPT ![x] = to] /\ to \notin Tree(parent, x)
          /\ \/ Root(parent', x) \in {Root(parent, x), Floor, Gone}
             \/ Root(parent, x) = Floor
      BY <2>3 DEF MoveItem
    <3>2. Moves(parent, x, to, parent')
      BY <3>1 DEF Moves, OfferIInv, Places
    <3> HIDE DEF t
    <3> QED
      BY <2>1, <3>1, <3>2, MovesToNobody DEF t
  <2>4. ASSUME NEW x \in Items, RemoveItem(x) PROVE FALSE
    <3>1. parent' = [parent EXCEPT ![x] = Gone]
      BY <2>4 DEF RemoveItem
    <3>2. Gone \notin Tree(parent, x) /\ Gone \in Places
      BY Kinds DEF Tree
    <3>3. Moves(parent, x, Gone, parent')
      BY <3>1, <3>2 DEF Moves, OfferIInv
    <3>4. Root(parent', x) = Gone
      BY <3>2, <3>3, Moved
    <3> QED
      BY <2>1, <3>3, <3>4, MovesToNobody
  <2>5. ASSUME NEW r \in Players, NEW s \in Players, SwapItems(r, s)
        PROVE  tradeItem[q] # Nothing /\ Root(parent', tradeItem[q]) = p
    <3>1. /\ r # s /\ tradeItem[r] \in Items /\ tradeItem[s] \in Items
          /\ Root(parent', tradeItem[r]) = s /\ Root(parent', tradeItem[s]) = r
          /\ \A k \in Items \ {tradeItem[r], tradeItem[s]} : parent'[k] = parent[k]
      BY <2>5, SwapDoes
    <3>2. tradePartner[r] = s /\ tradePartner[s] = r
      BY <2>5, TradeAssumption DEF SwapItems, OfferIInv, IInv, PartnersAgree
    <3>3. CASE p \in {r, s}
      BY <2>1, <3>1, <3>2, <3>3, TradeAssumption
    <3>4. CASE p \notin {r, s}
      <4> DEFINE X == {tradeItem[r], tradeItem[s]}
      <4>1. ASSUME NEW x \in X PROVE x \in Items /\ Root(parent, x) # p
        <5>1. /\ Root(parent, tradeItem[r]) \in {r, Floor}
              /\ Root(parent, tradeItem[s]) \in {s, Floor}
          BY <3>1, TradeAssumption DEF OfferIInv, OffersKept
        <5> QED
          BY <3>1, <3>4, <4>1, <5>1, TradeAssumption
      <4>2. t \notin X /\ Above(parent, t) \cap X = {}
        <5> SUFFICES ASSUME NEW x \in X, x = t \/ x \in Above(parent, t) PROVE FALSE
          OBVIOUS
        <5>1. Root(parent, x) = Root(parent, t)
          BY <2>1, <4>1, RootIs, AboveType, Kinds DEF OfferIInv
        <5> QED
          BY <4>1, <5>1
      <4>3. \A k \in Items \ X : parent'[k] = parent[k]
        BY <3>1
      <4> HIDE DEF X, t
      <4>4. Above(parent', t) = Above(parent, t)
        BY <2>1, <4>2, <4>3, SameAbove
      <4> QED
        BY <2>1, <4>4 DEF Root, t
    <3> QED
      BY <3>3, <3>4
  <2>6. CASE UNCHANGED vars
    BY <2>2, <2>6 DEF vars
  <2> QED
    BY <2>2, <2>3, <2>4, <2>5, <2>6
       DEF Next, RequestTrade, SwapFails, AcceptTrade, CloseTrade
<1> QED
  BY OfferAlways, <1>1, PTL DEF Spec, SwapAtomic
-----------------------------------------------------------------------------
(* Houses *)

(* A house counts the warnings that its owner was sent since the last rent, read
   or lost, and an empty one none. *)
HouseFields == [owner : Tenants \cup {NoTenant}, paid : Int, warned : BOOLEAN,
                rentWarnings : 0..Limit, letters : 0..Limit, lost : 0..Limit]
Counted(f) == /\ f \in HouseFields /\ f.letters + f.lost = f.rentWarnings
              /\ f.owner = NoTenant => f.rentWarnings = 0
Accounts == [purse : Int, bank : Int, depot : Int]

HouseIInv ==
  /\ flat \in [Flats -> HouseFields] /\ \A h \in Flats : Counted(flat[h])
  /\ gold \in [Tenants -> Accounts] /\ taken \subseteq Flats
  /\ sales \subseteq [seller : Tenants, buyer : Tenants, house : Flats]

(* What a house that is lost must have behind it. *)
Due(f, g) == f.letters + f.lost = Limit /\ ~CanPay(g)

LEMMA HouseInitIInv == HouseInit => HouseIInv
<1> SUFFICES ASSUME HouseInit PROVE HouseIInv
  OBVIOUS
<1>1. Vacant \in HouseFields /\ Counted(Vacant)
  BY HouseAssumption DEF Counted, HouseFields, Vacant, NeverPaid
<1>2. gold \in [Tenants -> Accounts]
  BY HouseAssumption DEF HouseInit, Accounts
<1> QED
  BY <1>1, <1>2 DEF HouseInit, HouseIInv

LEMMA OwnedCounted ==
  ASSUME NEW f, Counted(f), NEW p \in Tenants \cup {NoTenant}
  PROVE  Counted(WithOwner(f, p)) /\ WithOwner(f, p).owner = p
<1> DEFINE g == IF f.owner = NoTenant THEN f ELSE [f EXCEPT !.rentWarnings = 0, !.paid = NeverPaid]
<1>1. f \in HouseFields
  BY DEF Counted
<1>2. g \in HouseFields /\ g.rentWarnings = 0
  <2>1. 0 \in 0..Limit /\ NeverPaid \in Int
    BY HouseAssumption DEF NeverPaid
  <2>2. CASE f.owner = NoTenant
    BY <1>1, <2>2 DEF Counted
  <2>3. CASE f.owner # NoTenant
    BY <1>1, <2>1, <2>3 DEF HouseFields
  <2> QED
    BY <2>2, <2>3
<1>3. CASE f.owner # p
  <2>1. WithOwner(f, p) = [g EXCEPT !.owner = p, !.warned = p # NoTenant, !.letters = 0, !.lost = 0]
    BY <1>3 DEF WithOwner
  <2> HIDE DEF g
  <2>2. (p # NoTenant) \in BOOLEAN
    OBVIOUS
  <2>3. 0 \in 0..Limit /\ 0 + 0 = 0
    BY HouseAssumption
  <2>4. [g EXCEPT !.owner = p, !.warned = p # NoTenant, !.letters = 0, !.lost = 0] \in HouseFields
    BY <1>2, <2>2, <2>3 DEF HouseFields
  <2> QED
    BY <1>2, <2>1, <2>3, <2>4 DEF Counted, HouseFields
<1> QED
  BY <1>3 DEF WithOwner

LEMMA PaidCounted ==
  ASSUME NEW f, Counted(f)
  PROVE  Counted(RentPaid(f)) /\ RentPaid(f).owner = f.owner
<1>1. f \in HouseFields
  BY DEF Counted
<1>2. 0 \in 0..Limit /\ Period \in Int
  BY HouseAssumption
<1>3. RentPaid(f) \in HouseFields
  BY <1>1, <1>2 DEF HouseFields, RentPaid
<1> QED
  BY <1>1, <1>3 DEF Counted, HouseFields, RentPaid

LEMMA WarnedCounted ==
  ASSUME NEW f, Counted(f), f.rentWarnings < Limit, f.owner # NoTenant, NEW arrives \in BOOLEAN
  PROVE  Counted(Warned(f, arrives)) /\ Warned(f, arrives).owner = f.owner
<1>1. f \in HouseFields /\ f.letters + f.lost = f.rentWarnings
  BY DEF Counted
<1> DEFINE n == f.rentWarnings + 1
           l == IF arrives THEN f.letters + 1 ELSE f.letters
           m == IF arrives THEN f.lost ELSE f.lost + 1
<1>2. n \in 0..Limit /\ l \in 0..Limit /\ m \in 0..Limit /\ l + m = n
  BY <1>1, HouseAssumption DEF HouseFields
<1>4. Warned(f, arrives) = [f EXCEPT !.warned = TRUE, !.rentWarnings = n, !.letters = l, !.lost = m]
  BY <1>1 DEF HouseFields, Warned
<1> HIDE DEF n, l, m
<1>3. [f EXCEPT !.warned = TRUE, !.rentWarnings = n, !.letters = l, !.lost = m] \in HouseFields
  BY <1>1, <1>2 DEF HouseFields
<1> QED
  BY <1>1, <1>2, <1>3, <1>4 DEF Counted, HouseFields

LEMMA BuyerCounted ==
  ASSUME NEW f, Counted(f)
  PROVE  /\ Counted([f EXCEPT !.paid = Period, !.warned = FALSE])
         /\ [f EXCEPT !.paid = Period, !.warned = FALSE].owner = f.owner
<1>1. f \in HouseFields /\ Period \in Int
  BY HouseAssumption DEF Counted
<1>2. [f EXCEPT !.paid = Period, !.warned = FALSE] \in HouseFields
  BY <1>1 DEF HouseFields
<1> QED
  BY <1>1, <1>2 DEF Counted, HouseFields

LEMMA ChargedAccount ==
  ASSUME NEW g \in Accounts
  PROVE  Charged(g) \in Accounts
<1>1. Rent \in Int
  BY HouseAssumption
<1>2. CASE g.bank >= Rent
  <2>1. Charged(g) = [g EXCEPT !.bank = @ - Rent]
    BY <1>2 DEF Charged
  <2> QED
    BY <1>1, <2>1 DEF Accounts
<1>3. CASE ~(g.bank >= Rent)
  <2>1. Charged(g) = [g EXCEPT !.depot = @ - Rent]
    BY <1>3 DEF Charged
  <2> QED
    BY <1>1, <2>1 DEF Accounts
<1> QED
  BY <1>2, <1>3

(* What holds once the houses up to n have paid. *)
Worlds == [flat : [Flats -> HouseFields], gold : [Tenants -> Accounts], taken : SUBSET Flats]
Lawful(h, w) == h \in w.taken \/ Due(flat[h], w.gold[flat[h].owner])
PaidUpTo(n, w) ==
  /\ w \in Worlds /\ \A h \in Flats : Counted(w.flat[h])
  /\ \A h \in Flats : h > n => w.flat[h] = flat[h]
  /\ \A h \in Flats : w.flat[h].owner # flat[h].owner =>
       flat[h].owner \in Tenants /\ Lawful(h, w)

(* A house that changes by itself, whoever pays: its owner stays, or is due. *)
LEMMA OneChanges ==
  ASSUME HouseIInv, NEW n \in Flats, NEW w, PaidUpTo(n - 1, w),
         NEW g, Counted(g), NEW cash \in [Tenants -> Accounts], NEW t \in SUBSET Flats,
         w.taken \subseteq t,
         g.owner # flat[n].owner =>
           flat[n].owner \in Tenants /\ (n \in t \/ Due(flat[n], cash[flat[n].owner])),
         \A p \in Tenants : ~CanPay(w.gold[p]) => cash[p] = w.gold[p]
  PROVE  PaidUpTo(n, [flat |-> [w.flat EXCEPT ![n] = g], gold |-> cash, taken |-> t])
<1> DEFINE v == [flat |-> [w.flat EXCEPT ![n] = g], gold |-> cash, taken |-> t]
<1>1. /\ n \in Nat /\ Flats \subseteq Nat
      /\ \A h \in Flats : h > n => h > n - 1 /\ h # n
  BY HouseAssumption DEF Flats
<1>2. /\ w.flat \in [Flats -> HouseFields] /\ w.gold \in [Tenants -> Accounts]
      /\ g \in HouseFields
  BY DEF PaidUpTo, Worlds, Counted
<1>3. v \in Worlds
  BY <1>2 DEF Worlds
<1>4. \A h \in Flats : v.flat[h] = IF h = n THEN g ELSE w.flat[h]
  BY <1>2
<1>5. v.gold = cash /\ v.taken = t
  OBVIOUS
<1> HIDE DEF v
<1>6. \A h \in Flats : Counted(v.flat[h])
  BY <1>4 DEF PaidUpTo
<1>7. \A h \in Flats : h > n => v.flat[h] = flat[h]
  BY <1>1, <1>4 DEF PaidUpTo
<1>8. ASSUME NEW h \in Flats, v.flat[h].owner # flat[h].owner
      PROVE  flat[h].owner \in Tenants /\ Lawful(h, v)
  <2>1. CASE h = n
    BY <1>4, <1>5, <1>8, <2>1 DEF Lawful
  <2>2. CASE h # n
    <3>1. flat[h].owner \in Tenants /\ Lawful(h, w)
      BY <1>4, <1>8, <2>2 DEF PaidUpTo
    <3>2. CASE h \in w.taken
      BY <1>5, <3>1, <3>2 DEF Lawful
    <3>3. CASE Due(flat[h], w.gold[flat[h].owner])
      BY <1>5, <3>1, <3>3 DEF Lawful, Due
    <3> QED
      BY <3>1, <3>2, <3>3 DEF Lawful
  <2> QED
    BY <2>1, <2>2
<1>9. PaidUpTo(n, v)
  BY <1>3, <1>6, <1>7, <1>8 DEF PaidUpTo
<1> QED
  BY <1>9 DEF v

LEMMA OnePays ==
  ASSUME HouseIInv, NEW n \in Flats, NEW w, PaidUpTo(n - 1, w), NEW fate \in Fates
  PROVE  PaidUpTo(n, PayHouse(w, n, fate))
<1> DEFINE f == w.flat[n]
           changed(g) == [w.flat EXCEPT ![n] = g]
<1>1. /\ n \in Nat /\ n - 1 \in Nat /\ Flats \subseteq Nat /\ n > n - 1
      /\ \A h \in Flats : h > n => h > n - 1
  BY HouseAssumption DEF Flats
<1>2. f = flat[n] /\ Counted(f) /\ f \in HouseFields
  BY <1>1 DEF PaidUpTo, Counted
<1>3. /\ w = [flat |-> w.flat, gold |-> w.gold, taken |-> w.taken]
      /\ w.flat \in [Flats -> HouseFields] /\ w.gold \in [Tenants -> Accounts]
      /\ w.taken \in SUBSET Flats
  BY DEF PaidUpTo, Worlds
<1>4. f.owner # NoTenant => f.owner \in Tenants /\ w.gold[f.owner] \in Accounts
  BY <1>2, <1>3 DEF HouseFields
<1>5. NoTenant \notin Tenants /\ Limit \in Nat
  BY HouseAssumption
<1>6. CASE PayHouse(w, n, fate) = w
  BY <1>1, <1>6 DEF PaidUpTo
<1>7. CASE /\ f.owner # NoTenant /\ ~(f.paid > 0) /\ fate = "taken"
  <2> DEFINE g == WithOwner(f, NoTenant)
             t == w.taken \cup {n}
  <2>1. PayHouse(w, n, fate) = [w EXCEPT !.flat[n] = g, !.taken = t]
    BY <1>7 DEF PayHouse
  <2>2. Counted(g)
    BY <1>2, OwnedCounted
  <2>3. t \in SUBSET Flats /\ w.taken \subseteq t /\ n \in t
    BY <1>3
  <2> HIDE DEF g, t
  <2>4. PayHouse(w, n, fate) = [flat |-> changed(g), gold |-> w.gold, taken |-> t]
    BY <1>3, <2>1
  <2>5. PaidUpTo(n, [flat |-> changed(g), gold |-> w.gold, taken |-> t])
    BY <1>2, <1>3, <1>4, <1>7, <2>2, <2>3, OneChanges
  <2> QED
    BY <2>4, <2>5
<1>8. CASE /\ f.owner # NoTenant /\ ~(f.paid > 0) /\ fate \notin {"taken", "skipped"}
           /\ CanPay(w.gold[f.owner])
  <2> DEFINE g == RentPaid(f)
             a == IF fate = "unsaved" THEN w.gold[f.owner] ELSE Charged(w.gold[f.owner])
             cash == [w.gold EXCEPT ![f.owner] = a]
  <2>1. PayHouse(w, n, fate) = [w EXCEPT !.flat[n] = g, !.gold[f.owner] = a]
    BY <1>8 DEF PayHouse
  <2>2. Counted(g) /\ g.owner = f.owner
    BY <1>2, PaidCounted
  <2>3. a \in Accounts
    BY <1>4, <1>8, ChargedAccount
  <2>4. cash \in [Tenants -> Accounts]
    <3> HIDE DEF a
    <3> QED
      BY <1>3, <2>3
  <2>5. \A p \in Tenants : ~CanPay(w.gold[p]) => cash[p] = w.gold[p]
    <3> HIDE DEF a
    <3> QED
      BY <1>3, <1>8
  <2>6. PayHouse(w, n, fate) = [flat |-> changed(g), gold |-> cash, taken |-> w.taken]
    <3> HIDE DEF g, a
    <3> QED
      BY <1>3, <2>1
  <2> HIDE DEF g, cash
  <2>7. PaidUpTo(n, [flat |-> changed(g), gold |-> cash, taken |-> w.taken])
    BY <1>2, <1>3, <2>2, <2>4, <2>5, OneChanges
  <2> QED
    BY <2>6, <2>7
<1>9. CASE /\ f.owner # NoTenant /\ ~(f.paid > 0) /\ fate \notin {"taken", "skipped"}
           /\ ~CanPay(w.gold[f.owner]) /\ ~f.warned
  <2> DEFINE g == IF f.rentWarnings >= Limit THEN WithOwner(f, NoTenant)
                  ELSE Warned(f, fate = "normal")
  <2>1. PayHouse(w, n, fate) = [w EXCEPT !.flat[n] = g]
    <3>1. CASE f.rentWarnings >= Limit
      BY <1>9, <3>1 DEF PayHouse
    <3>2. CASE ~(f.rentWarnings >= Limit)
      BY <1>9, <3>2 DEF PayHouse
    <3> QED
      BY <3>1, <3>2
  <2>2. Counted(g) /\ (g.owner # f.owner => f.letters + f.lost = Limit)
    <3>1. CASE f.rentWarnings >= Limit
      <4>1. f.letters + f.lost = Limit
        BY <1>2, <1>5, <3>1 DEF Counted, HouseFields
      <4> QED
        BY <1>2, <3>1, <4>1, OwnedCounted
    <3>2. CASE ~(f.rentWarnings >= Limit)
      <4>1. f.rentWarnings < Limit
        BY <1>2, <1>5, <3>2 DEF HouseFields
      <4>2. (fate = "normal") \in BOOLEAN
        OBVIOUS
      <4> QED
        BY <1>2, <1>9, <3>2, <4>1, <4>2, WarnedCounted
    <3> QED
      BY <3>1, <3>2
  <2> HIDE DEF g
  <2>3. PayHouse(w, n, fate) = [flat |-> changed(g), gold |-> w.gold, taken |-> w.taken]
    BY <1>3, <2>1
  <2>4. g.owner # flat[n].owner =>
          flat[n].owner \in Tenants /\ Due(flat[n], w.gold[flat[n].owner])
    BY <1>2, <1>4, <1>9, <2>2 DEF Due
  <2>5. PaidUpTo(n, [flat |-> changed(g), gold |-> w.gold, taken |-> w.taken])
    BY <1>3, <2>2, <2>4, OneChanges
  <2> QED
    BY <2>3, <2>5
<1>10. f.warned \in BOOLEAN
  BY <1>2 DEF HouseFields
<1>11. (\/ f.owner = NoTenant \/ f.paid > 0 \/ fate = "skipped"
        \/ fate # "taken" /\ ~CanPay(w.gold[f.owner]) /\ f.warned) => PayHouse(w, n, fate) = w
  BY DEF PayHouse
<1> QED
  BY <1>6, <1>7, <1>8, <1>9, <1>10, <1>11

(* The houses pay one after the other: what `paid` in Paid is. *)
Paying(n, r, fates) ==
  r = [h \in 0..n |-> IF h = 0 THEN [flat |-> flat, gold |-> gold, taken |-> {}]
                      ELSE PayHouse(r[h-1], h, fates[h])]

LEMMA PayingExists ==
  ASSUME NEW fates
  PROVE  \E r : Paying(HouseCount, r, fates)
<1> DEFINE Bad == {m \in Nat : ~\E r : Paying(m, r, fates)}
           start == [flat |-> flat, gold |-> gold, taken |-> {}]
<1>1. ASSUME Bad # {} PROVE FALSE
  <2>1. PICK m \in Bad : \A y \in Bad : m =< y
    BY <1>1, HasLeast
  <2>2. Paying(0, [h \in 0..0 |-> start], fates)
    BY DEF Paying
  <2>3. m \in Nat \ {0} /\ m - 1 \in Nat /\ m - 1 \notin Bad
    BY <2>1, <2>2
  <2>4. PICK r : Paying(m - 1, r, fates)
    BY <2>3
  <2> DEFINE last == PayHouse(r[m-1], m, fates[m])
             q == [h \in 0..m |-> IF h = m THEN last ELSE r[h]]
  <2>5. /\ \A h \in 0..(m-1) : h \in 0..m /\ h # m /\ q[h] = r[h]
        /\ q[m] = last /\ m - 1 \in 0..(m-1)
    BY <2>3
  <2>6. ASSUME NEW h \in 0..m
        PROVE  q[h] = IF h = 0 THEN start ELSE PayHouse(q[h-1], h, fates[h])
    <3>1. CASE h = m
      <4>1. q[h-1] = r[m-1] /\ h # 0
        BY <2>3, <2>5, <3>1
      <4> HIDE DEF q
      <4> QED
        BY <2>5, <3>1, <4>1
    <3>2. CASE h # m
      <4>1. h \in 0..(m-1) /\ (h # 0 => h - 1 \in 0..(m-1))
        BY <2>3, <3>2
      <4> HIDE DEF q
      <4>2. r[h] = IF h = 0 THEN start ELSE PayHouse(r[h-1], h, fates[h])
        BY <2>4, <4>1 DEF Paying
      <4>3. h # 0 => q[h-1] = r[h-1]
        BY <2>5, <4>1
      <4> HIDE DEF start
      <4> QED
        BY <2>5, <4>1, <4>2, <4>3
    <3> QED
      BY <3>1, <3>2
  <2>7. q = [h \in 0..m |-> q[h]]
    OBVIOUS
  <2> HIDE DEF q
  <2>8. Paying(m, q, fates)
    BY <2>6, <2>7 DEF Paying
  <2> QED
    BY <2>8
<1> QED
  BY <1>1, HouseAssumption

LEMMA AllPay ==
  ASSUME HouseIInv, NEW fates \in [Flats -> Fates]
  PROVE  PaidUpTo(HouseCount, Paid(fates))
<1> DEFINE r == CHOOSE r : Paying(HouseCount, r, fates)
           start == [flat |-> flat, gold |-> gold, taken |-> {}]
<1>1. Paying(HouseCount, r, fates)
  BY PayingExists
<1>2. Paid(fates) = r[HouseCount]
  BY DEF Paid, Paying
<1> HIDE DEF r
<1>3. /\ r[0] = start
      /\ \A n \in Flats : r[n] = PayHouse(r[n-1], n, fates[n])
  <2>1. ASSUME NEW n \in 0..HouseCount
        PROVE  r[n] = IF n = 0 THEN start ELSE PayHouse(r[n-1], n, fates[n])
    BY <1>1 DEF Paying
  <2>2. 0 \in 0..HouseCount /\ \A n \in Flats : n \in 0..HouseCount /\ n # 0
    BY HouseAssumption DEF Flats
  <2> HIDE DEF start
  <2> QED
    BY <2>1, <2>2
<1>4. PaidUpTo(0, start)
  <2>1. start \in Worlds
    BY DEF HouseIInv, Worlds
  <2>2. start.flat = flat
    OBVIOUS
  <2> HIDE DEF start
  <2> QED
    BY <2>1, <2>2 DEF PaidUpTo, HouseIInv
<1> HIDE DEF start
<1> DEFINE Bad == {n \in 0..HouseCount : ~PaidUpTo(n, r[n])}
<1>5. ASSUME Bad # {} PROVE FALSE
  <2>1. Bad \in SUBSET Nat
    OBVIOUS
  <2>2. PICK n \in Bad : \A y \in Bad : n =< y
    <3> HIDE DEF Bad
    <3> QED
      BY <1>5, <2>1, HasLeast
  <2>3. n \in Flats /\ n - 1 \in 0..HouseCount /\ n - 1 < n
    BY <1>3, <1>4, <2>2, HouseAssumption DEF Flats
  <2>4. PaidUpTo(n - 1, r[n-1])
    BY <2>2, <2>3
  <2>5. PaidUpTo(n, r[n])
    BY <1>3, <2>3, <2>4, OnePays
  <2> QED
    BY <2>2, <2>5
<1> QED
  BY <1>2, <1>5, HouseAssumption

LEMMA CheckDoes ==
  ASSUME HouseIInv, Check
  PROVE  /\ HouseIInv'
         /\ \A h \in Flats : flat'[h].owner # flat[h].owner =>
              h \in taken' \/ Due(flat[h], gold'[flat[h].owner])
<1>1. PICK fates \in [Flats -> Fates] :
        /\ flat' = Paid(fates).flat /\ gold' = Paid(fates).gold /\ taken' = Paid(fates).taken
        /\ sales' = sales
  BY DEF Check
<1> DEFINE w == Paid(fates)
<1>2. PaidUpTo(HouseCount, w)
  BY AllPay
<1>3. flat' = w.flat /\ gold' = w.gold /\ taken' = w.taken
  BY <1>1
<1> HIDE DEF w
<1> QED
  BY <1>1, <1>2, <1>3 DEF PaidUpTo, Lawful, Worlds, HouseIInv

(* What the other steps do: one house at most gets another owner or is paid
   for, and none loses its owner. *)
LEMMA HouseStep ==
  ASSUME HouseIInv, [HouseNext]_houseVars
  PROVE  /\ HouseIInv'
         /\ \A h \in Flats : flat[h].owner # NoTenant /\ flat'[h].owner = NoTenant =>
              h \in taken' \/ Due(flat[h], gold'[flat[h].owner])
<1> DEFINE Kept == \A h \in Flats : flat[h].owner # NoTenant => flat'[h].owner # NoTenant
<1>0. /\ flat \in [Flats -> HouseFields] /\ \A h \in Flats : Counted(flat[h])
      /\ gold \in [Tenants -> Accounts] /\ Rent \in Int /\ Price \in Int
      /\ sales \subseteq [seller : Tenants, buyer : Tenants, house : Flats]
      /\ taken \subseteq Flats /\ {} \subseteq Flats
      /\ NoTenant \notin Tenants
  BY HouseAssumption DEF HouseIInv
<1>a. ASSUME NEW h \in Flats, NEW g, Counted(g), g.owner # NoTenant,
             flat' = [flat EXCEPT ![h] = g]
      PROVE  /\ flat' \in [Flats -> HouseFields] /\ \A k \in Flats : Counted(flat'[k])
             /\ Kept
  BY <1>0, <1>a DEF Counted
<1>1. ASSUME NEW p \in Tenants, NEW h \in Flats, Buy(p, h) PROVE HouseIInv' /\ Kept
  <2> DEFINE f == WithOwner(flat[h], p)
  <2>1. Counted(f) /\ f.owner # NoTenant
    BY <1>0, OwnedCounted
  <2>2. PICK skip \in SkipInitRent :
          flat' = [flat EXCEPT ![h] = IF skip THEN [f EXCEPT !.paid = Period, !.warned = FALSE]
                                      ELSE f]
    BY <1>1 DEF Buy
  <2>3. gold' \in [Tenants -> Accounts] /\ sales' = sales /\ taken' = {}
    <3>1. gold' = [gold EXCEPT ![p].purse = @ - Price] /\ sales' = sales /\ taken' = {}
      BY <1>1 DEF Buy
    <3>2. [gold[p] EXCEPT !.purse = @ - Price] \in Accounts
      BY <1>0 DEF Accounts
    <3> QED
      BY <1>0, <3>1, <3>2
  <2> DEFINE g == IF skip THEN [f EXCEPT !.paid = Period, !.warned = FALSE] ELSE f
  <2> HIDE DEF f
  <2>4. Counted(g) /\ g.owner # NoTenant
    BY <2>1, BuyerCounted
  <2>5. flat' = [flat EXCEPT ![h] = g]
    BY <2>2
  <2> HIDE DEF g
  <2>6. /\ flat' \in [Flats -> HouseFields] /\ \A k \in Flats : Counted(flat'[k])
        /\ Kept
    BY <1>a, <2>4, <2>5
  <2> QED
    BY <1>0, <2>3, <2>6 DEF HouseIInv
<1>2. ASSUME NEW p \in Tenants, NEW q \in Tenants, NEW h \in Flats, Sell(p, q, h)
      PROVE  HouseIInv' /\ Kept
  <2>1. Counted(RentPaid(flat[h])) /\ RentPaid(flat[h]).owner # NoTenant
    BY <1>0, <1>2, PaidCounted DEF Sell
  <2>2. gold' \in [Tenants -> Accounts] /\ taken' = {}
    <3>1. Charged(gold[p]) \in Accounts
      BY <1>0, ChargedAccount
    <3> QED
      BY <1>0, <1>2, <3>1 DEF Sell
  <2>3. sales' \subseteq [seller : Tenants, buyer : Tenants, house : Flats]
    BY <1>0, <1>2 DEF Sell
  <2>4. CASE UNCHANGED flat
    BY <1>0, <2>2, <2>3, <2>4 DEF HouseIInv
  <2>5. CASE flat' = [flat EXCEPT ![h] = RentPaid(@)]
    BY <1>0, <1>a, <2>1, <2>2, <2>3, <2>5 DEF HouseIInv
  <2> QED
    BY <1>2, <2>4, <2>5 DEF Sell
<1>3. ASSUME NEW s \in sales, Transfer(s) PROVE HouseIInv' /\ Kept
  <2>1. s.house \in Flats /\ s.buyer \in Tenants
    BY <1>0
  <2>2. Counted(WithOwner(flat[s.house], s.buyer)) /\ WithOwner(flat[s.house], s.buyer).owner # NoTenant
    BY <1>0, <2>1, OwnedCounted
  <2> QED
    BY <1>0, <1>3, <1>a, <2>1, <2>2 DEF Transfer, HouseIInv
<1>4. ASSUME NEW s \in sales, CancelSale(s) PROVE HouseIInv' /\ Kept
  BY <1>0, <1>4 DEF CancelSale, HouseIInv
<1>5. ASSUME NewDay PROVE HouseIInv' /\ Kept
  <2>1. ASSUME NEW h \in Flats
        PROVE  Counted(flat'[h]) /\ flat'[h].owner = flat[h].owner
    <3> DEFINE d == IF flat[h].paid > 0 THEN flat[h].paid - 1 ELSE flat[h].paid
    <3>1. d \in Int
      BY <1>0 DEF HouseFields
    <3>2. flat'[h] = [flat[h] EXCEPT !.warned = FALSE, !.paid = d]
      BY <1>0, <1>5 DEF NewDay, HouseFields
    <3> HIDE DEF d
    <3> QED
      BY <1>0, <3>1, <3>2 DEF Counted, HouseFields
  <2>2. flat' \in [Flats -> HouseFields]
    BY <1>5, <2>1 DEF NewDay, Counted
  <2> QED
    BY <1>0, <1>5, <2>1, <2>2 DEF NewDay, HouseIInv
<1>6. ASSUME UNCHANGED houseVars PROVE HouseIInv' /\ Kept
  BY <1>0, <1>6 DEF houseVars, HouseIInv
<1> QED
  BY <1>1, <1>2, <1>3, <1>4, <1>5, <1>6, CheckDoes DEF HouseNext

(* Whoever loses a house for its rent was sent as many warnings as the limit
   says, about this house and since its last rent, and has the rent neither in
   the bank nor in the depot, for any number of tenants and houses, in whatever
   order they are sold, bought and paid, whichever letters and payments are lost
   and whichever houses are taken for other reasons: Houses::check goes through
   all of them in one task. *)
THEOREM WarnedBeforeLostHolds == HouseSpec => WarnedBeforeLost
<1> DEFINE Fair == \A h \in Flats : flat[h].owner # NoTenant /\ flat'[h].owner = NoTenant =>
                     \/ h \in taken'
                     \/ /\ flat[h].letters + flat[h].lost = Limit
                        /\ ~CanPay(gold'[flat[h].owner])
<1>1. HouseIInv /\ [HouseNext]_houseVars => HouseIInv' /\ Fair
  BY HouseStep DEF Due
<1> HIDE DEF Fair
<1>2. HouseSpec => []HouseIInv
  BY HouseInitIInv, <1>1, PTL DEF HouseSpec
<1>3. HouseSpec => [][Fair]_houseVars
  BY <1>1, <1>2, PTL DEF HouseSpec
<1> QED
  BY <1>3 DEF WarnedBeforeLost, Fair
-----------------------------------------------------------------------------
(* Containers *)

(* A function on 1..n is a sequence of length n. *)
LEMMA AsSeq ==
  ASSUME NEW S, NEW n \in Nat, NEW f \in [1..n -> S]
  PROVE  f \in Seq(S) /\ Len(f) = n /\ DOMAIN f = 1..n
<1>1. f \in Seq(S)
  OBVIOUS
<1>2. DOMAIN f = 1..Len(f) /\ DOMAIN f = 1..n /\ Len(f) \in Nat
  BY <1>1
<1> QED
  BY <1>1, <1>2

(* g are the partial sums of the numbers f, of which there are n. *)
SumsTo(n, f, g) ==
  g \in [0..n -> Int] /\ g[0] = 0 /\ \A i \in 1..n : g[i] = g[i-1] + f[i]

(* Sums exist: a shortest sequence without would have one. *)
LEMMA SumsExist ==
  ASSUME NEW n \in Nat, NEW f \in [1..n -> Int]
  PROVE  \E g : SumsTo(n, f, g)
<1> DEFINE Bad == {m \in 0..n : ~\E g : SumsTo(m, f, g)}
<1>1. ASSUME Bad # {} PROVE FALSE
  <2>1. Bad \in SUBSET Nat
    OBVIOUS
  <2>2. PICK m \in Bad : \A y \in Bad : m =< y
    <3> HIDE DEF Bad
    <3> QED
      BY <1>1, <2>1, HasLeast
  <2>3. SumsTo(0, f, [i \in 0..0 |-> 0])
    BY DEF SumsTo
  <2>4. m \in 1..n /\ m - 1 \in 0..n /\ ~(m =< m - 1) /\ m \in Nat /\ f[m] \in Int
    <3>1. m # 0 /\ m \in 0..n
      BY <2>2, <2>3
    <3> QED
      BY <3>1
  <2>5. PICK g : SumsTo(m - 1, f, g)
    BY <2>2, <2>4
  <2>6. g \in [0..(m-1) -> Int] /\ g[0] = 0 /\ \A i \in 1..(m-1) : g[i] = g[i-1] + f[i]
    BY <2>5 DEF SumsTo
  <2> DEFINE h == [i \in 0..m |-> IF i = m THEN g[m-1] + f[m] ELSE g[i]]
  <2>7. m - 1 \in 0..(m-1) /\ m \in 0..m /\ 0 \in 0..m /\ 0 # m /\ g[m-1] \in Int
    BY <2>4, <2>6
  <2>8. ASSUME NEW i \in 0..m, i # m
        PROVE  i \in 0..(m-1) /\ h[i] = g[i] /\ g[i] \in Int
    <3>1. i \in 0..(m-1)
      BY <2>4, <2>8
    <3> QED
      BY <2>6, <2>8, <3>1
  <2>9. h[m] = g[m-1] + f[m] /\ h[m] \in Int
    BY <2>4, <2>7
  <2>10. h \in [0..m -> Int]
    <3>1. \A i \in 0..m : h[i] \in Int
      BY <2>8, <2>9
    <3> QED
      BY <3>1
  <2>11. h[0] = 0
    BY <2>6, <2>7, <2>8
  <2> HIDE DEF h
  <2>12. ASSUME NEW i \in 1..m PROVE h[i] = h[i-1] + f[i]
    <3>1. i - 1 \in 0..m /\ i - 1 # m /\ i \in 0..m
      BY <2>4
    <3>2. h[i-1] = g[i-1]
      BY <2>8, <3>1
    <3>3. CASE i = m
      BY <2>9, <3>2, <3>3
    <3>4. CASE i # m
      <4>1. i \in 1..(m-1)
        BY <2>4, <3>4
      <4>2. h[i] = g[i]
        BY <2>8, <3>1, <3>4
      <4> QED
        BY <2>6, <3>2, <4>1, <4>2
    <3> QED
      BY <3>3, <3>4
  <2> QED
    BY <2>2, <2>10, <2>11, <2>12 DEF SumsTo
<1>2. n \in 0..n
  OBVIOUS
<1> QED
  BY <1>1, <1>2

LEMMA TotalIs ==
  ASSUME NEW n \in Nat, NEW f \in [1..n -> Int], NEW g, SumsTo(n, f, g)
  PROVE  Total(f) = g[n] /\ Total(f) \in Int
<1> DEFINE Is(h) == h = [i \in 0..n |-> IF i = 0 THEN 0 ELSE h[i-1] + f[i]]
           h == CHOOSE h : Is(h)
<1>1. Len(f) = n
  BY AsSeq
<1>2. Is(g)
  <2>1. ASSUME NEW i \in 0..n
        PROVE  g[i] = IF i = 0 THEN 0 ELSE g[i-1] + f[i]
    BY DEF SumsTo
  <2>2. g = [i \in 0..n |-> g[i]]
    BY DEF SumsTo
  <2> QED
    BY <2>1, <2>2
<1>3. Is(h)
  BY <1>2
<1>4. Total(f) = h[n]
  BY <1>1 DEF Total
<1> HIDE DEF h
<1>5. \A i \in 0..n : h[i] = IF i = 0 THEN 0 ELSE h[i-1] + f[i]
  BY <1>3
<1> DEFINE Bad == {i \in 0..n : h[i] # g[i]}
<1>6. ASSUME Bad # {} PROVE FALSE
  <2>1. Bad \in SUBSET Nat
    OBVIOUS
  <2>2. PICK m \in Bad : \A y \in Bad : m =< y
    <3> HIDE DEF Bad
    <3> QED
      BY <1>6, <2>1, HasLeast
  <2>3. h[0] = 0 /\ g[0] = 0
    <3>1. 0 \in 0..n
      OBVIOUS
    <3> QED
      BY <1>5, <3>1 DEF SumsTo
  <2>4. m \in 0..n /\ h[m] # g[m]
    BY <2>2
  <2>5. m \in 1..n /\ m - 1 \in 0..n /\ m # 0 /\ ~(m =< m - 1)
    BY <2>3, <2>4
  <2>6. h[m-1] = g[m-1]
    BY <2>2, <2>5
  <2>7. h[m] = h[m-1] + f[m]
    BY <1>5, <2>4, <2>5
  <2>8. g[m] = g[m-1] + f[m]
    BY <2>5 DEF SumsTo
  <2> QED
    BY <2>4, <2>6, <2>7, <2>8
<1>7. n \in 0..n
  OBVIOUS
<1>8. h[n] = g[n] /\ g[n] \in Int
  BY <1>6, <1>7 DEF SumsTo
<1> QED
  BY <1>4, <1>8

LEMMA TotalType ==
  ASSUME NEW n \in Nat, NEW f \in [1..n -> Int]
  PROVE  Total(f) \in Int
BY SumsExist, TotalIs

(* A number that is put before the others. *)
LEMMA TotalCons ==
  ASSUME NEW n \in Nat, NEW f \in [1..n -> Int], NEW r \in [1..(n+1) -> Int],
         \A i \in 1..n : r[i+1] = f[i]
  PROVE  Total(r) = Total(f) + r[1]
<1>1. PICK g : SumsTo(n, f, g)
  BY SumsExist
<1> DEFINE h == [i \in 0..(n+1) |-> IF i = 0 THEN 0 ELSE r[1] + g[i-1]]
<1>2. g \in [0..n -> Int] /\ g[0] = 0 /\ \A i \in 1..n : g[i] = g[i-1] + f[i]
  BY <1>1 DEF SumsTo
<1>3. r[1] \in Int
  <2>1. 1 \in 1..(n+1)
    OBVIOUS
  <2> QED
    BY <2>1
<1>4. ASSUME NEW i \in 1..(n+1)
      PROVE  i - 1 \in 0..n /\ g[i-1] \in Int /\ h[i] = r[1] + g[i-1] /\ h[i] \in Int
  <2>1. i - 1 \in 0..n /\ i \in 0..(n+1) /\ i # 0
    OBVIOUS
  <2>2. g[i-1] \in Int
    BY <1>2, <2>1
  <2> QED
    BY <1>3, <2>1, <2>2
<1>5. h[0] = 0
  <2>1. 0 \in 0..(n+1)
    OBVIOUS
  <2> QED
    BY <2>1
<1>6. h \in [0..(n+1) -> Int]
  <2>1. ASSUME NEW i \in 0..(n+1) PROVE h[i] \in Int
    <3>1. CASE i = 0
      BY <1>5, <3>1
    <3>2. CASE i # 0
      <4>1. i \in 1..(n+1)
        BY <3>2
      <4> QED
        BY <1>4, <4>1
    <3> QED
      BY <3>1, <3>2
  <2> QED
    BY <2>1
<1> HIDE DEF h
<1>7. ASSUME NEW i \in 1..(n+1) PROVE h[i] = h[i-1] + r[i]
  <2>1. CASE i = 1
    <3>1. h[1] = r[1] + g[1-1]
      BY <1>4, <2>1
    <3>2. 1 - 1 = 0
      OBVIOUS
    <3> QED
      BY <1>2, <1>3, <1>5, <2>1, <3>1, <3>2
  <2>2. CASE i # 1
    <3>1. i - 1 \in 1..n /\ i - 1 \in 1..(n+1) /\ (i - 1) + 1 = i
      BY <2>2
    <3>2. r[i] = f[i-1] /\ f[i-1] \in Int
      BY <3>1
    <3>3. g[i-1] = g[(i-1)-1] + f[i-1]
      BY <1>2, <3>1
    <3>4. h[i] = r[1] + g[i-1]
      BY <1>4
    <3>5. h[i-1] = r[1] + g[(i-1)-1] /\ g[(i-1)-1] \in Int
      BY <1>4, <3>1
    <3> QED
      BY <1>3, <3>2, <3>3, <3>4, <3>5
  <2> QED
    BY <2>1, <2>2
<1>8. SumsTo(n + 1, r, h)
  BY <1>5, <1>6, <1>7 DEF SumsTo
<1>9. Total(f) = g[n] /\ Total(r) = h[n+1]
  BY <1>1, <1>8, TotalIs
<1>10. n + 1 \in 1..(n+1) /\ (n + 1) - 1 = n
  OBVIOUS
<1>11. h[n+1] = r[1] + g[n] /\ g[n] \in Int
  BY <1>4, <1>10
<1> QED
  BY <1>3, <1>9, <1>11

(* Numbers to which the steps of l are added. *)
LEMMA TotalSteps ==
  ASSUME NEW n \in Nat, NEW f \in [1..n -> Int], NEW r \in [1..n -> Int],
         NEW l \in [1..(n+1) -> Int], \A i \in 1..n : r[i] = f[i] + l[i+1] - l[i]
  PROVE  Total(r) = Total(f) + l[n+1] - l[1]
<1>1. PICK g : SumsTo(n, f, g)
  BY SumsExist
<1> DEFINE h == [i \in 0..n |-> g[i] + l[i+1] - l[1]]
<1>2. g \in [0..n -> Int] /\ g[0] = 0 /\ \A i \in 1..n : g[i] = g[i-1] + f[i]
  BY <1>1 DEF SumsTo
<1>3. 1 \in 1..(n+1) /\ l[1] \in Int
  <2>1. 1 \in 1..(n+1)
    OBVIOUS
  <2> QED
    BY <2>1
<1>4. ASSUME NEW i \in 0..n
      PROVE  g[i] \in Int /\ l[i+1] \in Int /\ h[i] = g[i] + l[i+1] - l[1] /\ h[i] \in Int
  <2>1. i + 1 \in 1..(n+1)
    OBVIOUS
  <2>2. g[i] \in Int /\ l[i+1] \in Int
    BY <1>2, <2>1
  <2> QED
    BY <1>3, <2>2
<1>5. h[0] = 0
  <2>1. 0 \in 0..n /\ 0 + 1 = 1
    OBVIOUS
  <2>2. h[0] = g[0] + l[1] - l[1]
    BY <1>4, <2>1
  <2> QED
    BY <1>2, <1>3, <2>2
<1>6. h \in [0..n -> Int]
  BY <1>4
<1> HIDE DEF h
<1>7. ASSUME NEW i \in 1..n PROVE h[i] = h[i-1] + r[i]
  <2>1. i - 1 \in 0..n /\ i \in 0..n /\ (i - 1) + 1 = i
    OBVIOUS
  <2>2. g[i] = g[i-1] + f[i] /\ f[i] \in Int /\ r[i] = f[i] + l[i+1] - l[i]
    BY <1>2
  <2>3. h[i] = g[i] + l[i+1] - l[1] /\ g[i] \in Int /\ l[i+1] \in Int
    BY <1>4, <2>1
  <2>4. h[i-1] = g[i-1] + l[i] - l[1] /\ g[i-1] \in Int /\ l[i] \in Int
    BY <1>4, <2>1
  <2> QED
    BY <1>3, <2>2, <2>3, <2>4
<1>8. SumsTo(n, r, h)
  BY <1>5, <1>6, <1>7 DEF SumsTo
<1>9. Total(f) = g[n] /\ Total(r) = h[n]
  BY <1>1, <1>8, TotalIs
<1>10. h[n] = g[n] + l[n+1] - l[1]
  <2>1. n \in 0..n
    OBVIOUS
  <2> QED
    BY <1>4, <2>1
<1> QED
  BY <1>9, <1>10

(* A number that changes: one step, at k. *)
LEMMA TotalChanged ==
  ASSUME NEW n \in Nat, NEW f \in [1..n -> Int], NEW r \in [1..n -> Int], NEW k \in 1..n,
         \A i \in 1..n : i # k => r[i] = f[i]
  PROVE  Total(r) = Total(f) + r[k] - f[k]
<1> DEFINE l == [i \in 1..(n+1) |-> IF i =< k THEN 0 ELSE r[k] - f[k]]
<1>1. r[k] \in Int /\ f[k] \in Int /\ k \in Nat
  OBVIOUS
<1>2. l \in [1..(n+1) -> Int]
  BY <1>1
<1>3. ASSUME NEW i \in 1..(n+1) PROVE l[i] = IF i =< k THEN 0 ELSE r[k] - f[k]
  OBVIOUS
<1> HIDE DEF l
<1>4. ASSUME NEW i \in 1..n PROVE r[i] = f[i] + l[i+1] - l[i]
  <2>1. i \in 1..(n+1) /\ i + 1 \in 1..(n+1) /\ r[i] \in Int /\ f[i] \in Int
    OBVIOUS
  <2>2. l[i] = (IF i =< k THEN 0 ELSE r[k] - f[k]) /\ l[i+1] = (IF i+1 =< k THEN 0 ELSE r[k] - f[k])
    BY <1>3, <2>1
  <2>3. CASE i = k
    <3>1. l[i] = 0 /\ l[i+1] = r[k] - f[k]
      BY <1>1, <2>2, <2>3
    <3> QED
      BY <1>1, <2>3, <3>1
  <2>4. CASE i < k
    <3>1. l[i] = 0 /\ l[i+1] = 0 /\ r[i] = f[i]
      BY <1>1, <2>2, <2>4
    <3> QED
      BY <2>1, <3>1
  <2>5. CASE i > k
    <3>1. l[i] = r[k] - f[k] /\ l[i+1] = r[k] - f[k] /\ r[i] = f[i]
      BY <1>1, <2>2, <2>5
    <3> QED
      BY <1>1, <2>1, <3>1
  <2> QED
    BY <1>1, <2>3, <2>4, <2>5
<1>5. Total(r) = Total(f) + l[n+1] - l[1]
  BY <1>2, <1>4, TotalSteps
<1>6. l[n+1] = r[k] - f[k] /\ l[1] = 0
  <2>1. 1 \in 1..(n+1) /\ n + 1 \in 1..(n+1) /\ 1 =< k /\ ~(n + 1 =< k)
    OBVIOUS
  <2> QED
    BY <1>3, <2>1
<1>7. Total(f) \in Int
  BY TotalType
<1> QED
  BY <1>1, <1>5, <1>6, <1>7

(* A number that is taken out: those behind it move up, and the last is dropped. *)
LEMMA TotalRemoved ==
  ASSUME NEW n \in Nat, NEW f \in [1..(n+1) -> Int], NEW r \in [1..n -> Int],
         NEW k \in 1..(n+1), \A i \in 1..n : r[i] = IF i < k THEN f[i] ELSE f[i+1]
  PROVE  Total(r) = Total(f) - f[k]
<1>1. PICK g : SumsTo(n + 1, f, g)
  BY SumsExist
<1> DEFINE h == [i \in 0..n |-> IF i < k THEN g[i] ELSE g[i+1] - f[k]]
<1>2. g \in [0..(n+1) -> Int] /\ g[0] = 0 /\ \A i \in 1..(n+1) : g[i] = g[i-1] + f[i]
  BY <1>1 DEF SumsTo
<1>3. f[k] \in Int /\ k \in Nat /\ k > 0
  OBVIOUS
<1>4. ASSUME NEW i \in 0..n
      PROVE  /\ h[i] = (IF i < k THEN g[i] ELSE g[i+1] - f[k]) /\ h[i] \in Int
             /\ g[i] \in Int /\ g[i+1] \in Int
  <2>1. i \in 0..(n+1) /\ i + 1 \in 0..(n+1)
    OBVIOUS
  <2>2. g[i] \in Int /\ g[i+1] \in Int
    BY <1>2, <2>1
  <2> QED
    BY <1>3, <2>2
<1>5. h[0] = 0
  <2>1. 0 \in 0..n
    OBVIOUS
  <2> QED
    BY <1>2, <1>3, <1>4, <2>1
<1>6. h \in [0..n -> Int]
  BY <1>4
<1> HIDE DEF h
<1>7. ASSUME NEW i \in 1..n PROVE h[i] = h[i-1] + r[i]
  <2>1. /\ i - 1 \in 0..n /\ i \in 0..n /\ (i - 1) + 1 = i /\ i \in 1..(n+1)
        /\ i + 1 \in 1..(n+1) /\ (i + 1) - 1 = i
    OBVIOUS
  <2>2. g[i] = g[i-1] + f[i] /\ g[i+1] = g[i] + f[i+1] /\ f[i] \in Int /\ f[i+1] \in Int
    BY <1>2, <2>1
  <2>3. h[i] = (IF i < k THEN g[i] ELSE g[i+1] - f[k]) /\ g[i] \in Int /\ g[i+1] \in Int
    BY <1>4, <2>1
  <2>4. h[i-1] = (IF i - 1 < k THEN g[i-1] ELSE g[i] - f[k]) /\ g[i-1] \in Int
    BY <1>4, <2>1
  <2>5. r[i] = IF i < k THEN f[i] ELSE f[i+1]
    OBVIOUS
  <2>6. CASE i < k
    BY <1>3, <2>2, <2>3, <2>4, <2>5, <2>6
  <2>7. CASE i = k
    BY <1>3, <2>2, <2>3, <2>4, <2>5, <2>7
  <2>8. CASE i > k
    BY <1>3, <2>2, <2>3, <2>4, <2>5, <2>8
  <2> QED
    BY <1>3, <2>6, <2>7, <2>8
<1>8. SumsTo(n, r, h)
  BY <1>5, <1>6, <1>7 DEF SumsTo
<1>9. Total(f) = g[n+1] /\ Total(r) = h[n]
  BY <1>1, <1>8, TotalIs
<1>10. n \in 0..n /\ n + 1 \in 1..(n+1) /\ (n + 1) - 1 = n
  OBVIOUS
<1>11. h[n] = (IF n < k THEN g[n] ELSE g[n+1] - f[k]) /\ g[n] \in Int /\ g[n+1] \in Int
  BY <1>4, <1>10
<1>12. CASE n < k
  <2>1. k = n + 1
    BY <1>3, <1>12
  <2>2. g[n+1] = g[n] + f[n+1]
    BY <1>2, <1>10
  <2> QED
    BY <1>3, <1>9, <1>11, <1>12, <2>1, <2>2
<1>13. CASE ~(n < k)
  BY <1>9, <1>11, <1>13
<1> QED
  BY <1>12, <1>13
-----------------------------------------------------------------------------
(* What a container may list: stacks that are not empty, and containers. *)
Things == {e \in [coins : 0..MaxStack, bag : Bags \cup {NoBag}] :
             IF e.bag = NoBag THEN e.coins > 0 ELSE e.coins = 0}

Has(s, b) == \E i \in DOMAIN s : s[i].bag = b
EachOnce(s) == \A i, j \in DOMAIN s : s[i].bag = s[j].bag /\ s[i].bag # NoBag => i = j

(* The lists s and r name the same containers. *)
SameBags(s, r) ==
  /\ \A b \in Bags : Has(r, b) <=> Has(s, b)
  /\ EachOnce(s) => EachOnce(r)

LEMMA ThingIs ==
  /\ NoBag \notin Bags /\ Chest \in Bags /\ BagCount \in Nat /\ Bags = 1..BagCount
  /\ \A n \in 1..MaxStack : Coins(n) \in Things /\ Coins(n).coins = n /\ Coins(n).bag = NoBag
  /\ \A b \in Bags : Bag(b) \in Things /\ Bag(b).coins = 0 /\ Bag(b).bag = b
  /\ \A e \in Things : /\ e.coins \in 0..MaxStack /\ e.bag \in Bags \cup {NoBag}
                       /\ e.bag = NoBag => e.coins > 0
                       /\ e.bag # NoBag => e.coins = 0
                       /\ Room(e) \in 0..MaxStack /\ (Room(e) > 0 => e.bag = NoBag)
                       /\ (e.bag = NoBag => Room(e) = MaxStack - e.coins)
  /\ MaxStack \in Nat \ {0}
<1>1. NoBag \notin Bags /\ Chest \in Bags /\ BagCount \in Nat /\ MaxStack \in Nat \ {0}
  BY ContainerAssumption DEF NoBag, Bags, Chest
<1>2. ASSUME NEW n \in 1..MaxStack
      PROVE  Coins(n) \in Things /\ Coins(n).coins = n /\ Coins(n).bag = NoBag
  BY <1>1 DEF Coins, Things
<1>3. ASSUME NEW b \in Bags PROVE Bag(b) \in Things /\ Bag(b).coins = 0 /\ Bag(b).bag = b
  BY <1>1 DEF Bag, Things
<1>4. ASSUME NEW e \in Things
      PROVE  /\ e.coins \in 0..MaxStack /\ e.bag \in Bags \cup {NoBag}
             /\ e.bag = NoBag => e.coins > 0
             /\ e.bag # NoBag => e.coins = 0
             /\ Room(e) \in 0..MaxStack /\ (Room(e) > 0 => e.bag = NoBag)
             /\ (e.bag = NoBag => Room(e) = MaxStack - e.coins)
  BY <1>1 DEF Things, Room, isStackable
<1> QED
  BY <1>1, <1>2, <1>3, <1>4 DEF Bags

(* The coins of a list, as a sequence of numbers. *)
LEMMA CoinsAre ==
  ASSUME NEW s \in Seq(Things)
  PROVE  /\ Len(s) \in Nat /\ DOMAIN s = 1..Len(s)
         /\ \A i \in 1..Len(s) : s[i] \in Things
         /\ [i \in DOMAIN s |-> s[i].coins] \in [1..Len(s) -> Int]
         /\ CoinsIn(s) \in Int
<1>1. Len(s) \in Nat /\ DOMAIN s = 1..Len(s) /\ \A i \in 1..Len(s) : s[i] \in Things
  OBVIOUS
<1>2. \A i \in 1..Len(s) : s[i].coins \in Int
  BY <1>1, ThingIs
<1>3. [i \in DOMAIN s |-> s[i].coins] \in [1..Len(s) -> Int]
  BY <1>1, <1>2
<1>4. CoinsIn(s) \in Int
  BY <1>1, <1>3, TotalType DEF CoinsIn
<1> QED
  BY <1>1, <1>3, <1>4

(* Something that is put in front. *)
LEMMA PutInFront ==
  ASSUME NEW s \in Seq(Things), NEW e \in Things, e.bag # NoBag => ~Has(s, e.bag)
  PROVE  /\ <<e>> \o s \in Seq(Things) /\ CoinsIn(<<e>> \o s) = CoinsIn(s) + e.coins
         /\ \A b \in Bags : Has(<<e>> \o s, b) <=> b = e.bag \/ Has(s, b)
         /\ EachOnce(s) => EachOnce(<<e>> \o s)
<1> DEFINE r == <<e>> \o s
           n == Len(s)
<1>1. /\ r \in Seq(Things) /\ Len(r) = n + 1 /\ r[1] = e
      /\ \A i \in 1..n : r[i+1] = s[i]
  OBVIOUS
<1>2. n \in Nat /\ DOMAIN s = 1..n /\ DOMAIN r = 1..(n+1)
  BY <1>1
<1> HIDE DEF r, n
<1>3. CoinsIn(r) = CoinsIn(s) + e.coins
  <2> DEFINE f == [i \in DOMAIN s |-> s[i].coins]
             h == [i \in DOMAIN r |-> r[i].coins]
  <2>1. f \in [1..n -> Int] /\ h \in [1..(n+1) -> Int]
    BY <1>1, <1>2, CoinsAre DEF n
  <2>2. 1 \in 1..(n+1) /\ \A i \in 1..n : i + 1 \in 1..(n+1)
    BY <1>2
  <2>3. h[1] = e.coins /\ \A i \in 1..n : h[i+1] = f[i]
    BY <1>1, <1>2, <2>2
  <2>4. Total(h) = Total(f) + h[1]
    <3> HIDE DEF f, h
    <3> QED
      BY <1>2, <2>1, <2>3, TotalCons
  <2> QED
    BY <2>3, <2>4 DEF CoinsIn
<1>4. ASSUME NEW k \in DOMAIN r, k # 1 PROVE k - 1 \in DOMAIN s /\ r[k] = s[k-1] /\ k \in Int
  <2>1. k - 1 \in 1..n /\ (k - 1) + 1 = k
    BY <1>2, <1>4
  <2> QED
    BY <1>1, <1>2, <2>1
<1>5. ASSUME NEW b \in Bags PROVE Has(r, b) <=> b = e.bag \/ Has(s, b)
  <2>1. ASSUME NEW i \in DOMAIN s PROVE i + 1 \in DOMAIN r /\ r[i+1] = s[i]
    BY <1>1, <1>2
  <2>2. 1 \in DOMAIN r
    BY <1>2
  <2> QED
    BY <1>1, <1>4, <2>1, <2>2 DEF Has
<1>6. ASSUME EachOnce(s), NEW i \in DOMAIN r, NEW j \in DOMAIN r, r[i].bag = r[j].bag,
             r[i].bag # NoBag
      PROVE  i = j
  <2>1. CASE i # 1 /\ j # 1
    <3>1. i - 1 = j - 1
      BY <1>4, <1>6, <2>1 DEF EachOnce
    <3> QED
      BY <1>4, <2>1, <3>1
  <2>2. CASE i = 1 /\ j # 1
    BY <1>1, <1>4, <1>6, <2>2 DEF Has
  <2>3. CASE i # 1 /\ j = 1
    BY <1>1, <1>4, <1>6, <2>3 DEF Has
  <2> QED
    BY <2>1, <2>2, <2>3
<1> QED
  BY <1>1, <1>3, <1>5, <1>6 DEF r, EachOnce

(* A list of the same length in which only coins differ. *)
LEMMA SamePlaces ==
  ASSUME NEW s \in Seq(Things), NEW r \in Seq(Things), DOMAIN r = DOMAIN s,
         \A i \in DOMAIN s : r[i].bag = s[i].bag
  PROVE  SameBags(s, r)
BY DEF SameBags, Has, EachOnce

LEMMA CoinsSet ==
  ASSUME NEW s \in Seq(Things), NEW i \in DOMAIN s, s[i].bag = NoBag, NEW m \in 1..MaxStack
  PROVE  /\ [s EXCEPT ![i].coins = m] \in Seq(Things)
         /\ CoinsIn([s EXCEPT ![i].coins = m]) = CoinsIn(s) + m - s[i].coins
         /\ SameBags(s, [s EXCEPT ![i].coins = m])
         /\ DOMAIN [s EXCEPT ![i].coins = m] = DOMAIN s
         /\ \A j \in DOMAIN s \ {i} : [s EXCEPT ![i].coins = m][j] = s[j]
<1> DEFINE r == [s EXCEPT ![i].coins = m]
           t == [s[i] EXCEPT !.coins = m]
           n == Len(s)
<1>1. n \in Nat /\ DOMAIN s = 1..n /\ \A j \in DOMAIN s : s[j] \in Things
  OBVIOUS
<1>2. t \in Things /\ t.bag = NoBag /\ t.coins = m
  BY <1>1, ThingIs DEF Things
<1>3. DOMAIN r = DOMAIN s /\ r[i] = t /\ \A j \in DOMAIN s \ {i} : r[j] = s[j]
  OBVIOUS
<1>4. r \in Seq(Things)
  <2>1. r \in [1..n -> Things]
    BY <1>1, <1>2
  <2> QED
    BY <1>1, <2>1, AsSeq
<1> HIDE DEF r, t, n
<1>5. CoinsIn(r) = CoinsIn(s) + m - s[i].coins
  <2> DEFINE f == [j \in DOMAIN s |-> s[j].coins]
             h == [j \in DOMAIN r |-> r[j].coins]
  <2>1. Len(r) = n
    BY <1>1, <1>3, <1>4
  <2>2. f \in [1..n -> Int] /\ h \in [1..n -> Int]
    BY <1>1, <1>4, <2>1, CoinsAre DEF n
  <2>3. h[i] = m /\ f[i] = s[i].coins /\ \A j \in 1..n : j # i => h[j] = f[j]
    BY <1>1, <1>2, <1>3
  <2>4. Total(h) = Total(f) + h[i] - f[i]
    <3> HIDE DEF f, h
    <3> QED
      BY <1>1, <2>2, <2>3, TotalChanged
  <2> QED
    BY <2>3, <2>4 DEF CoinsIn
<1>6. SameBags(s, r)
  BY <1>2, <1>3, <1>4, SamePlaces
<1> QED
  BY <1>3, <1>4, <1>5, <1>6 DEF r

(* A part of a list. *)
LEMMA PartOf ==
  ASSUME NEW s \in Seq(Things), NEW k \in 1..(Len(s) + 1), NEW m \in (k - 1)..Len(s)
  PROVE  /\ SubSeq(s, k, m) \in Seq(Things) /\ Len(SubSeq(s, k, m)) = m - k + 1
         /\ \A i \in 1..(m - k + 1) : SubSeq(s, k, m)[i] = s[k + i - 1]
  OBVIOUS

LEMMA Joined ==
  ASSUME NEW u \in Seq(Things), NEW v \in Seq(Things)
  PROVE  /\ u \o v \in Seq(Things) /\ Len(u \o v) = Len(u) + Len(v)
         /\ \A i \in 1..(Len(u) + Len(v)) :
              (u \o v)[i] = IF i <= Len(u) THEN u[i] ELSE v[i - Len(u)]
  OBVIOUS

(* Something that is taken out. *)
LEMMA TakenOut ==
  ASSUME NEW s \in Seq(Things), NEW k \in DOMAIN s, EachOnce(s)
  PROVE  /\ RemoveAt(s, k) \in Seq(Things)
         /\ CoinsIn(RemoveAt(s, k)) = CoinsIn(s) - s[k].coins
         /\ \A b \in Bags : Has(RemoveAt(s, k), b) <=> b # s[k].bag /\ Has(s, b)
         /\ EachOnce(RemoveAt(s, k))
<1> DEFINE r == RemoveAt(s, k)
           n == Len(s) - 1
           at(i) == IF i < k THEN i ELSE i + 1
<1>1. /\ k \in Nat /\ k > 0 /\ n \in Nat /\ n + 1 = Len(s) /\ DOMAIN s = 1..(n+1)
      /\ \A i \in DOMAIN s : s[i] \in Things
  OBVIOUS
<1>2. /\ r \in Seq(Things) /\ Len(r) = n /\ DOMAIN r = 1..n
      /\ \A i \in 1..n : r[i] = s[at(i)]
  <2> DEFINE u == SubSeq(s, 1, k - 1)
             v == SubSeq(s, k + 1, Len(s))
  <2>1. /\ u \in Seq(Things) /\ Len(u) = k - 1
        /\ \A i \in 1..(k - 1) : u[i] = s[i]
    <3>1. k - 1 \in 0..Len(s) /\ 1 \in 1..(Len(s)+1)
      BY <1>1
    <3> QED
      BY <1>1, <3>1
  <2>2. /\ v \in Seq(Things) /\ Len(v) = Len(s) - k
        /\ \A i \in 1..(Len(s) - k) : v[i] = s[k + i]
    <3>1. k + 1 \in 1..(Len(s)+1) /\ Len(s) \in ((k + 1) - 1)..Len(s)
      BY <1>1
    <3>2. /\ v \in Seq(Things) /\ Len(v) = Len(s) - (k + 1) + 1
          /\ \A i \in 1..(Len(s) - (k + 1) + 1) : v[i] = s[(k + 1) + i - 1]
      BY <3>1, PartOf
    <3> HIDE DEF v
    <3>3. Len(s) - (k + 1) + 1 = Len(s) - k
      BY <1>1
    <3>4. ASSUME NEW i \in 1..(Len(s) - k) PROVE (k + 1) + i - 1 = k + i
      BY <1>1
    <3> QED
      BY <3>2, <3>3, <3>4
  <2>3. r = u \o v
    BY DEF RemoveAt
  <2> HIDE DEF u, v, r
  <2>4. /\ r \in Seq(Things) /\ Len(r) = Len(u) + Len(v)
        /\ \A i \in 1..(Len(u) + Len(v)) : r[i] = IF i <= Len(u) THEN u[i] ELSE v[i - Len(u)]
    BY <2>1, <2>2, <2>3, Joined
  <2>5. Len(r) = n /\ DOMAIN r = 1..n
    <3>1. Len(u) + Len(v) = n /\ Len(r) = Len(u) + Len(v)
      BY <1>1, <2>1, <2>2, <2>4
    <3> HIDE DEF n
    <3>2. r \in Seq(Things) /\ Len(r) = n
      BY <2>4, <3>1
    <3> QED
      BY <3>2
  <2> HIDE DEF n
  <2>6. ASSUME NEW i \in 1..n PROVE r[i] = s[at(i)]
    <3>1. r[i] = IF i <= k - 1 THEN u[i] ELSE v[i - (k - 1)]
      BY <2>1, <2>4, <2>5
    <3>2. CASE i < k
      <4>1. i <= k - 1 /\ i \in 1..(k-1)
        BY <1>1, <3>2
      <4> QED
        BY <2>1, <3>1, <3>2, <4>1
    <3>3. CASE ~(i < k)
      <4>1. ~(i <= k - 1) /\ i - (k - 1) \in 1..(Len(s) - k) /\ k + (i - (k - 1)) = i + 1
        BY <1>1, <3>3
      <4> QED
        BY <2>2, <3>1, <3>3, <4>1
    <3> QED
      BY <3>2, <3>3
  <2> QED
    BY <2>4, <2>5, <2>6
<1> HIDE DEF r, n
<1>3. ASSUME NEW i \in 1..n PROVE at(i) \in DOMAIN s /\ at(i) # k
  BY <1>1
<1>4. CoinsIn(r) = CoinsIn(s) - s[k].coins
  <2> DEFINE f == [j \in DOMAIN s |-> s[j].coins]
             h == [j \in DOMAIN r |-> r[j].coins]
  <2>1. f \in [1..(n+1) -> Int] /\ h \in [1..n -> Int]
    BY <1>1, <1>2, CoinsAre
  <2>2. f[k] = s[k].coins
    OBVIOUS
  <2>3. ASSUME NEW i \in 1..n PROVE h[i] = IF i < k THEN f[i] ELSE f[i+1]
    <3>1. h[i] = f[at(i)]
      <4>1. h[i] = s[at(i)].coins
        BY <1>2
      <4>2. at(i) \in DOMAIN s
        BY <1>3
      <4> HIDE DEF at
      <4> QED
        BY <4>1, <4>2
    <3> HIDE DEF f, h
    <3> QED
      BY <3>1
  <2>4. Total(h) = Total(f) - f[k]
    <3> HIDE DEF f, h
    <3> QED
      BY <1>1, <2>1, <2>3, TotalRemoved
  <2> QED
    BY <2>2, <2>4 DEF CoinsIn
<1>5. ASSUME NEW i \in DOMAIN s, i # k PROVE \E j \in DOMAIN r : r[j] = s[i]
  <2>1. CASE i < k
    <3>1. i \in 1..n /\ at(i) = i
      BY <1>1, <2>1
    <3>2. i \in DOMAIN r /\ r[i] = s[i]
      BY <1>2, <3>1
    <3> QED
      BY <3>2
  <2>2. CASE i > k
    <3>1. i - 1 \in 1..n /\ at(i-1) = i
      BY <1>1, <2>2
    <3>2. i - 1 \in DOMAIN r /\ r[i-1] = s[at(i-1)]
      BY <1>2, <3>1
    <3> HIDE DEF at
    <3> QED
      BY <3>1, <3>2
  <2> QED
    BY <1>1, <1>5, <2>1, <2>2
<1>6. ASSUME NEW b \in Bags PROVE Has(r, b) <=> b # s[k].bag /\ Has(s, b)
  <2>1. b # NoBag
    BY ThingIs
  <2>2. ASSUME Has(r, b) PROVE b # s[k].bag /\ Has(s, b)
    <3>1. PICK j \in 1..n : r[j].bag = b
      BY <1>2, <2>2 DEF Has
    <3>2. at(j) \in DOMAIN s /\ at(j) # k /\ s[at(j)].bag = b
      BY <1>2, <1>3, <3>1
    <3> HIDE DEF at
    <3> QED
      BY <2>1, <3>2 DEF Has, EachOnce
  <2>3. ASSUME b # s[k].bag, Has(s, b) PROVE Has(r, b)
    BY <1>5, <2>3 DEF Has
  <2> QED
    BY <2>2, <2>3
<1>7. EachOnce(r)
  <2> SUFFICES ASSUME NEW i \in 1..n, NEW j \in 1..n, r[i].bag = r[j].bag, r[i].bag # NoBag
               PROVE  i = j
    BY <1>2 DEF EachOnce
  <2>1. at(i) = at(j)
    <3>1. at(i) \in DOMAIN s /\ at(j) \in DOMAIN s /\ r[i] = s[at(i)] /\ r[j] = s[at(j)]
      BY <1>2, <1>3
    <3> HIDE DEF at
    <3> QED
      BY <3>1 DEF EachOnce
  <2> QED
    BY <1>1, <2>1
<1> QED
  BY <1>2, <1>4, <1>6, <1>7 DEF r

LEMMA LeastOfTwo ==
  ASSUME NEW a \in Int, NEW b \in Int
  PROVE  Min({a, b}) = IF a =< b THEN a ELSE b
<1> DEFINE m == IF a =< b THEN a ELSE b
<1>1. m \in {a, b} /\ \A y \in {a, b} : m =< y
  OBVIOUS
<1>2. Min({a, b}) \in {a, b} /\ \A y \in {a, b} : Min({a, b}) =< y
  BY <1>1 DEF Min
<1> QED
  BY <1>1, <1>2

(* The last of some places of a list. *)
LEMMA LastIsIn ==
  ASSUME NEW n \in Nat, NEW S \in SUBSET (1..n), S # {}
  PROVE  Max(S) \in S
<1> DEFINE T == {n - i : i \in S}
<1>1. T \in SUBSET Nat /\ T # {}
  <2>1. \A i \in S : n - i \in Nat
    OBVIOUS
  <2> QED
    BY <2>1
<1>2. PICK x \in T : \A y \in T : x =< y
  <2> HIDE DEF T
  <2> QED
    BY <1>1, HasLeast
<1>3. PICK i \in S : x = n - i
  BY <1>2
<1>4. \A j \in S : i >= j
  BY <1>2, <1>3
<1> QED
  BY <1>4 DEF Max

(* Coins that are taken from a stack. *)
LEMMA CoinsTaken ==
  ASSUME NEW s \in Seq(Things), EachOnce(s), NEW i \in DOMAIN s, s[i].bag = NoBag,
         NEW m \in 1..MaxStack, m =< s[i].coins
  PROVE  /\ Without(s, i, m) \in Seq(Things)
         /\ CoinsIn(Without(s, i, m)) = CoinsIn(s) - m
         /\ SameBags(s, Without(s, i, m))
<1>1. s[i] \in Things /\ s[i].coins \in 1..MaxStack /\ CoinsIn(s) \in Int
  BY CoinsAre, ThingIs
<1>2. CASE m < s[i].coins
  <2>1. s[i].coins - m \in 1..MaxStack
    BY <1>1, <1>2, ThingIs
  <2>2. Without(s, i, m) = [s EXCEPT ![i].coins = s[i].coins - m]
    BY <1>2 DEF Without, isStackable
  <2>3. /\ [s EXCEPT ![i].coins = s[i].coins - m] \in Seq(Things)
        /\ CoinsIn([s EXCEPT ![i].coins = s[i].coins - m])
             = CoinsIn(s) + (s[i].coins - m) - s[i].coins
        /\ SameBags(s, [s EXCEPT ![i].coins = s[i].coins - m])
    BY <2>1, CoinsSet
  <2> QED
    BY <1>1, <2>2, <2>3
<1>3. CASE ~(m < s[i].coins)
  <2>1. m = s[i].coins /\ Without(s, i, m) = RemoveAt(s, i)
    BY <1>1, <1>3 DEF Without
  <2>2. /\ RemoveAt(s, i) \in Seq(Things) /\ EachOnce(RemoveAt(s, i))
        /\ CoinsIn(RemoveAt(s, i)) = CoinsIn(s) - m
        /\ \A b \in Bags : Has(RemoveAt(s, i), b) <=> b # NoBag /\ Has(s, b)
    BY <2>1, TakenOut
  <2> QED
    BY <2>1, <2>2, ThingIs DEF SameBags
<1> QED
  BY <1>2, <1>3

(* How many of n coins are left at each place of a list when they are poured
   into its stacks from the last to the first. *)
Leaves(s, n, l) ==
  l = [i \in 1..(Len(s) + 1) |->
         IF i > Len(s) THEN n ELSE LET rest == l[i+1] IN rest - Min({Room(s[i]), rest})]

LEMMA LeavesExist ==
  ASSUME NEW s \in Seq(Things), NEW n \in Nat
  PROVE  \E l : Leaves(s, n, l)
<1> DEFINE N == Len(s)
           Step(i, rest) == rest - Min({Room(s[i]), rest})
           From(m, l) == /\ l \in [m..(N+1) -> Int] /\ l[N+1] = n
                         /\ \A i \in m..N : l[i] = Step(i, l[i+1])
           Bad == {k \in 0..N : ~\E l : From(N + 1 - k, l)}
<1>1. N \in Nat /\ \A i \in 1..N : s[i] \in Things
  OBVIOUS
<1> HIDE DEF N
<1>2. ASSUME NEW i \in 1..N, NEW rest \in Int PROVE Step(i, rest) \in Int
  <2>1. Room(s[i]) \in Int
    BY <1>1, ThingIs
  <2> QED
    BY <2>1, LeastOfTwo
<1>3. ASSUME Bad # {} PROVE FALSE
  <2>1. Bad \in SUBSET Nat
    BY <1>1
  <2>2. PICK k \in Bad : \A y \in Bad : k =< y
    <3> HIDE DEF Bad
    <3> QED
      BY <1>3, <2>1, HasLeast
  <2>3. From(N + 1 - 0, [i \in (N+1)..(N+1) |-> n])
    <3>1. N + 1 - 0 = N + 1 /\ N + 1 \in (N+1)..(N+1)
      BY <1>1
    <3>2. [i \in (N+1)..(N+1) |-> n] \in [(N+1)..(N+1) -> Int]
      OBVIOUS
    <3>3. \A i \in (N+1)..N : FALSE
      BY <1>1
    <3> QED
      BY <3>1, <3>2, <3>3
  <2> HIDE DEF From
  <2>4. k \in 1..N /\ k - 1 \in 0..N /\ ~(k =< k - 1)
    <3>1. k # 0 /\ k \in 0..N
      BY <2>2, <2>3
    <3> QED
      BY <1>1, <3>1
  <2> DEFINE m == N + 1 - k
  <2>5. m \in 1..N /\ N + 1 - (k - 1) = m + 1
    BY <1>1, <2>4
  <2>6. PICK l : From(m + 1, l)
    BY <2>2, <2>4, <2>5
  <2> HIDE DEF m
  <2>7. /\ l \in [(m+1)..(N+1) -> Int] /\ l[N+1] = n
        /\ \A i \in (m+1)..N : l[i] = Step(i, l[i+1])
    BY <2>6 DEF From
  <2> DEFINE h == [i \in m..(N+1) |-> IF i = m THEN Step(m, l[m+1]) ELSE l[i]]
  <2>8. ASSUME NEW i \in m..(N+1), i # m
        PROVE  i \in (m+1)..(N+1) /\ h[i] = l[i] /\ l[i] \in Int
    <3>1. i \in (m+1)..(N+1)
      BY <1>1, <2>5, <2>8
    <3> QED
      BY <2>7, <2>8, <3>1
  <2>9. m \in m..(N+1) /\ m + 1 \in (m+1)..(N+1) /\ N + 1 \in m..(N+1) /\ N + 1 # m
    BY <1>1, <2>5
  <2>10. h[m] = Step(m, l[m+1]) /\ l[m+1] \in Int
    BY <2>7, <2>9
  <2>11. Step(m, l[m+1]) \in Int
    BY <1>2, <2>5, <2>10
  <2>12. h \in [m..(N+1) -> Int]
    <3> HIDE DEF Step
    <3>1. \A i \in m..(N+1) : h[i] \in Int
      BY <2>8, <2>10, <2>11
    <3> QED
      BY <3>1
  <2>13. h[N+1] = n
    BY <2>7, <2>8, <2>9
  <2> HIDE DEF h
  <2>14. ASSUME NEW i \in m..N PROVE h[i] = Step(i, h[i+1])
    <3>1. i \in m..(N+1) /\ i + 1 \in m..(N+1) /\ i + 1 # m
      BY <1>1, <2>5
    <3>2. h[i+1] = l[i+1]
      BY <2>8, <3>1
    <3> HIDE DEF Step
    <3>3. CASE i = m
      BY <2>10, <3>2, <3>3
    <3>4. CASE i # m
      <4>1. i \in (m+1)..N
        BY <1>1, <2>5, <3>4
      <4>2. h[i] = l[i]
        BY <2>8, <3>1, <3>4
      <4> QED
        BY <2>7, <3>2, <4>1, <4>2
    <3> QED
      BY <3>3, <3>4
  <2>15. From(m, h)
    BY <2>12, <2>13, <2>14 DEF From
  <2> QED
    BY <2>2, <2>15 DEF m
<1>4. N \in 0..N /\ N + 1 - N = 1
  BY <1>1
<1>5. PICK l : From(1, l)
  <2> HIDE DEF From
  <2>1. \E l : From(N + 1 - N, l)
    BY <1>3, <1>4
  <2> QED
    BY <1>4, <2>1
<1>6. Leaves(s, n, l)
  <2>1. ASSUME NEW i \in 1..(N+1)
        PROVE  l[i] = IF i > N THEN n ELSE LET rest == l[i+1] IN rest - Min({Room(s[i]), rest})
    <3>1. CASE i = N + 1
      BY <1>1, <1>5, <3>1
    <3>2. CASE i # N + 1
      <4>1. i \in 1..N /\ ~(i > N)
        BY <1>1, <3>2
      <4> QED
        BY <1>5, <4>1
    <3> QED
      BY <3>1, <3>2
  <2>2. l = [i \in 1..(N+1) |-> l[i]]
    BY <1>5
  <2> QED
    BY <2>1, <2>2 DEF Leaves, N
<1> QED
  BY <1>6

(* Pouring makes the coins that are poured, and fills what there is first. *)
LEMMA CoinsPoured ==
  ASSUME NEW s \in Seq(Things), NEW n \in 1..MaxStack
  PROVE  /\ Poured(s, n) \in Seq(Things)
         /\ CoinsIn(Poured(s, n)) = CoinsIn(s) + n
         /\ SameBags(s, Poured(s, n))
<1> DEFINE N == Len(s)
           left == CHOOSE l : Leaves(s, n, l)
           filled == [i \in DOMAIN s |-> [s[i] EXCEPT !.coins = @ + left[i+1] - left[i]]]
<1>1. Poured(s, n) = IF left[1] > 0 THEN <<Coins(left[1])>> \o filled ELSE filled
  BY DEF Poured, Leaves
<1>2. Leaves(s, n, left)
  BY LeavesExist, ThingIs
<1>3. N \in Nat /\ DOMAIN s = 1..N /\ \A i \in 1..N : s[i] \in Things
  OBVIOUS
<1>4. /\ DOMAIN left = 1..(N+1) /\ left[N+1] = n
      /\ \A i \in 1..N : left[i] = left[i+1] - Min({Room(s[i]), left[i+1]})
  <2>1. \A i \in 1..(N+1) : left[i] = IF i > N THEN n ELSE left[i+1] - Min({Room(s[i]), left[i+1]})
    <3> HIDE DEF left
    <3> QED
      BY <1>2 DEF Leaves
  <2>2. DOMAIN left = 1..(N+1)
    <3> HIDE DEF left
    <3> QED
      BY <1>2 DEF Leaves
  <2> HIDE DEF left
  <2>3. N + 1 \in 1..(N+1) /\ N + 1 > N
    BY <1>3
  <2>4. ASSUME NEW i \in 1..N PROVE i \in 1..(N+1) /\ ~(i > N)
    BY <1>3
  <2> QED
    BY <2>1, <2>2, <2>3, <2>4
<1> HIDE DEF left, N
<1>5. n \in Nat /\ n > 0 /\ n =< MaxStack /\ MaxStack \in Nat
  BY ThingIs
<1>6. ASSUME NEW i \in 1..N, left[i+1] \in 0..n
      PROVE  left[i] \in 0..n /\ left[i+1] - left[i] \in 0..Room(s[i])
  <2>1. Room(s[i]) \in Nat
    BY <1>3, <1>5, ThingIs
  <2>2. Min({Room(s[i]), left[i+1]}) = IF Room(s[i]) =< left[i+1] THEN Room(s[i]) ELSE left[i+1]
    BY <1>5, <1>6, <2>1, LeastOfTwo
  <2> QED
    BY <1>4, <1>5, <1>6, <2>1, <2>2
<1>7. \A i \in 1..(N+1) : left[i] \in 0..n
  <2> DEFINE Bad == {k \in 0..N : left[N + 1 - k] \notin 0..n}
  <2>1. ASSUME Bad # {} PROVE FALSE
    <3>1. Bad \in SUBSET Nat
      BY <1>3
    <3>2. PICK k \in Bad : \A y \in Bad : k =< y
      <4> HIDE DEF Bad
      <4> QED
        BY <2>1, <3>1, HasLeast
    <3>3. N + 1 - 0 = N + 1 /\ n \in 0..n
      BY <1>3, <1>5
    <3>4. k # 0
      BY <1>4, <3>2, <3>3
    <3>5. /\ k - 1 \in 0..N /\ ~(k =< k - 1) /\ N + 1 - k \in 1..N
          /\ N + 1 - (k - 1) = (N + 1 - k) + 1
      BY <1>3, <3>2, <3>4
    <3>6. left[(N + 1 - k) + 1] \in 0..n
      BY <3>2, <3>5
    <3> QED
      BY <1>6, <3>2, <3>5, <3>6
  <2>2. ASSUME NEW i \in 1..(N+1) PROVE N + 1 - i \in 0..N /\ N + 1 - (N + 1 - i) = i
    BY <1>3
  <2> QED
    BY <2>1, <2>2
<1>8. ASSUME NEW i \in 1..N
      PROVE  left[i] \in 0..n /\ left[i+1] \in 0..n /\ left[i+1] - left[i] \in 0..Room(s[i])
  <2>1. i \in 1..(N+1) /\ i + 1 \in 1..(N+1)
    BY <1>3
  <2> QED
    BY <1>6, <1>7, <2>1
<1>9. ASSUME NEW i \in 1..N
      PROVE  /\ filled[i] \in Things /\ filled[i].bag = s[i].bag
             /\ filled[i].coins = s[i].coins + left[i+1] - left[i]
  <2>1. /\ s[i] \in [coins : 0..MaxStack, bag : Bags \cup {NoBag}] /\ s[i] \in Things
        /\ s[i].coins \in Int
    BY <1>3, ThingIs DEF Things
  <2> DEFINE c == s[i].coins + left[i+1] - left[i]
  <2>2. filled[i] = [s[i] EXCEPT !.coins = c]
    BY <1>3
  <2>3. left[i] \in Int /\ left[i+1] \in Int /\ left[i+1] - left[i] \in 0..Room(s[i])
    BY <1>5, <1>8
  <2>4. CASE s[i].bag = NoBag
    <3>1. c \in 1..MaxStack
      <4>1. Room(s[i]) = MaxStack - s[i].coins /\ s[i].coins > 0
        BY <2>1, <2>4, ThingIs
      <4> QED
        BY <1>5, <2>1, <2>3, <4>1
    <3> HIDE DEF c, filled
    <3>2. [s[i] EXCEPT !.coins = c] \in Things
      BY <1>5, <2>1, <2>4, <3>1 DEF Things
    <3>3. filled[i].bag = s[i].bag /\ filled[i].coins = c
      BY <2>1, <2>2
    <3> QED
      BY <2>2, <3>2, <3>3 DEF c
  <2>5. CASE s[i].bag # NoBag
    <3>1. c = s[i].coins
      <4>1. Room(s[i]) = 0
        BY <2>1, <2>5, ThingIs, <1>5
      <4> QED
        BY <2>1, <2>3, <4>1
    <3> HIDE DEF c, filled
    <3>2. filled[i] = s[i]
      BY <2>1, <2>2, <3>1
    <3> QED
      BY <2>1, <3>1, <3>2 DEF c
  <2> QED
    BY <2>4, <2>5
<1>10. DOMAIN filled = 1..N
  BY <1>3
<1>11. filled \in Seq(Things) /\ Len(filled) = N
  <2>1. filled \in [1..N -> Things]
    BY <1>3, <1>9
  <2> HIDE DEF filled
  <2> QED
    BY <1>3, <2>1, AsSeq
<1> HIDE DEF filled
<1>12. CoinsIn(filled) = CoinsIn(s) + n - left[1]
  <2> DEFINE f == [i \in DOMAIN s |-> s[i].coins]
             h == [i \in DOMAIN filled |-> filled[i].coins]
  <2>1. f \in [1..N -> Int] /\ h \in [1..N -> Int]
    BY <1>11, CoinsAre DEF N
  <2>2. ASSUME NEW i \in 1..N PROVE h[i] = f[i] + left[i+1] - left[i]
    BY <1>3, <1>9, <1>10
  <2>3. left \in [1..(N+1) -> Int]
    <3>1. \A i \in 1..(N+1) : left[i] \in Int
      BY <1>5, <1>7
    <3>2. left = [i \in 1..(N+1) |-> left[i]]
      BY <1>2, <1>4 DEF Leaves, N
    <3> QED
      BY <3>1, <3>2
  <2>4. Total(h) = Total(f) + left[N+1] - left[1]
    <3> HIDE DEF f, h
    <3> QED
      BY <1>3, <2>1, <2>2, <2>3, TotalSteps
  <2> QED
    BY <1>4, <2>4 DEF CoinsIn
<1>13. SameBags(s, filled)
  BY <1>3, <1>9, <1>10, <1>11, SamePlaces
<1>14. left[1] \in 0..n /\ CoinsIn(s) \in Int
  <2>1. 1 \in 1..(N+1)
    BY <1>3
  <2> QED
    BY <1>7, <2>1, CoinsAre
<1>15. CASE left[1] > 0
  <2>1. left[1] \in 1..MaxStack
    BY <1>5, <1>14, <1>15
  <2> DEFINE e == Coins(left[1])
  <2>2. e \in Things /\ e.coins = left[1] /\ e.bag = NoBag
    BY <2>1, ThingIs
  <2> HIDE DEF e
  <2>3. /\ <<e>> \o filled \in Seq(Things) /\ CoinsIn(<<e>> \o filled) = CoinsIn(filled) + left[1]
        /\ \A b \in Bags : Has(<<e>> \o filled, b) <=> b = NoBag \/ Has(filled, b)
        /\ EachOnce(filled) => EachOnce(<<e>> \o filled)
    BY <1>11, <2>2, PutInFront
  <2>4. SameBags(s, <<e>> \o filled)
    BY <1>13, <2>3, ThingIs DEF SameBags
  <2>5. CoinsIn(<<e>> \o filled) = CoinsIn(s) + n
    BY <1>5, <1>12, <1>14, <2>3
  <2> QED
    BY <1>1, <1>15, <2>3, <2>4, <2>5 DEF e
<1>16. CASE ~(left[1] > 0)
  <2>1. CoinsIn(filled) = CoinsIn(s) + n
    BY <1>5, <1>12, <1>14, <1>16
  <2> QED
    BY <1>1, <1>11, <1>13, <1>16, <2>1
<1> QED
  BY <1>15, <1>16
-----------------------------------------------------------------------------
(* Every container but the chest lies in one place of one container, and a set
   that has a container and those around its members has the chest. *)
ClosedUp(C) == \A c, d \in Bags : d \in C /\ Holds(c, d) => c \in C

OnePlace ==
  /\ \A b \in Bags : EachOnce(inside[b])
  /\ \A b, c, x \in Bags : Holds(b, x) /\ Holds(c, x) => b = c
  /\ \A x \in Bags : x # Chest <=> \E c \in Bags : Holds(c, x)
  /\ \A b \in Bags : Chest \in AboveOf(b)

AllCoins(w) == Total([b \in Bags |-> CoinsIn(w[b])])

ContainersIInv ==
  /\ inside \in [Bags -> Seq(Things)]
  /\ minted = AllCoins(inside)
  /\ OnePlace

LEMMA HoldsHas == \A c, b : Holds(c, b) <=> Has(inside[c], b)
  BY DEF Holds, Has

LEMMA AllCoinsType ==
  ASSUME NEW w \in [Bags -> Seq(Things)]
  PROVE  AllCoins(w) \in Int
<1> DEFINE f == [b \in Bags |-> CoinsIn(w[b])]
<1>1. f \in [Bags -> Int]
  BY CoinsAre
<1> HIDE DEF f
<1>2. f \in [1..BagCount -> Int] /\ BagCount \in Nat
  BY <1>1, ThingIs DEF Bags
<1>3. Total(f) \in Int
  BY <1>2, TotalType
<1> QED
  BY <1>3 DEF AllCoins, f

(* The sum over the containers when one of the lists changes. *)
LEMMA WorldTotal ==
  ASSUME NEW w \in [Bags -> Seq(Things)], NEW b \in Bags, NEW r \in Seq(Things)
  PROVE  /\ [w EXCEPT ![b] = r] \in [Bags -> Seq(Things)]
         /\ AllCoins([w EXCEPT ![b] = r]) = AllCoins(w) + CoinsIn(r) - CoinsIn(w[b])
<1> DEFINE v == [w EXCEPT ![b] = r]
           f == [c \in Bags |-> CoinsIn(w[c])]
           h == [c \in Bags |-> CoinsIn(v[c])]
<1>1. v \in [Bags -> Seq(Things)] /\ v[b] = r /\ \A c \in Bags \ {b} : v[c] = w[c]
  OBVIOUS
<1> HIDE DEF v
<1>2. f \in [1..BagCount -> Int] /\ h \in [1..BagCount -> Int]
  <2>1. \A c \in Bags : CoinsIn(w[c]) \in Int /\ CoinsIn(v[c]) \in Int
    BY <1>1, CoinsAre
  <2>2. f \in [Bags -> Int] /\ h \in [Bags -> Int]
    BY <2>1
  <2> HIDE DEF f, h
  <2> QED
    BY <2>2 DEF Bags
<1>3. h[b] = CoinsIn(r) /\ f[b] = CoinsIn(w[b]) /\ \A c \in Bags : c # b => h[c] = f[c]
  BY <1>1
<1>4. Total(h) = Total(f) + h[b] - f[b] /\ Total(f) \in Int
  <2> HIDE DEF f, h
  <2>1. b \in 1..BagCount /\ BagCount \in Nat /\ \A c \in 1..BagCount : c # b => h[c] = f[c]
    BY <1>3, ThingIs
  <2> QED
    BY <1>2, <2>1, TotalChanged, TotalType
<1>5. Total(f) = AllCoins(w) /\ Total(h) = AllCoins(v)
  BY DEF AllCoins
<1> HIDE DEF f, h
<1> QED
  BY <1>1, <1>3, <1>4, <1>5 DEF v

(* Where something goes is a place of a container, or one that does not exist
   yet. *)
LEMMA DestinationIs ==
  ASSUME inside \in [Bags -> Seq(Things)], NEW from \in Bags, NEW e \in Things,
         NEW to \in Bags, NEW index \in (0..MaxSize[to]) \cup {Up}
  PROVE  LET d == Destination(from, e, to, index)
         IN  d.bag \in Bags /\ d.item \in {0} \cup DOMAIN inside[d.bag]
<1> DEFINE stacks(b) == IF isStackable(e) /\ b # from
                        THEN {i \in DOMAIN inside[b] : Room(inside[b][i]) > 0} ELSE {}
           at(b, i) == IF stacks(b) # {}
                       THEN [bag |-> b, index |-> Max(stacks(b)), item |-> Max(stacks(b))]
                       ELSE [bag |-> b, index |-> i,
                             item |-> IF i + 1 \in DOMAIN inside[b] THEN i + 1 ELSE 0]
           parents == {c \in Bags : Holds(c, to)}
           inner == index + 1 \in DOMAIN inside[to] /\ inside[to][index + 1].bag # NoBag
           d == Destination(from, e, to, index)
<1>1. ASSUME NEW b \in Bags, NEW i
      PROVE  at(b, i).bag = b /\ at(b, i).item \in {0} \cup DOMAIN inside[b]
  <2>1. CASE stacks(b) # {}
    <3>1. Len(inside[b]) \in Nat /\ stacks(b) \in SUBSET (1..Len(inside[b]))
      BY CoinsAre
    <3>2. Max(stacks(b)) \in stacks(b)
      <4> HIDE DEF stacks
      <4> QED
        BY <2>1, <3>1, LastIsIn
    <3>3. stacks(b) \subseteq DOMAIN inside[b]
      OBVIOUS
    <3> HIDE DEF stacks
    <3> QED
      BY <2>1, <3>2, <3>3
  <2>2. CASE ~(stacks(b) # {})
    <3> HIDE DEF stacks
    <3> QED
      BY <2>2
  <2> QED
    BY <2>1, <2>2
<1>2. \/ d = [bag |-> to, index |-> Wherever, item |-> 0]
      \/ parents # {} /\ d = at(CHOOSE c \in parents : TRUE, Wherever)
      \/ d = at(to, Wherever)
      \/ inner /\ d = at(inside[to][index + 1].bag, Wherever)
      \/ d = at(to, index)
  BY DEF Destination
<1>3. inner => inside[to][index + 1].bag \in Bags
  BY ThingIs
<1>4. parents # {} => (CHOOSE c \in parents : TRUE) \in Bags
  OBVIOUS
<1> HIDE DEF at, parents, inner, d
<1> QED
  BY <1>1, <1>2, <1>3, <1>4 DEF d

(* What the limit comes to is a number. *)
LEMMA MaxCountType ==
  ASSUME inside \in [Bags -> Seq(Things)], NEW b, NEW i, NEW e, NEW d, d.bag \in Bags
  PROVE  MaxCount(b, i, e, d) \in Int
<1> DEFINE s == inside[d.bag]
           f == [j \in DOMAIN s |-> IF <<d.bag, j>> = <<b, i>> THEN 0 ELSE Room(s[j])]
<1>1. Len(s) \in Nat /\ DOMAIN s = 1..Len(s) /\ \A j \in DOMAIN s : s[j] \in Things
  BY CoinsAre
<1>2. \A j \in DOMAIN s : Room(s[j]) \in Int
  BY <1>1, ThingIs
<1>3. f \in [1..Len(s) -> Int]
  BY <1>1, <1>2
<1>4. Total(f) \in Int
  <2> HIDE DEF f
  <2> QED
    BY <1>1, <1>3, TotalType
<1>5. Free(d.bag) \in Int /\ Free(d.bag) * MaxStack \in Int
  <2>1. MaxSize[d.bag] \in Int /\ MaxStack \in Int
    BY ContainerAssumption
  <2>2. Free(d.bag) \in Int
    BY <1>1, <2>1 DEF Free
  <2> QED
    BY <2>1, <2>2
<1>6. MaxCount(b, i, e, d) = IF ~isStackable(e) THEN Free(d.bag)
                             ELSE Free(d.bag) * MaxStack +
                                  IF d.index = Wherever THEN Total(f)
                                  ELSE IF d.index \in DOMAIN s THEN Room(s[d.index]) ELSE 0
  BY DEF MaxCount
<1> HIDE DEF f, s
<1> QED
  BY <1>2, <1>4, <1>5, <1>6

(* From w to v nothing happens to the containers, and k coins are made. *)
World(w) == w \in [Bags -> Seq(Things)] /\ \A b \in Bags : EachOnce(w[b])
Grown(w, v, k) ==
  World(v) /\ AllCoins(v) = AllCoins(w) + k /\ \A b \in Bags : SameBags(w[b], v[b])

LEMMA GrownTwice ==
  ASSUME NEW w, NEW v, NEW u, NEW j \in Int, NEW k \in Int, World(w), Grown(w, v, j),
         Grown(v, u, k)
  PROVE  Grown(w, u, j + k)
<1>1. AllCoins(w) \in Int
  BY AllCoinsType DEF World, Grown
<1>2. AllCoins(u) = AllCoins(w) + (j + k)
  BY <1>1 DEF Grown
<1>3. \A b \in Bags : SameBags(w[b], u[b])
  BY DEF Grown, SameBags
<1> QED
  BY <1>2, <1>3 DEF Grown

LEMMA OneListGrown ==
  ASSUME NEW w, World(w), NEW b \in Bags, NEW r \in Seq(Things), SameBags(w[b], r),
         NEW k \in Int, CoinsIn(r) = CoinsIn(w[b]) + k
  PROVE  Grown(w, [w EXCEPT ![b] = r], k)
<1> DEFINE v == [w EXCEPT ![b] = r]
<1>1. w \in [Bags -> Seq(Things)] /\ w[b] \in Seq(Things)
  BY DEF World
<1>2. v[b] = r /\ \A c \in Bags \ {b} : v[c] = w[c]
  BY <1>1
<1>3. /\ v \in [Bags -> Seq(Things)] /\ AllCoins(v) = AllCoins(w) + CoinsIn(r) - CoinsIn(w[b])
      /\ AllCoins(w) \in Int /\ CoinsIn(w[b]) \in Int
  BY <1>1, WorldTotal, AllCoinsType, CoinsAre
<1> HIDE DEF v
<1>4. AllCoins(v) = AllCoins(w) + k
  BY <1>3
<1>5. \A c \in Bags : SameBags(w[c], v[c]) /\ EachOnce(v[c])
  BY <1>2 DEF SameBags, World
<1>6. Grown(w, v, k)
  BY <1>3, <1>4, <1>5 DEF Grown, World
<1> QED
  BY <1>6 DEF v

(* Coins that are added to a stack, taken from one, and made a new one. *)
LEMMA StackFilled ==
  ASSUME NEW w, World(w), NEW b \in Bags, NEW j \in DOMAIN w[b], NEW k \in 1..Room(w[b][j])
  PROVE  /\ Grown(w, [w EXCEPT ![b] = WithMore(@, j, k)], k)
         /\ \A c \in Bags : \A i \in DOMAIN w[c] : <<c, i>> # <<b, j>> =>
              LET v == [w EXCEPT ![b] = WithMore(@, j, k)]
              IN  i \in DOMAIN v[c] /\ v[c][i] = w[c][i]
<1> DEFINE s == w[b]
           n == s[j].coins + k
           r == [s EXCEPT ![j].coins = n]
           v == [w EXCEPT ![b] = r]
<1>1. w \in [Bags -> Seq(Things)] /\ s \in Seq(Things) /\ s[j] \in Things
  BY CoinsAre DEF World
<1>2. k \in Int /\ s[j].bag = NoBag /\ n \in 1..MaxStack /\ s[j].coins \in Int
  <2>1. /\ Room(s[j]) > 0 /\ Room(s[j]) \in 0..MaxStack /\ s[j].coins \in 0..MaxStack
        /\ MaxStack \in Nat
    BY <1>1, ThingIs
  <2>2. s[j].bag = NoBag /\ Room(s[j]) = MaxStack - s[j].coins
    BY <1>1, <2>1, ThingIs
  <2> QED
    BY <2>1, <2>2
<1>3. [w EXCEPT ![b] = WithMore(@, j, k)] = v
  <2>1. WithMore(s, j, k) = r
    BY DEF WithMore
  <2> QED
    BY <2>1
<1> HIDE DEF n
<1>4. /\ r \in Seq(Things) /\ CoinsIn(r) = CoinsIn(s) + n - s[j].coins /\ SameBags(s, r)
      /\ DOMAIN r = DOMAIN s /\ \A i \in DOMAIN s \ {j} : r[i] = s[i]
  <2>1. j \in DOMAIN s
    OBVIOUS
  <2> HIDE DEF s
  <2> QED
    BY <1>1, <1>2, <2>1, CoinsSet
<1>5. v[b] = r /\ \A c \in Bags \ {b} : v[c] = w[c]
  BY <1>1
<1> HIDE DEF r
<1>6. CoinsIn(r) = CoinsIn(s) + k
  <2>1. CoinsIn(s) \in Int
    BY <1>1, CoinsAre
  <2> QED
    BY <1>2, <1>4, <2>1 DEF n
<1>7. Grown(w, v, k)
  BY <1>1, <1>2, <1>4, <1>6, OneListGrown
<1> HIDE DEF v
<1>8. ASSUME NEW c \in Bags, NEW i \in DOMAIN w[c], <<c, i>> # <<b, j>>
      PROVE  i \in DOMAIN v[c] /\ v[c][i] = w[c][i]
  <2>1. CASE c = b
    BY <1>4, <1>5, <1>8, <2>1
  <2>2. CASE c # b
    BY <1>5, <2>2
  <2> QED
    BY <2>1, <2>2
<1> QED
  BY <1>3, <1>7, <1>8

LEMMA StackTaken ==
  ASSUME NEW w, World(w), NEW b \in Bags, NEW i \in DOMAIN w[b], w[b][i].bag = NoBag,
         NEW m \in 1..MaxStack, m =< w[b][i].coins
  PROVE  Grown(w, [w EXCEPT ![b] = Without(@, i, m)], -m)
<1> DEFINE s == w[b]
           r == Without(s, i, m)
<1>1. s \in Seq(Things) /\ EachOnce(s) /\ CoinsIn(s) \in Int /\ m \in Int /\ -m \in Int
  BY CoinsAre, ThingIs DEF World
<1>2. r \in Seq(Things) /\ CoinsIn(r) = CoinsIn(s) - m /\ SameBags(s, r)
  BY <1>1, CoinsTaken
<1>3. [w EXCEPT ![b] = Without(@, i, m)] = [w EXCEPT ![b] = r]
  OBVIOUS
<1> HIDE DEF r
<1>4. CoinsIn(r) = CoinsIn(s) + (-m)
  BY <1>1, <1>2
<1>5. Grown(w, [w EXCEPT ![b] = r], -m)
  BY <1>1, <1>2, <1>4, OneListGrown
<1> QED
  BY <1>3, <1>5

LEMMA StackMade ==
  ASSUME NEW w, World(w), NEW b \in Bags, NEW n \in 1..MaxStack
  PROVE  Grown(w, [w EXCEPT ![b] = <<Coins(n)>> \o @], n)
<1> DEFINE e == Coins(n)
           s == w[b]
           r == <<e>> \o s
<1>1. s \in Seq(Things) /\ n \in Int
  BY ThingIs DEF World
<1>2. e \in Things /\ e.coins = n /\ e.bag = NoBag
  BY ThingIs
<1>3. [w EXCEPT ![b] = <<Coins(n)>> \o @] = [w EXCEPT ![b] = r]
  OBVIOUS
<1> HIDE DEF e
<1>4. /\ r \in Seq(Things) /\ CoinsIn(r) = CoinsIn(s) + n
      /\ \A c \in Bags : Has(r, c) <=> c = NoBag \/ Has(s, c)
      /\ EachOnce(s) => EachOnce(r)
  BY <1>1, <1>2, PutInFront
<1> HIDE DEF r
<1>5. SameBags(s, r)
  BY <1>4, ThingIs DEF SameBags
<1>6. Grown(w, [w EXCEPT ![b] = r], n)
  BY <1>1, <1>4, <1>5, OneListGrown
<1> QED
  BY <1>3, <1>6

(* Where only coins move, the containers stay as they are. *)
LEMMA CoinsKeepPlaces ==
  ASSUME ContainersIInv, NEW k \in Int, Grown(inside, inside', k), minted' = minted + k
  PROVE  ContainersIInv'
<1>1. \A c, b \in Bags : Holds(c, b)' <=> Holds(c, b)
  BY DEF Grown, SameBags, Holds, Has
<1>2. \A b \in Bags : EachOnce(inside'[b])
  BY DEF Grown, World
<1>3. \A b \in Bags : AboveOf(b)' = AboveOf(b)
  BY <1>1 DEF AboveOf
<1>4. OnePlace'
  BY <1>1, <1>2, <1>3 DEF ContainersIInv, OnePlace
<1>5. inside' \in [Bags -> Seq(Things)] /\ minted' = AllCoins(inside')
  BY DEF Grown, World, ContainersIInv
<1> QED
  BY <1>4, <1>5 DEF ContainersIInv

LEMMA AddCoinsKeeps ==
  ASSUME ContainersIInv, NEW b \in Bags, NEW n \in 1..MaxStack, AddCoins(b, n)
  PROVE  ContainersIInv'
<1> DEFINE r == Poured(inside[b], n)
<1>1. inside' = [inside EXCEPT ![b] = r] /\ minted' = minted + n
  BY DEF AddCoins
<1>2. World(inside) /\ inside[b] \in Seq(Things) /\ n \in Int
  BY ThingIs DEF ContainersIInv, OnePlace, World
<1>3. r \in Seq(Things) /\ CoinsIn(r) = CoinsIn(inside[b]) + n /\ SameBags(inside[b], r)
  BY <1>2, CoinsPoured
<1> HIDE DEF r
<1>4. Grown(inside, inside', n)
  BY <1>1, <1>2, <1>3, OneListGrown
<1> QED
  BY <1>1, <1>2, <1>4, CoinsKeepPlaces

LEMMA SpendCoinsKeeps ==
  ASSUME ContainersIInv, NEW b \in Bags, NEW i \in DOMAIN inside[b], NEW n \in 1..MaxStack,
         SpendCoins(b, i, n)
  PROVE  ContainersIInv'
<1>1. /\ inside' = [inside EXCEPT ![b] = Without(@, i, n)] /\ minted' = minted - n
      /\ inside[b][i].bag = NoBag /\ n =< inside[b][i].coins
  BY DEF SpendCoins, isStackable
<1>2. World(inside) /\ minted \in Int /\ n \in Int /\ -n \in Int
  BY ThingIs, AllCoinsType DEF ContainersIInv, OnePlace, World
<1>3. Grown(inside, inside', -n)
  BY <1>1, <1>2, StackTaken
<1>4. minted' = minted + (-n)
  BY <1>1, <1>2
<1> QED
  BY <1>2, <1>3, <1>4, CoinsKeepPlaces

(* A container that is taken out of one list and put in front of another. *)
LEMMA BagTaken ==
  ASSUME NEW w, World(w), NEW b \in Bags, NEW i \in DOMAIN w[b], w[b][i].bag # NoBag
  PROVE  LET v == [w EXCEPT ![b] = RemoveAt(@, i)]
         IN  /\ World(v) /\ AllCoins(v) = AllCoins(w)
             /\ \A c, y \in Bags : Has(v[c], y) <=> Has(w[c], y) /\ ~(c = b /\ y = w[b][i].bag)
<1> DEFINE s == w[b]
           r == RemoveAt(s, i)
           v == [w EXCEPT ![b] = r]
<1>1. /\ w \in [Bags -> Seq(Things)] /\ s \in Seq(Things) /\ EachOnce(s)
      /\ s[i].coins = 0 /\ AllCoins(w) \in Int /\ CoinsIn(s) \in Int
  BY CoinsAre, AllCoinsType, ThingIs DEF World
<1>2. /\ r \in Seq(Things) /\ CoinsIn(r) = CoinsIn(s) - 0 /\ EachOnce(r)
      /\ \A y \in Bags : Has(r, y) <=> y # s[i].bag /\ Has(s, y)
  BY <1>1, TakenOut
<1>3. [w EXCEPT ![b] = RemoveAt(@, i)] = v
  OBVIOUS
<1> HIDE DEF r
<1>4. v[b] = r /\ \A c \in Bags \ {b} : v[c] = w[c]
  BY <1>1
<1>5. v \in [Bags -> Seq(Things)] /\ AllCoins(v) = AllCoins(w) + CoinsIn(r) - CoinsIn(s)
  BY <1>1, <1>2, WorldTotal
<1> HIDE DEF v
<1>6. World(v) /\ AllCoins(v) = AllCoins(w)
  <2>1. World(v)
    BY <1>2, <1>4, <1>5 DEF World
  <2>2. AllCoins(v) = AllCoins(w)
    BY <1>1, <1>2, <1>5
  <2> QED
    BY <2>1, <2>2
<1>7. \A c, y \in Bags : Has(v[c], y) <=> Has(w[c], y) /\ ~(c = b /\ y = s[i].bag)
  BY <1>2, <1>4
<1> QED
  BY <1>3, <1>6, <1>7

LEMMA BagPut ==
  ASSUME NEW w, World(w), NEW b \in Bags, NEW e \in Things, e.bag # NoBag, ~Has(w[b], e.bag)
  PROVE  LET v == [w EXCEPT ![b] = <<e>> \o @]
         IN  /\ World(v) /\ AllCoins(v) = AllCoins(w)
             /\ \A c, y \in Bags : Has(v[c], y) <=> Has(w[c], y) \/ (c = b /\ y = e.bag)
<1> DEFINE s == w[b]
           r == <<e>> \o s
           v == [w EXCEPT ![b] = r]
<1>1. /\ w \in [Bags -> Seq(Things)] /\ s \in Seq(Things) /\ EachOnce(s)
      /\ e.coins = 0 /\ AllCoins(w) \in Int /\ CoinsIn(s) \in Int
  BY CoinsAre, AllCoinsType, ThingIs DEF World
<1>2. /\ r \in Seq(Things) /\ CoinsIn(r) = CoinsIn(s) + 0 /\ EachOnce(r)
      /\ \A y \in Bags : Has(r, y) <=> y = e.bag \/ Has(s, y)
  BY <1>1, PutInFront
<1>3. [w EXCEPT ![b] = <<e>> \o @] = v
  OBVIOUS
<1> HIDE DEF r
<1>4. v[b] = r /\ \A c \in Bags \ {b} : v[c] = w[c]
  BY <1>1
<1>5. v \in [Bags -> Seq(Things)] /\ AllCoins(v) = AllCoins(w) + CoinsIn(r) - CoinsIn(s)
  BY <1>1, <1>2, WorldTotal
<1> HIDE DEF v
<1>6. World(v) /\ AllCoins(v) = AllCoins(w)
  <2>1. World(v)
    BY <1>2, <1>4, <1>5 DEF World
  <2>2. AllCoins(v) = AllCoins(w)
    BY <1>1, <1>2, <1>5
  <2> QED
    BY <2>1, <2>2
<1>7. \A c, y \in Bags : Has(v[c], y) <=> Has(w[c], y) \/ (c = b /\ y = e.bag)
  BY <1>2, <1>4
<1> QED
  BY <1>3, <1>6, <1>7

(* What hangs on the chest still does when x is moved into b, which is not in
   x: a set that has the containers around its members has b with x, and with b
   the containers that were around b all along. *)
LEMMA StillHangs ==
  ASSUME NEW x \in Bags, NEW b \in Bags, x \notin AboveOf(b),
         \A c \in Bags : Chest \in AboveOf(c),
         \A c, y \in Bags : Holds(c, y)' <=> IF y = x THEN c = b ELSE Holds(c, y)
  PROVE  \A y \in Bags : Chest \in AboveOf(y)'
<1>1. ASSUME NEW z \in Bags, NEW C \in SUBSET Bags, z \in C, ClosedUp(C) PROVE Chest \in C
  BY <1>1 DEF AboveOf, ClosedUp
<1>2. b \in AboveOf(b) /\ ClosedUp(AboveOf(b)) /\ AboveOf(b) \in SUBSET Bags
  BY DEF AboveOf, ClosedUp
<1>3. ASSUME NEW y \in Bags, NEW C \in SUBSET Bags, y \in C,
             \A c, d \in Bags : d \in C /\ Holds(c, d)' => c \in C
      PROVE  Chest \in C
  <2>1. CASE x \notin C
    <3>1. ClosedUp(C)
      BY <1>3, <2>1 DEF ClosedUp
    <3> QED
      BY <1>1, <1>3, <3>1
  <2>2. CASE x \in C
    <3> DEFINE D == C \cap AboveOf(b)
    <3>1. b \in D /\ D \in SUBSET Bags
      BY <1>2, <1>3, <2>2
    <3>2. ASSUME NEW c \in Bags, NEW d \in Bags, d \in D, Holds(c, d) PROVE c \in D
      <4>1. c \in C
        BY <1>3, <3>2
      <4>2. c \in AboveOf(b)
        BY <1>2, <3>2 DEF ClosedUp
      <4> QED
        BY <4>1, <4>2
    <3>3. ClosedUp(D)
      BY <3>2 DEF ClosedUp
    <3> HIDE DEF D
    <3>4. Chest \in D
      BY <1>1, <3>1, <3>3
    <3> QED
      BY <3>4 DEF D
  <2> QED
    BY <2>1, <2>2
<1> QED
  BY <1>3, ThingIs DEF AboveOf

LEMMA BagMovedKeeps ==
  ASSUME ContainersIInv, NEW from \in Bags, NEW i \in DOMAIN inside[from],
         NEW x \in Bags, inside[from][i].bag = x, NEW b \in Bags, x \notin AboveOf(b),
         UNCHANGED minted,
         inside' = [[inside EXCEPT ![from] = RemoveAt(@, i)] EXCEPT
                      ![b] = <<inside[from][i]>> \o @]
  PROVE  ContainersIInv'
<1> DEFINE e == inside[from][i]
           left == [inside EXCEPT ![from] = RemoveAt(@, i)]
<1>1. World(inside) /\ minted = AllCoins(inside) /\ inside \in [Bags -> Seq(Things)]
  BY DEF ContainersIInv, OnePlace, World
<1>2. /\ \A c, d, y \in Bags : Holds(c, y) /\ Holds(d, y) => c = d
      /\ \A y \in Bags : y # Chest <=> \E c \in Bags : Holds(c, y)
      /\ \A c \in Bags : Chest \in AboveOf(c)
  BY DEF ContainersIInv, OnePlace
<1>3. e \in Things /\ e.bag = x /\ x # NoBag /\ Holds(from, x)
  BY <1>1, CoinsAre, ThingIs DEF Holds
<1>4. /\ World(left) /\ AllCoins(left) = AllCoins(inside)
      /\ \A c, y \in Bags : Has(left[c], y) <=> Has(inside[c], y) /\ ~(c = from /\ y = x)
  BY <1>1, <1>3, BagTaken
<1>5. inside' = [left EXCEPT ![b] = <<e>> \o @]
  OBVIOUS
<1> HIDE DEF left, e
<1>6. \A c, y \in Bags : Has(left[c], y) <=> y # x /\ Holds(c, y)
  BY <1>2, <1>3, <1>4, HoldsHas
<1>7. /\ World(inside') /\ AllCoins(inside') = AllCoins(left)
      /\ \A c, y \in Bags : Has(inside'[c], y) <=> Has(left[c], y) \/ (c = b /\ y = x)
  <2> DEFINE v == [left EXCEPT ![b] = <<e>> \o @]
  <2>1. ~Has(left[b], e.bag)
    BY <1>3, <1>6
  <2>2. /\ World(v) /\ AllCoins(v) = AllCoins(left)
        /\ \A c, y \in Bags : Has(v[c], y) <=> Has(left[c], y) \/ (c = b /\ y = e.bag)
    BY <1>3, <1>4, <2>1, BagPut
  <2>3. inside' = v
    BY <1>5
  <2> HIDE DEF v
  <2> QED
    BY <1>3, <2>2, <2>3
<1>8. \A c, y \in Bags : Holds(c, y)' <=> IF y = x THEN c = b ELSE Holds(c, y)
  <2>1. \A c, y \in Bags : Holds(c, y)' <=> Has(inside'[c], y)
    BY DEF Holds, Has
  <2> QED
    BY <1>6, <1>7, <2>1
<1>9. x # Chest
  BY <1>2, <1>3
<1>10. \A c, d, y \in Bags : Holds(c, y)' /\ Holds(d, y)' => c = d
  BY <1>2, <1>8
<1>11. \A y \in Bags : y # Chest <=> \E c \in Bags : Holds(c, y)'
  BY <1>2, <1>8, <1>9
<1>12. \A y \in Bags : Chest \in AboveOf(y)'
  BY <1>2, <1>8, StillHangs
<1>13. OnePlace'
  BY <1>7, <1>10, <1>11, <1>12 DEF OnePlace, World
<1>14. inside' \in [Bags -> Seq(Things)] /\ minted' = AllCoins(inside')
  BY <1>1, <1>4, <1>7 DEF World
<1> QED
  BY <1>13, <1>14 DEF ContainersIInv

LEMMA MoveInsideKeeps ==
  ASSUME ContainersIInv, NEW from \in Bags, NEW i \in DOMAIN inside[from],
         NEW count \in 1..MaxStack, NEW to \in Bags,
         NEW index \in (0..MaxSize[to]) \cup {Up}, MoveInside(from, i, count, to, index)
  PROVE  ContainersIInv'
<1> DEFINE e == inside[from][i]
           d == Destination(from, e, to, index)
           max == MaxCount(from, i, e, d)
           m == IF isStackable(e) THEN Min({count, max}) ELSE max
           stacked == IF isStackable(e) /\ d.item # 0
                      THEN Min({Room(inside[d.bag][d.item]), m}) ELSE 0
           merged == [inside EXCEPT ![d.bag] =
                       IF stacked = 0 THEN @ ELSE WithMore(@, d.item, stacked)]
           left == [merged EXCEPT ![from] = Without(@, i, m)]
<1>1. /\ <<d.bag, d.item>> # <<from, i>> /\ MayAdd(e, d)
      /\ m > 0 /\ (isStackable(e) => m <= e.coins)
      /\ inside' = [left EXCEPT ![d.bag] =
                     IF ~isStackable(e) THEN <<e>> \o @
                     ELSE IF m > stacked THEN <<Coins(m - stacked)>> \o @ ELSE @]
      /\ UNCHANGED minted
  BY DEF MoveInside
<1>2. inside \in [Bags -> Seq(Things)] /\ e \in Things /\ e.bag \in Bags \cup {NoBag}
  BY CoinsAre, ThingIs DEF ContainersIInv
<1>3. d.bag \in Bags /\ d.item \in {0} \cup DOMAIN inside[d.bag]
  BY <1>2, DestinationIs
<1> HIDE DEF d
<1>4. max \in Int
  BY <1>2, <1>3, MaxCountType
<1> HIDE DEF max
<1>5. CASE isStackable(e)
  <2>1. e.bag = NoBag
    BY <1>5 DEF isStackable
  <2>2. m \in 1..MaxStack /\ m =< e.coins
    <3>1. m = IF count =< max THEN count ELSE max
      BY <1>4, <1>5, LeastOfTwo
    <3> HIDE DEF m
    <3> QED
      BY <1>1, <1>4, <1>5, <3>1, ThingIs
  <2> HIDE DEF m
  <2>3. stacked \in 0..m /\ (stacked > 0 => d.item # 0 /\ stacked =< Room(inside[d.bag][d.item]))
    <3>1. CASE d.item = 0
      BY <2>2, <3>1
    <3>2. CASE d.item # 0
      <4>1. inside[d.bag][d.item] \in Things /\ Room(inside[d.bag][d.item]) \in Int
            /\ Room(inside[d.bag][d.item]) >= 0
        <5>1. inside[d.bag] \in Seq(Things) /\ d.item \in DOMAIN inside[d.bag]
          BY <1>2, <1>3, <3>2
        <5>2. inside[d.bag][d.item] \in Things
          BY <5>1
        <5> QED
          BY <5>2, ThingIs
      <4>2. stacked = IF Room(inside[d.bag][d.item]) =< m THEN Room(inside[d.bag][d.item]) ELSE m
        BY <1>5, <2>2, <3>2, <4>1, LeastOfTwo
      <4> HIDE DEF stacked
      <4> QED
        BY <2>2, <3>2, <4>1, <4>2
    <3> QED
      BY <3>1, <3>2
  <2> HIDE DEF stacked
  <2>4. World(inside) /\ Grown(inside, inside, 0) /\ minted \in Int
    BY <1>2, AllCoinsType DEF ContainersIInv, OnePlace, World, Grown, SameBags
  <2>5. /\ Grown(inside, merged, stacked)
        /\ i \in DOMAIN merged[from] /\ merged[from][i] = e
    <3>1. CASE stacked = 0
      <4>1. merged = inside
        BY <1>2, <3>1
      <4> QED
        BY <2>4, <3>1, <4>1
    <3>2. CASE stacked # 0
      <4>1. d.item \in DOMAIN inside[d.bag] /\ stacked \in 1..Room(inside[d.bag][d.item])
        <5>1. stacked > 0 /\ d.item # 0 /\ stacked =< Room(inside[d.bag][d.item])
          BY <2>2, <2>3, <3>2
        <5>2. inside[d.bag] \in Seq(Things) /\ d.item \in DOMAIN inside[d.bag]
          BY <1>2, <1>3, <5>1
        <5>3. inside[d.bag][d.item] \in Things
          BY <5>2
        <5>4. Room(inside[d.bag][d.item]) \in Int
          BY <5>3, ThingIs
        <5> QED
          BY <2>2, <2>3, <5>1, <5>2, <5>4
      <4>2. merged = [inside EXCEPT ![d.bag] = WithMore(@, d.item, stacked)]
        BY <3>2
      <4>3. /\ Grown(inside, [inside EXCEPT ![d.bag] = WithMore(@, d.item, stacked)], stacked)
            /\ \A c \in Bags : \A k \in DOMAIN inside[c] : <<c, k>> # <<d.bag, d.item>> =>
                 LET v == [inside EXCEPT ![d.bag] = WithMore(@, d.item, stacked)]
                 IN  k \in DOMAIN v[c] /\ v[c][k] = inside[c][k]
        BY <1>3, <2>4, <4>1, StackFilled
      <4> HIDE DEF merged
      <4>4. <<from, i>> # <<d.bag, d.item>>
        BY <1>1
      <4> QED
        BY <4>2, <4>3, <4>4
    <3> QED
      BY <3>1, <3>2
  <2> HIDE DEF merged
  <2>6. Grown(merged, left, -m)
    BY <2>1, <2>2, <2>5, StackTaken DEF Grown
  <2> HIDE DEF left
  <2>7. Grown(left, inside', m - stacked)
    <3>1. CASE m > stacked
      <4>1. m - stacked \in 1..MaxStack
        BY <2>2, <2>3, <3>1, ThingIs
      <4>2. inside' = [left EXCEPT ![d.bag] = <<Coins(m - stacked)>> \o @]
        BY <1>1, <1>5, <3>1
      <4> QED
        <5>1. World(left)
          BY <2>6 DEF Grown
        <5>2. Grown(left, [left EXCEPT ![d.bag] = <<Coins(m - stacked)>> \o @], m - stacked)
          BY <1>3, <4>1, <5>1, StackMade
        <5> QED
          BY <4>2, <5>2
    <3>2. CASE ~(m > stacked)
      <4>1. inside' = left /\ m - stacked = 0
        BY <1>1, <1>5, <2>2, <2>3, <2>6, <3>2 DEF Grown, World
      <4>2. AllCoins(left) \in Int
        BY <2>6, AllCoinsType DEF Grown, World
      <4> QED
        BY <2>6, <4>1, <4>2 DEF Grown, SameBags
    <3> QED
      BY <3>1, <3>2
  <2>8. m \in Int /\ stacked \in Int /\ -m \in Int /\ m - stacked \in Int
    BY <2>2, <2>3
  <2>9. Grown(inside, left, stacked + (-m))
    BY <2>4, <2>5, <2>6, <2>8, GrownTwice
  <2>10. Grown(inside, inside', (stacked + (-m)) + (m - stacked))
    BY <2>4, <2>7, <2>8, <2>9, GrownTwice
  <2>11. (stacked + (-m)) + (m - stacked) = 0 /\ minted' = minted + 0
    BY <1>1, <2>4, <2>8
  <2> QED
    BY <2>10, <2>11, CoinsKeepPlaces
<1>6. CASE ~isStackable(e)
  <2>1. e.bag \in Bags /\ e.bag \notin AboveOf(d.bag)
    BY <1>1, <1>2, <1>6 DEF isStackable, MayAdd
  <2>2. merged = inside
    BY <1>2, <1>6
  <2>3. left = [inside EXCEPT ![from] = RemoveAt(@, i)]
    <3> HIDE DEF m, merged
    <3> QED
      BY <1>6, <2>2 DEF Without
  <2>4. inside' = [left EXCEPT ![d.bag] = <<e>> \o @]
    <3> HIDE DEF left
    <3> QED
      BY <1>1, <1>6
  <2>5. inside' = [[inside EXCEPT ![from] = RemoveAt(@, i)] EXCEPT ![d.bag] = <<e>> \o @]
    BY <2>3, <2>4
  <2>6. UNCHANGED minted /\ e.bag = inside[from][i].bag
    BY <1>1
  <2> QED
    BY <1>3, <2>1, <2>5, <2>6, BagMovedKeeps
<1> QED
  BY <1>5, <1>6

LEMMA ContainersInitIInv == InsideInit => ContainersIInv
<1> SUFFICES ASSUME InsideInit PROVE ContainersIInv
  OBVIOUS
<1> DEFINE s == [i \in 1..(BagCount - 1) |-> Bag(i + 1)]
<1>1. /\ inside = [b \in Bags |-> IF b = Chest THEN s ELSE <<>>] /\ minted = 0
      /\ BagCount \in Nat \ {0} /\ Chest = 1 /\ NoBag = 0 /\ Bags = 1..BagCount
  BY ContainerAssumption DEF InsideInit, Chest, NoBag, Bags
<1>2. ASSUME NEW i \in 1..(BagCount - 1)
      PROVE  s[i] = Bag(i + 1) /\ i + 1 \in Bags /\ s[i] \in Things /\ s[i].coins = 0
             /\ s[i].bag = i + 1
  <2>1. i + 1 \in Bags
    BY <1>1
  <2> QED
    BY <2>1, ThingIs
<1>3. s \in Seq(Things) /\ DOMAIN s = 1..(BagCount - 1) /\ Len(s) = BagCount - 1
  <2>1. s \in [1..(BagCount - 1) -> Things] /\ BagCount - 1 \in Nat
    BY <1>1, <1>2
  <2> HIDE DEF s
  <2> QED
    BY <2>1, AsSeq
<1> HIDE DEF s
<1>4. <<>> \in Seq(Things) /\ DOMAIN <<>> = {} /\ Len(<<>>) = 0
  OBVIOUS
<1>5. inside \in [Bags -> Seq(Things)]
  BY <1>1, <1>3, <1>4
<1>6. inside[Chest] = s /\ \A b \in Bags \ {Chest} : inside[b] = <<>>
  BY <1>1
<1>7. \A c, x \in Bags : Holds(c, x) <=> c = Chest /\ x # Chest
  <2>1. ASSUME NEW x \in Bags, x # Chest PROVE Holds(Chest, x)
    <3>1. x - 1 \in 1..(BagCount - 1) /\ (x - 1) + 1 = x
      BY <1>1, <2>1
    <3>2. x - 1 \in DOMAIN inside[Chest] /\ inside[Chest][x - 1].bag = x
      BY <1>2, <1>3, <1>6, <3>1
    <3> QED
      BY <3>2 DEF Holds
  <2>2. ASSUME NEW c \in Bags, NEW x \in Bags, Holds(c, x) PROVE c = Chest /\ x # Chest
    <3>1. PICK i \in DOMAIN inside[c] : inside[c][i].bag = x
      BY <2>2 DEF Holds
    <3>2. c = Chest
      BY <1>4, <1>6, <3>1
    <3>3. i \in 1..(BagCount - 1) /\ x = i + 1
      BY <1>2, <1>3, <1>6, <3>1, <3>2
    <3> QED
      BY <1>1, <3>2, <3>3
  <2> QED
    BY <2>1, <2>2
<1>8. \A b \in Bags : EachOnce(inside[b])
  <2>1. EachOnce(s)
    BY <1>1, <1>2, <1>3 DEF EachOnce
  <2>2. EachOnce(<<>>)
    BY DEF EachOnce
  <2> QED
    BY <1>6, <2>1, <2>2
<1>9. ASSUME NEW b \in Bags PROVE Chest \in AboveOf(b)
  <2> SUFFICES ASSUME NEW C \in SUBSET Bags, b \in C,
                      \A c, d \in Bags : d \in C /\ Holds(c, d) => c \in C
               PROVE  Chest \in C
    BY ThingIs DEF AboveOf
  <2> QED
    BY <1>7, ThingIs
<1>10. \A x \in Bags : x # Chest <=> \E c \in Bags : Holds(c, x)
  BY <1>7, ThingIs
<1>11. OnePlace
  BY <1>7, <1>8, <1>9, <1>10 DEF OnePlace
<1>12. AllCoins(inside) = 0
  <2> DEFINE f == [b \in Bags |-> CoinsIn(inside[b])]
             z == [i \in 1..0 |-> 0]
  <2>1. ASSUME NEW n \in Nat, NEW g \in [1..n -> Int], \A i \in 1..n : g[i] = 0
        PROVE  Total(g) = 0
    <3> DEFINE h == [i \in 0..n |-> 0]
    <3>1. SumsTo(n, g, h)
      <4>1. h \in [0..n -> Int] /\ 0 \in 0..n
        OBVIOUS
      <4>2. ASSUME NEW i \in 1..n PROVE h[i] = h[i-1] + g[i]
        <5>1. i \in 0..n /\ i - 1 \in 0..n
          OBVIOUS
        <5> QED
          BY <2>1, <5>1
      <4> QED
        BY <4>1, <4>2 DEF SumsTo
    <3>2. Total(g) = h[n]
      <4> HIDE DEF h
      <4> QED
        BY <3>1, TotalIs
    <3>3. n \in 0..n
      OBVIOUS
    <3> QED
      BY <3>2, <3>3
  <2>2. CoinsIn(s) = 0
    <3> DEFINE g == [i \in DOMAIN s |-> s[i].coins]
    <3>1. g \in [1..(BagCount - 1) -> Int] /\ BagCount - 1 \in Nat
      BY <1>1, <1>3, CoinsAre
    <3>2. \A i \in 1..(BagCount - 1) : g[i] = 0
      BY <1>2, <1>3
    <3> HIDE DEF g
    <3>3. Total(g) = 0
      BY <2>1, <3>1, <3>2
    <3> QED
      BY <3>3 DEF CoinsIn, g
  <2>3. CoinsIn(<<>>) = 0
    <3>1. ASSUME NEW e, e \in Seq(Things), Len(e) = 0 PROVE CoinsIn(e) = 0
      <4> DEFINE g == [i \in DOMAIN e |-> e[i].coins]
      <4>1. g \in [1..Len(e) -> Int]
        BY <3>1, CoinsAre
      <4> HIDE DEF g
      <4>2. 0 \in Nat /\ \A i \in 1..0 : g[i] = 0
        OBVIOUS
      <4>3. Total(g) = 0
        BY <2>1, <3>1, <4>1, <4>2
      <4> QED
        BY <4>3 DEF CoinsIn, g
    <3> QED
      BY <1>4, <3>1
  <2>4. f \in [1..BagCount -> Int] /\ BagCount \in Nat
    <3>1. f \in [Bags -> Int]
      BY <1>5, CoinsAre
    <3> HIDE DEF f
    <3> QED
      BY <1>1, <3>1
  <2>5. \A b \in 1..BagCount : f[b] = 0
    BY <1>1, <1>6, <2>2, <2>3
  <2> HIDE DEF f
  <2>6. Total(f) = 0
    BY <2>1, <2>4, <2>5
  <2> QED
    BY <2>6 DEF AllCoins, f
<1> QED
  BY <1>1, <1>5, <1>11, <1>12 DEF ContainersIInv

LEMMA ContainersStepIInv == ContainersIInv /\ [InsideNext]_thingVars => ContainersIInv'
<1> SUFFICES ASSUME ContainersIInv, [InsideNext]_thingVars PROVE ContainersIInv'
  OBVIOUS
<1>1. CASE UNCHANGED thingVars
  BY <1>1 DEF thingVars, ContainersIInv, OnePlace, AboveOf, Holds
<1>2. CASE InsideNext
  <2>1. PICK b \in Bags :
          \/ \E n \in 1..MaxStack : AddCoins(b, n)
          \/ \E i \in DOMAIN inside[b], n \in 1..MaxStack :
               \/ SpendCoins(b, i, n)
               \/ \E to \in Bags : \E index \in (0..MaxSize[to]) \cup {Up} :
                    MoveInside(b, i, n, to, index)
    BY <1>2 DEF InsideNext
  <2>2. CASE \E n \in 1..MaxStack : AddCoins(b, n)
    BY <2>2, AddCoinsKeeps
  <2>3. CASE \E i \in DOMAIN inside[b], n \in 1..MaxStack : SpendCoins(b, i, n)
    BY <2>3, SpendCoinsKeeps
  <2>4. CASE \E i \in DOMAIN inside[b], n \in 1..MaxStack, to \in Bags :
               \E index \in (0..MaxSize[to]) \cup {Up} : MoveInside(b, i, n, to, index)
    BY <2>4, MoveInsideKeeps
  <2> QED
    BY <2>1, <2>2, <2>3, <2>4
<1> QED
  BY <1>1, <1>2

(* The places of a container: none for the chest, one for every other. *)
LEMMA OnePlaceOnly ==
  ASSUME ContainersIInv, NEW b \in Bags
  PROVE  Cardinality(UNION {{<<c, i>> : i \in {j \in DOMAIN inside[c] : inside[c][j].bag = b}}
                              : c \in Bags}) = IF b = Chest THEN 0 ELSE 1
<1> DEFINE U == UNION {{<<c, i>> : i \in {j \in DOMAIN inside[c] : inside[c][j].bag = b}}
                         : c \in Bags}
<1>1. \A p : p \in U <=> \E c \in Bags : \E i \in DOMAIN inside[c] :
                           inside[c][i].bag = b /\ p = <<c, i>>
  OBVIOUS
<1> HIDE DEF U
<1>2. CASE b = Chest
  <2>1. U = {}
    BY <1>1, <1>2 DEF ContainersIInv, OnePlace, Holds
  <2> QED
    BY <1>2, <2>1, FS_EmptySet DEF U
<1>3. CASE b # Chest
  <2>1. PICK c \in Bags : Holds(c, b)
    BY <1>3 DEF ContainersIInv, OnePlace
  <2>2. PICK i \in DOMAIN inside[c] : inside[c][i].bag = b
    BY <2>1 DEF Holds
  <2>3. ASSUME NEW d \in Bags, NEW k \in DOMAIN inside[d], inside[d][k].bag = b
        PROVE  d = c /\ k = i
    <3>1. d = c
      BY <2>1, <2>3 DEF ContainersIInv, OnePlace, Holds
    <3>2. EachOnce(inside[c]) /\ b # NoBag
      BY ThingIs DEF ContainersIInv, OnePlace
    <3> QED
      BY <2>2, <2>3, <3>1, <3>2 DEF EachOnce
  <2>4. U = {<<c, i>>}
    BY <1>1, <2>2, <2>3
  <2> QED
    BY <1>3, <2>4, FS_Singleton DEF U
<1> QED
  BY <1>2, <1>3

LEMMA ContainersIInvNothingLost == ContainersIInv => NothingLost
<1> SUFFICES ASSUME ContainersIInv PROVE NothingLost
  OBVIOUS
<1>1. minted = Total([b \in Bags |-> CoinsIn(inside[b])])
  BY DEF ContainersIInv, AllCoins
<1>2. ASSUME NEW b \in Bags, NEW i \in DOMAIN inside[b], isStackable(inside[b][i])
      PROVE  inside[b][i].coins \in 1..MaxStack
  <2>1. inside[b] \in Seq(Things)
    BY DEF ContainersIInv
  <2>2. inside[b][i] \in Things
    BY <2>1
  <2> QED
    BY <1>2, <2>2, ThingIs DEF isStackable
<1>3. \A b \in Bags : Chest \in AboveOf(b)
  BY DEF ContainersIInv, OnePlace
<1> QED
  BY <1>1, <1>2, <1>3, OnePlaceOnly DEF NothingLost

(* Moving, splitting and merging neither make nor lose coins, no stack is
   empty or above its limit, and each container is in one place. *)
THEOREM NothingLostHolds == InsideSpec => []NothingLost
<1>1. InsideSpec => []ContainersIInv
  BY ContainersInitIInv, ContainersStepIInv, PTL DEF InsideSpec
<1> QED
  BY <1>1, ContainersIInvNothingLost, PTL
=============================================================================
