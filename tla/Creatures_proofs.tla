--------------------------- MODULE Creatures_proofs ---------------------------
(***************************************************************************)
(* Proofs about Creatures for every set of creatures, places and vectors.  *)
(*                                                                         *)
(* A handler of Creatures is one term over folds: what each creature that  *)
(* sees another does, in an order nobody chooses.  A fold is shown to keep *)
(* what each of its steps keeps (RunExists and RunStays, then one lemma    *)
(* ...Fold for each fold), and the accounts of the references are kept in  *)
(* three layers: Calm, for what only moves references between monsters'    *)
(* lists and the vectors to come; Keeps, for what also gives up summons,   *)
(* removes and buries; Sound, for whole handlers.  RefsHeldHolds follows.  *)
(*                                                                         *)
(* What creatures point at and are due is kept beside them in three layers *)
(* more: Minds, for what a monster does to itself; Tends, for what moves   *)
(* nobody; Fares, for what also kills and sets summons free.  Gone is said *)
(* of those removed, and Minded of the state between two handlers, from    *)
(* which PointersGoodHolds and SoonVisitedHolds follow.                    *)
(***************************************************************************)
EXTENDS Creatures, FiniteSetTheorems, WellFoundedInduction, TLAPS

(* A set of naturals has a least element. *)
LEMMA HasLeast ==
  ASSUME NEW S \in SUBSET Nat, S # {}
  PROVE  \E x \in S : \A y \in S : x =< y
<1>1. PICK x \in S : \A y \in S : ~(<<y, x>> \in OpToRel(<, Nat))
  BY NatLessThanWellFounded, WFMin
<1>2. OpToRel(<, Nat) = {ss \in Nat \X Nat : ss[1] < ss[2]}
  BY DEF OpToRel
<1>3. \A y \in S : x =< y
  <2> SUFFICES ASSUME NEW y \in S, y < x PROVE FALSE
    OBVIOUS
  <2>1. <<y, x>> \in {ss \in Nat \X Nat : ss[1] < ss[2]}
    OBVIOUS
  <2> QED
    BY <1>1, <1>2, <2>1
<1> QED
  BY <1>3

(* The element a fold over s takes first. *)
Pick(s) == CHOOSE x \in s : TRUE

(* Induction over the sets that a fold over S goes through. *)
LEMMA FoldInduction ==
  ASSUME NEW S, IsFiniteSet(S), NEW Good, {} \in Good,
         \A s \in SUBSET S : s # {} /\ s \ {Pick(s)} \in Good => s \in Good
  PROVE  \A s \in SUBSET S : s \in Good
<1> DEFINE Bad == {s \in SUBSET S : s \notin Good}
           Sizes == {Cardinality(s) : s \in Bad}
<1>1. ASSUME Bad # {} PROVE FALSE
  <2>1. \A s \in SUBSET S : IsFiniteSet(s) /\ Cardinality(s) \in Nat
    BY FS_Subset, FS_CardinalityType
  <2>2. Sizes \in SUBSET Nat /\ Sizes # {}
    BY <1>1, <2>1
  <2>3. PICK n \in Sizes : \A k \in Sizes : n =< k
    <3> HIDE DEF Sizes
    <3> QED
      BY <2>2, HasLeast
  <2>4. PICK s \in Bad : n = Cardinality(s)
    BY <2>3
  <2>5. s \in SUBSET S /\ s # {} /\ s \notin Good
    BY <2>4
  <2>6. Pick(s) \in s
    BY <2>5 DEF Pick
  <2> DEFINE t == s \ {Pick(s)}
  <2>7. t \in SUBSET S /\ t \notin Good
    BY <2>5
  <2>8. Cardinality(t) = Cardinality(s) - 1
    BY <2>1, <2>5, <2>6, FS_RemoveElement
  <2>9. Cardinality(t) \in Sizes
    BY <2>7
  <2> HIDE DEF t, Bad, Sizes
  <2> QED
    BY <2>1, <2>3, <2>4, <2>5, <2>8, <2>9
<1> QED
  BY <1>1

(* it is a fold over S and all its parts, step by step; a step keeps to G. *)
Runs(S, w, nx, it) == it = [s \in SUBSET S |-> IF s = {} THEN w ELSE nx[<<s, it[s \ {Pick(s)}]>>]]
Stays(S, nx, G) ==
  \A s \in SUBSET S : \A v : s # {} /\ <<s \ {Pick(s)}, v>> \in G => <<s, nx[<<s, v>>]>> \in G

(* There is such a fold, and its values are in G. *)
LEMMA RunExists ==
  ASSUME NEW S, IsFiniteSet(S), NEW w, NEW nx, NEW G, <<{}, w>> \in G, Stays(S, nx, G)
  PROVE  \E it : Runs(S, w, nx, it) /\ \A s \in SUBSET S : <<s, it[s]>> \in G
<1>0. \A s \in SUBSET S : IsFiniteSet(s) /\ Cardinality(s) \in Nat
  BY FS_Subset, FS_CardinalityType
<1>1. \A s \in SUBSET S : s # {} => Pick(s) \in s /\ Cardinality(s \ {Pick(s)}) = Cardinality(s) - 1
  BY <1>0, FS_RemoveElement DEF Pick
<1> DEFINE Upto(n, it) ==
             it = [s \in SUBSET S |->
                     IF s # {} /\ Cardinality(s) =< n THEN nx[<<s, it[s \ {Pick(s)}]>>] ELSE w]
           Bad == {n \in Nat : ~\E it : Upto(n, it)}
<1>a. /\ Bad \in SUBSET Nat
      /\ \A n \in Nat : n \notin Bad => \E it : Upto(n, it)
      /\ \A n, it : n \in Bad => ~Upto(n, it)
  OBVIOUS
<1> HIDE DEF Bad
<1>2. Bad = {}
  <2> SUFFICES ASSUME Bad # {} PROVE FALSE
    OBVIOUS
  <2>1. PICK n \in Bad : \A k \in Bad : n =< k
    <3>1. Bad \in SUBSET Nat
      BY <1>a
    <3> QED
      BY <3>1, HasLeast
  <2>n. n \in Nat
    BY <1>a
  <2>2. ASSUME n = 0 PROVE FALSE
    <3>1. PICK it : it = [s \in SUBSET S |-> w]
      OBVIOUS
    <3>2. ASSUME NEW s \in SUBSET S, s # {}, Cardinality(s) =< 0 PROVE FALSE
      <4>1. s \ {Pick(s)} \in SUBSET S
        OBVIOUS
      <4>2. Cardinality(s) \in Nat /\ Cardinality(s \ {Pick(s)}) \in Nat
        BY <1>0, <4>1
      <4>3. Cardinality(s \ {Pick(s)}) = Cardinality(s) - 1
        BY <1>1, <3>2
      <4> QED
        BY <3>2, <4>2, <4>3
    <3>3. Upto(n, it)
      BY <2>2, <3>1, <3>2
    <3> HIDE DEF Upto
    <3> QED
      BY <1>a, <3>3
  <2>3. ASSUME n # 0 PROVE FALSE
    <3>1. n - 1 \in Nat /\ n - 1 \notin Bad
      BY <2>1, <2>3, <2>n
    <3>2. PICK it : Upto(n - 1, it)
      BY <1>a, <3>1
    <3>3. PICK nit : nit = [s \in SUBSET S |->
                        IF s # {} /\ Cardinality(s) =< n THEN nx[<<s, it[s \ {Pick(s)}]>>] ELSE w]
      OBVIOUS
    <3>5. \A s \in SUBSET S : Cardinality(s) =< n - 1 => nit[s] = it[s]
      <4> SUFFICES ASSUME NEW s \in SUBSET S, Cardinality(s) =< n - 1 PROVE nit[s] = it[s]
        OBVIOUS
      <4>1. Cardinality(s) =< n
        BY <1>0, <2>n
      <4> QED
        BY <3>2, <3>3, <4>1
    <3>6. \A s \in SUBSET S : s # {} /\ Cardinality(s) =< n => nit[s \ {Pick(s)}] = it[s \ {Pick(s)}]
      <4> SUFFICES ASSUME NEW s \in SUBSET S, s # {}, Cardinality(s) =< n
                   PROVE  nit[s \ {Pick(s)}] = it[s \ {Pick(s)}]
        OBVIOUS
      <4>1. s \ {Pick(s)} \in SUBSET S /\ Cardinality(s \ {Pick(s)}) =< n - 1
        BY <1>0, <1>1, <2>n
      <4> QED
        BY <3>5, <4>1
    <3>7. Upto(n, nit)
      BY <3>3, <3>6
    <3> HIDE DEF Upto
    <3> QED
      BY <1>a, <3>7
  <2> QED
    BY <2>2, <2>3, <2>n
<1>3. PICK it : Upto(Cardinality(S), it)
  BY <1>0, <1>2, <1>a
<1>4. \A s \in SUBSET S : Cardinality(s) =< Cardinality(S)
  BY FS_Subset
<1>5. it = [s \in SUBSET S |-> IF s = {} THEN w ELSE nx[<<s, it[s \ {Pick(s)}]>>]]
  BY <1>3, <1>4
<1>6. \A s \in SUBSET S : <<s, it[s]>> \in G
  <2> DEFINE Good == {s \in SUBSET S : <<s, it[s]>> \in G}
  <2>1. {} \in Good
    BY <1>5
  <2>2. \A s \in SUBSET S : s # {} /\ s \ {Pick(s)} \in Good => s \in Good
    <3> SUFFICES ASSUME NEW s \in SUBSET S, s # {}, s \ {Pick(s)} \in Good
                 PROVE  <<s, it[s]>> \in G
      OBVIOUS
    <3>1. it[s] = nx[<<s, it[s \ {Pick(s)}]>>]
      BY <1>5
    <3> QED
      BY <3>1 DEF Stays
  <2> HIDE DEF Good
  <2>3. \A s \in SUBSET S : s \in Good
    BY <2>1, <2>2, FoldInduction
  <2> QED
    BY <2>3 DEF Good
<1> QED
  BY <1>5, <1>6 DEF Runs

(* A function that is such a fold wherever its values are in V stays in G too. *)
Follows(S, w, V, nx, f) ==
  /\ f[{}] = w
  /\ \A s \in SUBSET S : s # {} /\ f[s \ {Pick(s)}] \in V => f[s] = nx[<<s, f[s \ {Pick(s)}]>>]

LEMMA RunStays ==
  ASSUME NEW S, IsFiniteSet(S), NEW w, NEW nx, NEW V, NEW G \in SUBSET ((SUBSET S) \X V),
         <<{}, w>> \in G, Stays(S, nx, G), NEW f, Follows(S, w, V, nx, f)
  PROVE  <<S, f[S]>> \in G
<1> DEFINE Good == {s \in SUBSET S : <<s, f[s]>> \in G}
<1>1. {} \in Good
  BY DEF Follows
<1>2. \A s \in SUBSET S : s # {} /\ s \ {Pick(s)} \in Good => s \in Good
  <2> SUFFICES ASSUME NEW s \in SUBSET S, s # {}, s \ {Pick(s)} \in Good
               PROVE  <<s, f[s]>> \in G
    OBVIOUS
  <2>1. f[s \ {Pick(s)}] \in V
    OBVIOUS
  <2> QED
    BY <2>1 DEF Stays, Follows
<1> HIDE DEF Good
<1>3. \A s \in SUBSET S : s \in Good
  BY <1>1, <1>2, FoldInduction
<1> QED
  BY <1>3 DEF Good
-----------------------------------------------------------------------------
(* The state of all creatures in the middle of a handler. *)
Fields == [
  at : Tiles \cup {NoTile}, removed : BOOLEAN, alive : BOOLEAN,
  master : Creatures \cup {NoCreature}, summons : SUBSET Creatures,
  attacked : Creatures \cup {NoCreature}, targets : SUBSET Creatures,
  friends : SUBSET Creatures, idle : BOOLEAN, inRange : BOOLEAN, checked : BOOLEAN,
  vec : Nat \cup {-1}, queued : BOOLEAN, listed : BOOLEAN, refs : Int, released : Nat]
Worlds == [Creatures -> Fields]
-----------------------------------------------------------------------------
(* Who holds c. *)
Hunters(w, c) == {m \in Creatures : c \in w[m].targets}
Friends(w, c) == {m \in Creatures : c \in w[m].friends}
Masters(w, c) == {m \in Creatures : c \in w[m].summons}

(* The references of c that are not those of the vectors to come and of the
   lists of monsters. *)
Lent(w, c) == w[c].refs - Flag(w[c].queued) - Count(Hunters(w, c)) - Count(Friends(w, c))

InVector(w) ==
  \A c \in Creatures : /\ w[c].vec = -1 <=> ~w[c].queued /\ ~w[c].listed
                       /\ ~(w[c].queued /\ w[c].listed)

(* What leaves the world as it is and no more than lends or takes back. *)
SameFrame(w, v) ==
  \A c \in Creatures :
    /\ v[c].at = w[c].at /\ v[c].removed = w[c].removed /\ v[c].alive = w[c].alive
    /\ v[c].master = w[c].master /\ v[c].summons = w[c].summons
    /\ v[c].listed = w[c].listed /\ v[c].released = w[c].released
SameLent(w, v) == InVector(v) /\ \A c \in Creatures : Lent(v, c) = Lent(w, c)
Calm(w, v) == v \in Worlds /\ SameFrame(w, v) /\ (InVector(w) => SameLent(w, v))

LEMMA CalmSelf == ASSUME NEW w \in Worlds PROVE Calm(w, w)
  BY DEF Calm, SameFrame, SameLent

(* Calm steps compose. *)
LEMMA CalmThen ==
  ASSUME NEW w, NEW v, NEW u, Calm(w, v), Calm(v, u)
  PROVE  Calm(w, u)
<1> HIDE DEF Lent, InVector, Worlds
<1>1. SameFrame(w, u)
  BY DEF Calm, SameFrame
<1>2. InVector(w) => SameLent(w, u)
  BY DEF Calm, SameLent
<1> QED
  BY <1>1, <1>2 DEF Calm

(* The fields of a creature have their types. *)
LEMMA FieldsTyped ==
  ASSUME NEW w \in Worlds, NEW c \in Creatures
  PROVE  /\ w[c].at \in Tiles \cup {NoTile} /\ w[c].removed \in BOOLEAN /\ w[c].alive \in BOOLEAN
         /\ w[c].master \in Creatures \cup {NoCreature} /\ w[c].summons \in SUBSET Creatures
         /\ w[c].attacked \in Creatures \cup {NoCreature} /\ w[c].targets \in SUBSET Creatures
         /\ w[c].friends \in SUBSET Creatures /\ w[c].idle \in BOOLEAN
         /\ w[c].vec \in Nat \cup {-1} /\ w[c].queued \in BOOLEAN /\ w[c].listed \in BOOLEAN
         /\ w[c].refs \in Int /\ w[c].released \in Nat
  BY DEF Worlds, Fields

(* What is counted is finite. *)
LEMMA Counted ==
  ASSUME NEW A \in SUBSET Creatures
  PROVE  IsFiniteSet(A) /\ Count(A) \in Nat
  BY FS_Subset, FS_CardinalityType, CreatureAssumption DEF Creatures, Count

(* A set that gains or loses m at most. *)
LEMMA ButOne ==
  ASSUME NEW A \in SUBSET Creatures, NEW B \in SUBSET Creatures, NEW m \in Creatures,
         A \ {m} = B \ {m}
  PROVE  Count(A) - Flag(m \in A) = Count(B) - Flag(m \in B)
<1>1. ASSUME NEW C \in SUBSET Creatures PROVE Count(C) - Flag(m \in C) = Count(C \ {m})
  <2>1. CASE m \in C
    BY <2>1, Counted, FS_RemoveElement DEF Count, Flag
  <2>2. CASE m \notin C
    <3>1. C \ {m} = C
      BY <2>2
    <3> QED
      BY <2>2, <3>1, Counted DEF Flag
  <2> QED
    BY <2>1, <2>2
<1>2. Count(A \ {m}) = Count(B \ {m})
  OBVIOUS
<1> QED
  BY <1>1, <1>2

(* One creature changes. *)
LEMMA Put ==
  ASSUME NEW w \in Worlds, NEW m \in Creatures, NEW r \in Fields
  PROVE  /\ [w EXCEPT ![m] = r] \in Worlds
         /\ [w EXCEPT ![m] = r][m] = r
         /\ \A c \in Creatures \ {m} : [w EXCEPT ![m] = r][c] = w[c]
<1> HIDE DEF Fields
<1> QED
  BY DEF Worlds

(* A field of it changes. *)
LEMMA OneField ==
  ASSUME NEW q \in Fields
  PROVE  /\ \A n \in Int : [q EXCEPT !.refs = n] \in Fields
         /\ \A k \in Nat \cup {-1} : [q EXCEPT !.vec = k] \in Fields
         /\ \A k \in Nat : [q EXCEPT !.released = k] \in Fields
         /\ \A b \in BOOLEAN : [q EXCEPT !.removed = b] \in Fields
         /\ \A b \in BOOLEAN : [q EXCEPT !.alive = b] \in Fields
         /\ \A b \in BOOLEAN : [q EXCEPT !.idle = b] \in Fields
         /\ \A b \in BOOLEAN : [q EXCEPT !.inRange = b] \in Fields
         /\ \A b \in BOOLEAN : [q EXCEPT !.checked = b] \in Fields
         /\ \A b \in BOOLEAN : [q EXCEPT !.queued = b] \in Fields
         /\ \A b \in BOOLEAN : [q EXCEPT !.listed = b] \in Fields
         /\ \A c \in Creatures \cup {NoCreature} : [q EXCEPT !.master = c] \in Fields
         /\ \A c \in Creatures \cup {NoCreature} : [q EXCEPT !.attacked = c] \in Fields
         /\ \A S \in SUBSET Creatures : [q EXCEPT !.summons = S] \in Fields
         /\ \A S \in SUBSET Creatures : [q EXCEPT !.targets = S] \in Fields
         /\ \A S \in SUBSET Creatures : [q EXCEPT !.friends = S] \in Fields
<1>1. \A n \in Int : [q EXCEPT !.refs = n] \in Fields
  BY DEF Fields
<1>2. \A k \in Nat \cup {-1} : [q EXCEPT !.vec = k] \in Fields
  BY DEF Fields
<1>3. \A k \in Nat : [q EXCEPT !.released = k] \in Fields
  BY DEF Fields
<1>4. \A b \in BOOLEAN : [q EXCEPT !.removed = b] \in Fields
  BY DEF Fields
<1>5. \A b \in BOOLEAN : [q EXCEPT !.alive = b] \in Fields
  BY DEF Fields
<1>6. \A b \in BOOLEAN : [q EXCEPT !.idle = b] \in Fields
  BY DEF Fields
<1>7. \A b \in BOOLEAN : [q EXCEPT !.inRange = b] \in Fields
  BY DEF Fields
<1>8. \A b \in BOOLEAN : [q EXCEPT !.checked = b] \in Fields
  BY DEF Fields
<1>9. \A b \in BOOLEAN : [q EXCEPT !.queued = b] \in Fields
  BY DEF Fields
<1>10. \A b \in BOOLEAN : [q EXCEPT !.listed = b] \in Fields
  BY DEF Fields
<1>11. \A c \in Creatures \cup {NoCreature} : [q EXCEPT !.master = c] \in Fields
  BY DEF Fields
<1>12. \A c \in Creatures \cup {NoCreature} : [q EXCEPT !.attacked = c] \in Fields
  BY DEF Fields
<1>13. \A S \in SUBSET Creatures : [q EXCEPT !.summons = S] \in Fields
  BY DEF Fields
<1>14. \A S \in SUBSET Creatures : [q EXCEPT !.targets = S] \in Fields
  BY DEF Fields
<1>15. \A S \in SUBSET Creatures : [q EXCEPT !.friends = S] \in Fields
  BY DEF Fields
<1> QED
  BY <1>1, <1>2, <1>3, <1>4, <1>5, <1>6, <1>7, <1>8, <1>9, <1>10, <1>11, <1>12, <1>13, <1>14, <1>15

(* Nothing but the references that the vector takes. *)
OneFrame(q, r) ==
  /\ r.at = q.at /\ r.removed = q.removed /\ r.alive = q.alive
  /\ r.master = q.master /\ r.summons = q.summons
  /\ r.listed = q.listed /\ r.released = q.released
  /\ r.targets = q.targets /\ r.friends = q.friends
OneInVector(q) == (q.vec = -1 <=> ~q.queued /\ ~q.listed) /\ ~(q.queued /\ q.listed)

(* A creature that changes in nothing but that stays calm. *)
LEMMA OneCalm ==
  ASSUME NEW w \in Worlds, NEW m \in Creatures, NEW r \in Fields, OneFrame(w[m], r),
         OneInVector(w[m]) =>
           OneInVector(r) /\ r.refs - Flag(r.queued) = w[m].refs - Flag(w[m].queued)
  PROVE  Calm(w, [w EXCEPT ![m] = r])
<1> DEFINE v == [w EXCEPT ![m] = r]
<1>1. v \in Worlds /\ v[m] = r /\ \A c \in Creatures \ {m} : v[c] = w[c]
  BY Put
<1> HIDE DEF v
<1>2. SameFrame(w, v)
  BY <1>1 DEF SameFrame, OneFrame
<1>3. \A c \in Creatures : v[c].targets = w[c].targets /\ v[c].friends = w[c].friends
  BY <1>1 DEF OneFrame
<1>4. ASSUME NEW c \in Creatures PROVE Hunters(v, c) = Hunters(w, c) /\ Friends(v, c) = Friends(w, c)
  BY <1>3 DEF Hunters, Friends
<1>5. InVector(w) => InVector(v)
  BY <1>1 DEF InVector, OneInVector
<1>6. InVector(w) => \A c \in Creatures : Lent(v, c) = Lent(w, c)
  <2> SUFFICES ASSUME InVector(w), NEW c \in Creatures PROVE Lent(v, c) = Lent(w, c)
    OBVIOUS
  <2>1. CASE c # m
    BY <1>1, <1>4, <2>1 DEF Lent
  <2>2. CASE c = m
    <3>1. v[c].refs - Flag(v[c].queued) = w[c].refs - Flag(w[c].queued)
      BY <1>1, <2>2 DEF InVector, OneInVector
    <3> QED
      BY <1>4, <3>1 DEF Lent
  <2> QED
    BY <2>1, <2>2
<1>7. Calm(w, v)
  BY <1>1, <1>2, <1>5, <1>6 DEF Calm, SameLent
<1> QED
  BY <1>7 DEF v

(* addCreatureCheck takes the reference of toAddCheckCreatureVector. *)
LEMMA AddCheckCalm ==
  ASSUME NEW w \in Worlds, NEW m \in Creatures
  PROVE  Calm(w, AddCheck(w, m))
<1>q. w[m] \in Fields
  BY DEF Worlds
<1>1. CASE w[m].removed
  BY <1>1, CalmSelf DEF AddCheck
<1>2. CASE ~w[m].removed /\ w[m].vec >= 0
  <2> DEFINE r == [w[m] EXCEPT !.checked = TRUE]
  <2>1. AddCheck(w, m) = [w EXCEPT ![m] = r]
    BY <1>2 DEF AddCheck
  <2>2. r \in Fields /\ OneFrame(w[m], r) /\ r.vec = w[m].vec /\ r.queued = w[m].queued /\ r.refs = w[m].refs
    BY <1>q DEF Fields, OneFrame
  <2> HIDE DEF r
  <2>3. OneInVector(w[m]) =>
           OneInVector(r) /\ r.refs - Flag(r.queued) = w[m].refs - Flag(w[m].queued)
    BY <2>2 DEF OneInVector, OneFrame
  <2> QED
    BY <2>1, <2>2, <2>3, OneCalm
<1>3. CASE ~w[m].removed /\ ~(w[m].vec >= 0)
  <2> DEFINE r == [w[m] EXCEPT !.refs = @ + 1, !.checked = TRUE, !.queued = TRUE, !.vec = Lot[m]]
  <2>0. Lot[m] \in Nat
    BY CreatureAssumption DEF Creatures
  <2>1. AddCheck(w, m) = [w EXCEPT ![m] = r]
    BY <1>3 DEF AddCheck, AddRef, Worlds
  <2>r. r \in Fields
    <3>1. w[m].refs + 1 \in Int
      BY <1>q DEF Fields
    <3> QED
      BY <1>q, <2>0, <3>1, OneField
  <2>2. /\ OneFrame(w[m], r)
        /\ r.vec = Lot[m] /\ r.queued = TRUE /\ r.refs = w[m].refs + 1
    BY <1>q, <2>0 DEF Fields, OneFrame
  <2>3. w[m].vec = -1 /\ w[m].refs \in Int
    BY <1>3, <1>q DEF Fields
  <2> HIDE DEF r
  <2>4. OneInVector(w[m]) =>
           OneInVector(r) /\ r.refs - Flag(r.queued) = w[m].refs - Flag(w[m].queued)
    BY <2>0, <2>2, <2>3 DEF OneInVector, OneFrame, Flag
  <2> QED
    BY <2>1, <2>2, <2>4, <2>r, OneCalm
<1> QED
  BY <1>1, <1>2, <1>3

(* A fold of UnRef stays in G if each of its steps does. *)
LEMMA UnRefFold ==
  ASSUME NEW w \in Worlds, NEW S \in SUBSET Creatures,
         NEW G \in SUBSET ((SUBSET S) \X Worlds), <<{}, w>> \in G,
         \A s \in SUBSET S, v \in Worlds :
           s # {} /\ <<s \ {Pick(s)}, v>> \in G => <<s, UnRef(v, Pick(s))>> \in G
  PROVE  <<S, ForAll(UnRef, w, S)>> \in G
<1> DEFINE nx == [q \in (SUBSET S) \X Worlds |-> UnRef(q[2], Pick(q[1]))]
           Is(f) == f = [s \in SUBSET S |-> IF s = {} THEN w ELSE UnRef(f[s \ {Pick(s)}], Pick(s))]
           f == CHOOSE f : Is(f)
<1>0. IsFiniteSet(S)
  BY Counted
<1>1. Stays(S, nx, G)
  BY DEF Stays
<1>2. Is(f)
  <2>1. PICK it : Runs(S, w, nx, it) /\ \A s \in SUBSET S : <<s, it[s]>> \in G
    <3> HIDE DEF nx
    <3> QED
      BY <1>0, <1>1, RunExists
  <2>2. \A s \in SUBSET S : it[s] \in Worlds
    BY <2>1
  <2>3. Is(it)
    BY <2>1, <2>2 DEF Runs
  <2> HIDE DEF Is
  <2> QED
    BY <2>3
<1>3. ForAll(UnRef, w, S) = f[S]
  BY DEF ForAll, FoldSet, MapThenFoldSet, Pick
<1>4. \A s \in SUBSET S : s # {} /\ f[s \ {Pick(s)}] \in Worlds => f[s] = nx[<<s, f[s \ {Pick(s)}]>>]
  <2> HIDE DEF f
  <2> QED
    BY <1>2
<1>5. f[{}] = w
  BY <1>2
<1> HIDE DEF f, nx
<1>6. Follows(S, w, Worlds, nx, f)
  BY <1>4, <1>5 DEF Follows
<1> QED
  BY <1>0, <1>1, <1>3, <1>6, RunStays

(* v is w but for some references. *)
Recounted(w, v) == \A c \in Creatures : v[c] = [w[c] EXCEPT !.refs = v[c].refs]
LessRefs(w, s, v) ==
  \A c \in Creatures : v[c] = [w[c] EXCEPT !.refs = w[c].refs - Flag(c \in s)]

(* UnRef takes one reference from one creature. *)
LEMMA UnRefIs ==
  ASSUME NEW w \in Worlds, NEW c \in Creatures
  PROVE  UnRef(w, c) \in Worlds /\ LessRefs(w, {c}, UnRef(w, c))
<1> DEFINE r == [w[c] EXCEPT !.refs = @ - 1]
<1>1. w[c] \in Fields /\ w[c].refs - 1 \in Int
  BY DEF Worlds, Fields
<1>2. r \in Fields
  BY <1>1, OneField
<1>3. UnRef(w, c) = [w EXCEPT ![c] = r]
  BY DEF UnRef
<1>4. UnRef(w, c) \in Worlds /\ UnRef(w, c)[c] = r /\ \A d \in Creatures \ {c} : UnRef(w, c)[d] = w[d]
  <2> HIDE DEF r
  <2>1. /\ [w EXCEPT ![c] = r] \in Worlds /\ [w EXCEPT ![c] = r][c] = r
        /\ \A d \in Creatures \ {c} : [w EXCEPT ![c] = r][d] = w[d]
    BY <1>2, Put
  <2> QED
    BY <1>3, <2>1
<1>5. ASSUME NEW d \in Creatures
      PROVE  UnRef(w, c)[d] = [w[d] EXCEPT !.refs = w[d].refs - Flag(d \in {c})]
  <2>1. CASE d = c
    BY <1>4, <2>1 DEF Flag
  <2>2. CASE d # c
    <3>1. w[d] \in Fields /\ Flag(d \in {c}) = 0 /\ w[d].refs - 0 = w[d].refs
      BY <2>2 DEF Flag, Worlds, Fields
    <3>2. w[d] = [w[d] EXCEPT !.refs = w[d].refs]
      BY <3>1 DEF Fields
    <3> QED
      BY <1>4, <2>2, <3>1, <3>2
  <2> QED
    BY <2>1, <2>2
<1> QED
  BY <1>4, <1>5 DEF LessRefs

(* A fold of UnRef takes one from each. *)
LEMMA UnRefAll ==
  ASSUME NEW w \in Worlds, NEW S \in SUBSET Creatures
  PROVE  ForAll(UnRef, w, S) \in Worlds /\ LessRefs(w, S, ForAll(UnRef, w, S))
<1> DEFINE G == {q \in (SUBSET S) \X Worlds : LessRefs(w, q[1], q[2])}
<1>1. <<{}, w>> \in G
  <2>1. ASSUME NEW d \in Creatures
        PROVE  w[d] = [w[d] EXCEPT !.refs = w[d].refs - Flag(d \in {})]
    <3>1. w[d] \in Fields /\ Flag(d \in {}) = 0 /\ w[d].refs - 0 = w[d].refs
      BY DEF Flag, Worlds, Fields
    <3>2. w[d] = [w[d] EXCEPT !.refs = w[d].refs]
      BY <3>1 DEF Fields
    <3> QED
      BY <3>1, <3>2
  <2> QED
    BY <2>1 DEF LessRefs
<1>2. ASSUME NEW s \in SUBSET S, NEW v \in Worlds, s # {}, <<s \ {Pick(s)}, v>> \in G
      PROVE  <<s, UnRef(v, Pick(s))>> \in G
  <2>1. Pick(s) \in s /\ Pick(s) \in Creatures
    BY <1>2 DEF Pick
  <2> DEFINE p == Pick(s)
             u == UnRef(v, p)
  <2> HIDE DEF p
  <2>2. u \in Worlds /\ LessRefs(v, {p}, u)
    BY <2>1, UnRefIs DEF p
  <2>3. LessRefs(w, s \ {p}, v)
    BY <1>2 DEF p
  <2>4. ASSUME NEW d \in Creatures
        PROVE  u[d] = [w[d] EXCEPT !.refs = w[d].refs - Flag(d \in s)]
    <3>1. w[d] \in Fields /\ w[d].refs \in Int
      BY DEF Worlds, Fields
    <3>2. v[d] = [w[d] EXCEPT !.refs = w[d].refs - Flag(d \in s \ {p})]
      BY <2>3 DEF LessRefs
    <3>3. u[d] = [v[d] EXCEPT !.refs = v[d].refs - Flag(d \in {p})]
      BY <2>2 DEF LessRefs
    <3>4. v[d].refs = w[d].refs - Flag(d \in s \ {p})
      BY <3>1, <3>2 DEF Fields
    <3>5. w[d].refs - Flag(d \in s \ {p}) - Flag(d \in {p}) = w[d].refs - Flag(d \in s)
      BY <2>1, <3>1 DEF Flag, p
    <3>6. u[d] = [w[d] EXCEPT !.refs = v[d].refs - Flag(d \in {p})]
      BY <3>1, <3>2, <3>3 DEF Fields
    <3> QED
      BY <3>4, <3>5, <3>6
  <2>5. LessRefs(w, s, u)
    BY <2>4 DEF LessRefs
  <2> QED
    BY <2>2, <2>5 DEF p
<1>3. <<S, ForAll(UnRef, w, S)>> \in G
  <2> HIDE DEF G
  <2>1. G \in SUBSET ((SUBSET S) \X Worlds)
    BY DEF G
  <2> QED
    BY <1>1, <1>2, <2>1, UnRefFold
<1> QED
  BY <1>3

(* The sum that RelistCalm needs. *)
LEMMA Balance ==
  ASSUME NEW a \in Int, NEW b \in Int, NEW q \in Int, NEW x \in Int, NEW y \in Int,
         NEW i \in Int, NEW j \in Int, NEW xf \in Int, NEW yf \in Int, NEW if \in Int, NEW jf \in Int,
         x - xf = i - if, y - yf = j - jf, a - xf - yf = b - if - jf
  PROVE  a - q - x - y = b - q - i - j
  OBVIOUS

(* A monster that changes its lists and gives back or takes what the change is worth. *)
LEMMA RelistCalm ==
  ASSUME NEW w \in Worlds, NEW u \in Worlds, Recounted(w, u), NEW m \in Creatures,
         NEW T \in SUBSET Creatures, NEW F \in SUBSET Creatures,
         \A c \in Creatures : u[c].refs - Flag(c \in T) - Flag(c \in F)
            = w[c].refs - Flag(c \in w[m].targets) - Flag(c \in w[m].friends)
  PROVE  /\ Calm(w, [u EXCEPT ![m].targets = T, ![m].friends = F])
         /\ Calm(w, [u EXCEPT ![m].friends = F, ![m].targets = T])
<1> DEFINE r == [u[m] EXCEPT !.targets = T, !.friends = F]
           v == [u EXCEPT ![m] = r]
<1>1. /\ [u EXCEPT ![m].targets = T, ![m].friends = F] = v
      /\ [u EXCEPT ![m].friends = F, ![m].targets = T] = v
  <2>1. u[m] \in Fields
    BY DEF Worlds
  <2>2. r = [u[m] EXCEPT !.friends = F, !.targets = T]
    BY <2>1 DEF Fields
  <2> QED
    BY <2>2 DEF Worlds
<1>2. r \in Fields
  <2>1. u[m] \in Fields
    BY DEF Worlds
  <2>2. [u[m] EXCEPT !.targets = T] \in Fields
    BY <2>1, OneField
  <2> QED
    BY <2>2, OneField
<1> HIDE DEF r
<1>3. v \in Worlds /\ v[m] = r /\ \A c \in Creatures \ {m} : v[c] = u[c]
  BY <1>2, Put
<1> HIDE DEF v
<1>4. ASSUME NEW c \in Creatures
      PROVE  /\ v[c].at = w[c].at /\ v[c].removed = w[c].removed /\ v[c].alive = w[c].alive
             /\ v[c].master = w[c].master /\ v[c].summons = w[c].summons
             /\ v[c].listed = w[c].listed /\ v[c].released = w[c].released
             /\ v[c].vec = w[c].vec /\ v[c].queued = w[c].queued /\ v[c].refs = u[c].refs
             /\ v[c].targets = IF c = m THEN T ELSE w[c].targets
             /\ v[c].friends = IF c = m THEN F ELSE w[c].friends
  <2>1. w[c] \in Fields /\ u[c] \in Fields
    BY DEF Worlds
  <2>2. u[c] = [w[c] EXCEPT !.refs = u[c].refs]
    BY DEF Recounted
  <2>3. CASE c # m
    BY <1>3, <2>1, <2>2, <2>3 DEF Fields
  <2>4. CASE c = m
    <3>1. v[c] = [u[c] EXCEPT !.targets = T, !.friends = F]
      BY <1>3, <2>4 DEF r
    <3> QED
      BY <2>1, <2>2, <2>4, <3>1 DEF Fields
  <2> QED
    BY <2>3, <2>4
<1>5. SameFrame(w, v)
  BY <1>4 DEF SameFrame
<1>6. InVector(w) => InVector(v)
  BY <1>4 DEF InVector
<1>7. ASSUME NEW c \in Creatures PROVE Lent(v, c) = Lent(w, c)
  <2>1. /\ Hunters(v, c) \in SUBSET Creatures /\ Hunters(w, c) \in SUBSET Creatures
        /\ Friends(v, c) \in SUBSET Creatures /\ Friends(w, c) \in SUBSET Creatures
    BY DEF Hunters, Friends
  <2>2. /\ Hunters(v, c) \ {m} = Hunters(w, c) \ {m} /\ Friends(v, c) \ {m} = Friends(w, c) \ {m}
    BY <1>4 DEF Hunters, Friends
  <2>8. /\ Flag(m \in Hunters(v, c)) = Flag(c \in T) /\ Flag(m \in Friends(v, c)) = Flag(c \in F)
        /\ Flag(m \in Hunters(w, c)) = Flag(c \in w[m].targets)
        /\ Flag(m \in Friends(w, c)) = Flag(c \in w[m].friends)
    BY <1>4 DEF Hunters, Friends, Flag
  <2>3. /\ Count(Hunters(v, c)) - Flag(c \in T) = Count(Hunters(w, c)) - Flag(c \in w[m].targets)
        /\ Count(Friends(v, c)) - Flag(c \in F) = Count(Friends(w, c)) - Flag(c \in w[m].friends)
    <3> HIDE DEF Hunters, Friends, Flag, Count
    <3>1. /\ Count(Hunters(v, c)) - Flag(m \in Hunters(v, c)) = Count(Hunters(w, c)) - Flag(m \in Hunters(w, c))
          /\ Count(Friends(v, c)) - Flag(m \in Friends(v, c)) = Count(Friends(w, c)) - Flag(m \in Friends(w, c))
      BY <2>1, <2>2, ButOne
    <3> QED
      BY <2>8, <3>1
  <2>4. /\ Count(Hunters(v, c)) \in Nat /\ Count(Hunters(w, c)) \in Nat
        /\ Count(Friends(v, c)) \in Nat /\ Count(Friends(w, c)) \in Nat
    BY <2>1, Counted
  <2>5. w[c].refs \in Int /\ u[c].refs \in Int
    BY FieldsTyped
  <2>6. /\ Flag(c \in T) \in Int /\ Flag(c \in F) \in Int /\ Flag(w[c].queued) \in Int
        /\ Flag(c \in w[m].targets) \in Int /\ Flag(c \in w[m].friends) \in Int
    BY DEF Flag
  <2>7. /\ v[c].refs = u[c].refs /\ Flag(v[c].queued) = Flag(w[c].queued)
        /\ u[c].refs - Flag(c \in T) - Flag(c \in F)
             = w[c].refs - Flag(c \in w[m].targets) - Flag(c \in w[m].friends)
    BY <1>4
  <2>8a. /\ Lent(v, c) = u[c].refs - Flag(w[c].queued) - Count(Hunters(v, c)) - Count(Friends(v, c))
         /\ Lent(w, c) = w[c].refs - Flag(w[c].queued) - Count(Hunters(w, c)) - Count(Friends(w, c))
    BY <2>7 DEF Lent
  <2> QED
    BY <2>3, <2>4, <2>5, <2>6, <2>7, <2>8a, Balance
<1>8. Calm(w, v)
  BY <1>3, <1>5, <1>6, <1>7 DEF Calm, SameLent
<1> QED
  BY <1>1, <1>8 DEF v

(* What is no reference and holds none. *)
LEMMA OneFieldCalm ==
  ASSUME NEW w \in Worlds, NEW m \in Creatures, NEW b \in BOOLEAN,
         NEW d \in Creatures \cup {NoCreature}
  PROVE  /\ Calm(w, [w EXCEPT ![m].idle = b]) /\ Calm(w, [w EXCEPT ![m].inRange = b])
         /\ Calm(w, [w EXCEPT ![m].checked = b]) /\ Calm(w, [w EXCEPT ![m].attacked = d])
<1>1. w[m] \in Fields
  BY DEF Worlds
<1>2. ASSUME NEW r \in Fields, OneFrame(w[m], r),
             r.vec = w[m].vec, r.queued = w[m].queued, r.refs = w[m].refs
      PROVE  Calm(w, [w EXCEPT ![m] = r])
  <2>1. OneInVector(w[m]) =>
           OneInVector(r) /\ r.refs - Flag(r.queued) = w[m].refs - Flag(w[m].queued)
    BY <1>2 DEF OneInVector, OneFrame
  <2> QED
    BY <1>2, <2>1, OneCalm
<1>3. LET r == [w[m] EXCEPT !.idle = b]
      IN  r \in Fields /\ OneFrame(w[m], r) /\ r.vec = w[m].vec /\ r.queued = w[m].queued /\ r.refs = w[m].refs
  BY <1>1 DEF Fields, OneFrame
<1>4. LET r == [w[m] EXCEPT !.inRange = b]
      IN  r \in Fields /\ OneFrame(w[m], r) /\ r.vec = w[m].vec /\ r.queued = w[m].queued /\ r.refs = w[m].refs
  BY <1>1 DEF Fields, OneFrame
<1>5. LET r == [w[m] EXCEPT !.checked = b]
      IN  r \in Fields /\ OneFrame(w[m], r) /\ r.vec = w[m].vec /\ r.queued = w[m].queued /\ r.refs = w[m].refs
  BY <1>1 DEF Fields, OneFrame
<1>6. LET r == [w[m] EXCEPT !.attacked = d]
      IN  r \in Fields /\ OneFrame(w[m], r) /\ r.vec = w[m].vec /\ r.queued = w[m].queued /\ r.refs = w[m].refs
  BY <1>1 DEF Fields, OneFrame
<1> QED
  BY <1>2, <1>3, <1>4, <1>5, <1>6

LEMMA RemoveCheckCalm ==
  ASSUME NEW w \in Worlds, NEW m \in Creatures
  PROVE  Calm(w, RemoveCheck(w, m))
  BY OneFieldCalm, CalmSelf DEF RemoveCheck

(* Two folds of UnRef take what both lists hold. *)
LEMMA LessTwice ==
  ASSUME NEW w \in Worlds, NEW S \in SUBSET Creatures, NEW T \in SUBSET Creatures
  PROVE  LET u == ForAll(UnRef, ForAll(UnRef, w, S), T)
         IN  /\ u \in Worlds /\ Recounted(w, u)
             /\ \A c \in Creatures : u[c].refs = w[c].refs - Flag(c \in S) - Flag(c \in T)
<1> DEFINE v == ForAll(UnRef, w, S)
           u == ForAll(UnRef, v, T)
<1>1. v \in Worlds /\ LessRefs(w, S, v)
  BY UnRefAll
<1>2. u \in Worlds /\ LessRefs(v, T, u)
  <2> HIDE DEF v
  <2> QED
    BY <1>1, UnRefAll
<1> HIDE DEF v, u
<1>3. ASSUME NEW c \in Creatures
      PROVE  /\ u[c] = [w[c] EXCEPT !.refs = u[c].refs]
             /\ u[c].refs = w[c].refs - Flag(c \in S) - Flag(c \in T)
  <2>1. w[c] \in Fields /\ v[c] \in Fields
    BY <1>1 DEF Worlds
  <2>2. /\ v[c] = [w[c] EXCEPT !.refs = w[c].refs - Flag(c \in S)]
        /\ u[c] = [v[c] EXCEPT !.refs = v[c].refs - Flag(c \in T)]
    BY <1>1, <1>2 DEF LessRefs
  <2>3. v[c].refs = w[c].refs - Flag(c \in S) /\ u[c].refs = v[c].refs - Flag(c \in T)
    BY <2>1, <2>2 DEF Fields
  <2>4. u[c] = [w[c] EXCEPT !.refs = v[c].refs - Flag(c \in T)]
    BY <2>1, <2>2 DEF Fields
  <2> QED
    BY <2>3, <2>4
<1>4. Recounted(w, u)
  BY <1>3 DEF Recounted
<1> QED
  BY <1>2, <1>3, <1>4 DEF u, v

(* Monster::clearTargetList and clearFriendList give back what they forget. *)
LEMMA ClearListsCalm ==
  ASSUME NEW w \in Worlds, NEW m \in Creatures
  PROVE  Calm(w, ClearLists(w, m))
<1> DEFINE u == ForAll(UnRef, ForAll(UnRef, w, w[m].targets), w[m].friends)
<1>1. w[m].targets \in SUBSET Creatures /\ w[m].friends \in SUBSET Creatures
  BY FieldsTyped
<1>2. /\ u \in Worlds /\ Recounted(w, u)
      /\ \A c \in Creatures : u[c].refs = w[c].refs - Flag(c \in w[m].targets) - Flag(c \in w[m].friends)
  BY <1>1, LessTwice
<1>3. ClearLists(w, m) = [u EXCEPT ![m].targets = {}, ![m].friends = {}]
  BY DEF ClearLists
<1> HIDE DEF u
<1>4. \A c \in Creatures : u[c].refs - Flag(c \in {}) - Flag(c \in {})
            = w[c].refs - Flag(c \in w[m].targets) - Flag(c \in w[m].friends)
  <2>1. \A c \in Creatures : u[c].refs \in Int /\ u[c].refs - 0 - 0 = u[c].refs
    BY <1>2, FieldsTyped
  <2> QED
    BY <1>2, <2>1 DEF Flag
<1>5. Calm(w, [u EXCEPT ![m].targets = {}, ![m].friends = {}])
  <2>1. u \in Worlds /\ Recounted(w, u) /\ {} \in SUBSET Creatures
    BY <1>2
  <2> QED
    BY <1>4, <2>1, RelistCalm
<1> QED
  BY <1>3, <1>5

(* Monster::setIdle clears the lists or enters the vectors to come. *)
LEMMA SetIdleCalm ==
  ASSUME NEW w \in Worlds, NEW m \in Creatures, NEW idle \in BOOLEAN
  PROVE  Calm(w, SetIdle(w, m, idle))
<1> DEFINE v == [w EXCEPT ![m].idle = idle]
<1>1. CASE w[m].removed \/ ~w[m].alive
  BY <1>1, CalmSelf DEF SetIdle
<1>2. CASE ~(w[m].removed \/ ~w[m].alive)
  <2>1. Calm(w, v) /\ v \in Worlds
    BY OneFieldCalm DEF Calm
  <2> HIDE DEF v
  <2>2. Calm(v, AddCheck(v, m))
    BY <2>1, AddCheckCalm
  <2>3. Calm(v, ClearLists(v, m)) /\ ClearLists(v, m) \in Worlds
    BY <2>1, ClearListsCalm DEF Calm
  <2>4. Calm(ClearLists(v, m), RemoveCheck(ClearLists(v, m), m))
    BY <2>3, RemoveCheckCalm
  <2>5. Calm(w, AddCheck(v, m)) /\ Calm(w, RemoveCheck(ClearLists(v, m), m))
    BY <2>1, <2>2, <2>3, <2>4, CalmThen
  <2> QED
    BY <1>2, <2>5 DEF SetIdle, v
<1> QED
  BY <1>1, <1>2

LEMMA UpdateIdleCalm ==
  ASSUME NEW w \in Worlds, NEW m \in Creatures
  PROVE  Calm(w, UpdateIdle(w, m))
<1> DEFINE b == IF isSummon(w, m)
                THEN ~w[m].inRange \/ (w[m].master \in MonsterIds /\ w[w[m].master].idle)
                ELSE w[m].targets = {}
<1>1. b \in BOOLEAN
  OBVIOUS
<1> HIDE DEF b
<1>2. Calm(w, SetIdle(w, m, b))
  BY <1>1, SetIdleCalm
<1> QED
  BY <1>2 DEF UpdateIdle, b

(* A target more or less, and its reference with it. *)
LEMMA TargetsCalm ==
  ASSUME NEW w \in Worlds, NEW u \in Worlds, Recounted(w, u), NEW m \in Creatures,
         NEW T \in SUBSET Creatures,
         \A c \in Creatures : u[c].refs - Flag(c \in T) = w[c].refs - Flag(c \in w[m].targets)
  PROVE  Calm(w, [u EXCEPT ![m].targets = T])
<1> DEFINE F == w[m].friends
<1>1. F \in SUBSET Creatures
  BY FieldsTyped
<1>2. u[m] \in Fields /\ w[m] \in Fields
  BY DEF Worlds
<1>3. u[m].friends = F
  <2>1. u[m] = [w[m] EXCEPT !.refs = u[m].refs]
    BY DEF Recounted
  <2> QED
    BY <1>2, <2>1 DEF Fields
<1>4. [u[m] EXCEPT !.targets = T] = [u[m] EXCEPT !.targets = T, !.friends = F]
  <2> HIDE DEF F
  <2> QED
    BY <1>2, <1>3 DEF Fields
<1>5. [u EXCEPT ![m].targets = T] = [u EXCEPT ![m].targets = T, ![m].friends = F]
  <2> HIDE DEF F
  <2> QED
    BY <1>4 DEF Worlds
<1>6. ASSUME NEW c \in Creatures
      PROVE  u[c].refs - Flag(c \in T) - Flag(c \in F)
               = w[c].refs - Flag(c \in w[m].targets) - Flag(c \in w[m].friends)
  <2>1. u[c].refs \in Int /\ w[c].refs \in Int
    BY FieldsTyped
  <2> QED
    BY <2>1 DEF Flag
<1>7. \A c \in Creatures : u[c].refs - Flag(c \in T) - Flag(c \in F)
               = w[c].refs - Flag(c \in w[m].targets) - Flag(c \in w[m].friends)
  BY <1>6
<1> HIDE DEF F
<1>8. Calm(w, [u EXCEPT ![m].targets = T, ![m].friends = F])
  BY <1>1, <1>7, RelistCalm
<1> QED
  BY <1>5, <1>8

(* A friend more or less, and its reference with it. *)
LEMMA FriendsCalm ==
  ASSUME NEW w \in Worlds, NEW u \in Worlds, Recounted(w, u), NEW m \in Creatures,
         NEW F \in SUBSET Creatures,
         \A c \in Creatures : u[c].refs - Flag(c \in F) = w[c].refs - Flag(c \in w[m].friends)
  PROVE  Calm(w, [u EXCEPT ![m].friends = F])
<1> DEFINE T == w[m].targets
<1>1. T \in SUBSET Creatures
  BY FieldsTyped
<1>2. u[m] \in Fields /\ w[m] \in Fields
  BY DEF Worlds
<1>3. u[m].targets = T
  <2>1. u[m] = [w[m] EXCEPT !.refs = u[m].refs]
    BY DEF Recounted
  <2> QED
    BY <1>2, <2>1 DEF Fields
<1>4. [u[m] EXCEPT !.friends = F] = [u[m] EXCEPT !.targets = T, !.friends = F]
  <2> HIDE DEF T
  <2> QED
    BY <1>2, <1>3 DEF Fields
<1>5. [u EXCEPT ![m].friends = F] = [u EXCEPT ![m].targets = T, ![m].friends = F]
  <2> HIDE DEF T
  <2> QED
    BY <1>4 DEF Worlds
<1>6. ASSUME NEW c \in Creatures
      PROVE  u[c].refs - Flag(c \in T) - Flag(c \in F)
               = w[c].refs - Flag(c \in w[m].targets) - Flag(c \in w[m].friends)
  <2>1. u[c].refs \in Int /\ w[c].refs \in Int
    BY FieldsTyped
  <2> QED
    BY <2>1 DEF Flag
<1>7. \A c \in Creatures : u[c].refs - Flag(c \in T) - Flag(c \in F)
               = w[c].refs - Flag(c \in w[m].targets) - Flag(c \in w[m].friends)
  BY <1>6
<1> HIDE DEF T
<1>8. Calm(w, [u EXCEPT ![m].targets = T, ![m].friends = F])
  BY <1>1, <1>7, RelistCalm
<1> QED
  BY <1>5, <1>8

(* AddRef gives one reference to one creature. *)
LEMMA AddRefIs ==
  ASSUME NEW w \in Worlds, NEW c \in Creatures
  PROVE  /\ AddRef(w, c) \in Worlds /\ Recounted(w, AddRef(w, c))
         /\ \A d \in Creatures : AddRef(w, c)[d].refs = w[d].refs + Flag(d = c)
         /\ \A d \in Creatures : AddRef(w, c)[d].friends = w[d].friends
         /\ \A d \in Creatures : AddRef(w, c)[d].targets = w[d].targets
<1> DEFINE r == [w[c] EXCEPT !.refs = @ + 1]
<1>1. w[c] \in Fields /\ w[c].refs + 1 \in Int
  BY DEF Worlds, Fields
<1>2. r \in Fields
  BY <1>1, OneField
<1>3. AddRef(w, c) = [w EXCEPT ![c] = r]
  BY DEF AddRef
<1>4. AddRef(w, c) \in Worlds /\ AddRef(w, c)[c] = r /\ \A d \in Creatures \ {c} : AddRef(w, c)[d] = w[d]
  <2> HIDE DEF r
  <2>1. /\ [w EXCEPT ![c] = r] \in Worlds /\ [w EXCEPT ![c] = r][c] = r
        /\ \A d \in Creatures \ {c} : [w EXCEPT ![c] = r][d] = w[d]
    BY <1>2, Put
  <2> QED
    BY <1>3, <2>1
<1>5. ASSUME NEW d \in Creatures
      PROVE  /\ AddRef(w, c)[d] = [w[d] EXCEPT !.refs = AddRef(w, c)[d].refs]
             /\ AddRef(w, c)[d].refs = w[d].refs + Flag(d = c)
             /\ AddRef(w, c)[d].friends = w[d].friends
             /\ AddRef(w, c)[d].targets = w[d].targets
  <2>1. CASE d = c
    BY <1>1, <1>4, <2>1 DEF Flag, Fields
  <2>2. CASE d # c
    <3>1. w[d] \in Fields /\ Flag(d = c) = 0 /\ w[d].refs + 0 = w[d].refs
      BY <2>2 DEF Flag, Worlds, Fields
    <3>2. w[d] = [w[d] EXCEPT !.refs = w[d].refs]
      BY <3>1 DEF Fields
    <3> QED
      BY <1>4, <2>2, <3>1, <3>2
  <2> QED
    BY <2>1, <2>2
<1> QED
  BY <1>4, <1>5 DEF Recounted

(* UnRef, field by field. *)
LEMMA UnRefCounts ==
  ASSUME NEW w \in Worlds, NEW c \in Creatures
  PROVE  /\ UnRef(w, c) \in Worlds /\ Recounted(w, UnRef(w, c))
         /\ \A d \in Creatures : UnRef(w, c)[d].refs = w[d].refs - Flag(d = c)
         /\ \A d \in Creatures : UnRef(w, c)[d].friends = w[d].friends
         /\ \A d \in Creatures : UnRef(w, c)[d].targets = w[d].targets
<1> DEFINE v == UnRef(w, c)
<1>1. v \in Worlds /\ LessRefs(w, {c}, v)
  BY UnRefIs
<1> HIDE DEF v
<1>2. ASSUME NEW d \in Creatures
      PROVE  /\ v[d] = [w[d] EXCEPT !.refs = v[d].refs] /\ v[d].refs = w[d].refs - Flag(d = c)
             /\ v[d].friends = w[d].friends /\ v[d].targets = w[d].targets
  <2>1. w[d] \in Fields
    BY DEF Worlds
  <2>2. v[d] = [w[d] EXCEPT !.refs = w[d].refs - Flag(d = c)]
    BY <1>1 DEF LessRefs, Flag
  <2> QED
    BY <2>1, <2>2 DEF Fields
<1> QED
  BY <1>1, <1>2 DEF Recounted, v

(* Monster::onCreatureFound takes a reference for each list the creature enters,
   and onCreatureLeave gives it back. *)
LEMMA BefriendCalm ==
  ASSUME NEW w \in Worlds, NEW m \in Creatures, NEW c \in Creatures
  PROVE  Calm(w, Befriend(w, m, c))
<1>1. CASE ~(isFriend(w, m, c) /\ c \notin w[m].friends)
  BY <1>1, CalmSelf DEF Befriend
<1>2. CASE isFriend(w, m, c) /\ c \notin w[m].friends
  <2> DEFINE u == AddRef(w, c)
             F == w[m].friends \cup {c}
  <2>1. /\ u \in Worlds /\ Recounted(w, u) /\ u[m].friends = w[m].friends
        /\ \A d \in Creatures : u[d].refs = w[d].refs + Flag(d = c)
    BY AddRefIs
  <2>2. F \in SUBSET Creatures
    BY FieldsTyped
  <2>3. Befriend(w, m, c) = [u EXCEPT ![m].friends = F]
    BY <1>2, <2>1 DEF Befriend
  <2> HIDE DEF u
  <2>4. ASSUME NEW d \in Creatures
        PROVE  u[d].refs - Flag(d \in F) = w[d].refs - Flag(d \in w[m].friends)
    <3>1. w[d].refs \in Int
      BY FieldsTyped
    <3> QED
      BY <1>2, <2>1, <3>1 DEF Flag
  <2> HIDE DEF F
  <2>5. Calm(w, [u EXCEPT ![m].friends = F])
    BY <2>1, <2>2, <2>4, FriendsCalm
  <2> QED
    BY <2>3, <2>5
<1> QED
  BY <1>1, <1>2

LEMMA OpposeCalm ==
  ASSUME NEW w \in Worlds, NEW m \in Creatures, NEW c \in Creatures
  PROVE  Calm(w, Oppose(w, m, c))
<1>1. CASE ~(isOpponent(w, m, c) /\ c \notin w[m].targets)
  BY <1>1, CalmSelf DEF Oppose
<1>2. CASE isOpponent(w, m, c) /\ c \notin w[m].targets
  <2> DEFINE u == AddRef(w, c)
             T == w[m].targets \cup {c}
  <2>1. /\ u \in Worlds /\ Recounted(w, u) /\ u[m].targets = w[m].targets
        /\ \A d \in Creatures : u[d].refs = w[d].refs + Flag(d = c)
    BY AddRefIs
  <2>2. T \in SUBSET Creatures
    BY FieldsTyped
  <2>3. Oppose(w, m, c) = [u EXCEPT ![m].targets = T]
    BY <1>2, <2>1 DEF Oppose
  <2> HIDE DEF u
  <2>4. ASSUME NEW d \in Creatures
        PROVE  u[d].refs - Flag(d \in T) = w[d].refs - Flag(d \in w[m].targets)
    <3>1. w[d].refs \in Int
      BY FieldsTyped
    <3> QED
      BY <1>2, <2>1, <3>1 DEF Flag
  <2> HIDE DEF T
  <2>5. Calm(w, [u EXCEPT ![m].targets = T])
    BY <2>1, <2>2, <2>4, TargetsCalm
  <2> QED
    BY <2>3, <2>5
<1> QED
  BY <1>1, <1>2

LEMMA FriendLeftCalm ==
  ASSUME NEW w \in Worlds, NEW m \in Creatures, NEW c \in Creatures
  PROVE  Calm(w, FriendLeft(w, m, c))
<1>1. CASE ~(isFriend(w, m, c) /\ c \in w[m].friends)
  BY <1>1, CalmSelf DEF FriendLeft
<1>2. CASE isFriend(w, m, c) /\ c \in w[m].friends
  <2> DEFINE u == UnRef(w, c)
             F == w[m].friends \ {c}
  <2>1. /\ u \in Worlds /\ Recounted(w, u) /\ u[m].friends = w[m].friends
        /\ \A d \in Creatures : u[d].refs = w[d].refs - Flag(d = c)
    BY UnRefCounts
  <2>2. F \in SUBSET Creatures
    BY FieldsTyped
  <2>3. FriendLeft(w, m, c) = [u EXCEPT ![m].friends = F]
    BY <1>2, <2>1 DEF FriendLeft
  <2> HIDE DEF u
  <2>4. ASSUME NEW d \in Creatures
        PROVE  u[d].refs - Flag(d \in F) = w[d].refs - Flag(d \in w[m].friends)
    <3>1. w[d].refs \in Int
      BY FieldsTyped
    <3> QED
      BY <1>2, <2>1, <3>1 DEF Flag
  <2> HIDE DEF F
  <2>5. Calm(w, [u EXCEPT ![m].friends = F])
    BY <2>1, <2>2, <2>4, FriendsCalm
  <2> QED
    BY <2>3, <2>5
<1> QED
  BY <1>1, <1>2

LEMMA OpponentLeftCalm ==
  ASSUME NEW w \in Worlds, NEW m \in Creatures, NEW c \in Creatures
  PROVE  Calm(w, OpponentLeft(w, m, c))
<1>1. CASE ~(isOpponent(w, m, c) /\ c \in w[m].targets)
  BY <1>1, CalmSelf DEF OpponentLeft
<1>2. CASE isOpponent(w, m, c) /\ c \in w[m].targets
  <2> DEFINE u == UnRef(w, c)
             T == w[m].targets \ {c}
             v == [u EXCEPT ![m].targets = T]
  <2>1. /\ u \in Worlds /\ Recounted(w, u) /\ u[m].targets = w[m].targets
        /\ \A d \in Creatures : u[d].refs = w[d].refs - Flag(d = c)
    BY UnRefCounts
  <2>2. T \in SUBSET Creatures
    BY FieldsTyped
  <2>3. OpponentLeft(w, m, c) = IdleIfAlone(v, m)
    BY <1>2, <2>1 DEF OpponentLeft
  <2> HIDE DEF u
  <2>4. ASSUME NEW d \in Creatures
        PROVE  u[d].refs - Flag(d \in T) = w[d].refs - Flag(d \in w[m].targets)
    <3>1. w[d].refs \in Int
      BY FieldsTyped
    <3> QED
      BY <1>2, <2>1, <3>1 DEF Flag
  <2> HIDE DEF T
  <2>5. Calm(w, v) /\ v \in Worlds
    BY <2>1, <2>2, <2>4, TargetsCalm DEF Calm
  <2> HIDE DEF v
  <2>6. Calm(v, IdleIfAlone(v, m))
    BY <2>5, UpdateIdleCalm, CalmSelf DEF IdleIfAlone
  <2> QED
    BY <2>3, <2>5, <2>6, CalmThen
<1> QED
  BY <1>1, <1>2

(* Monster::onCreatureFound, whole. *)
LEMMA OnFoundCalm ==
  ASSUME NEW w \in Worlds, NEW m \in Creatures, NEW c \in Creatures
  PROVE  Calm(w, OnFound(w, m, c))
<1>1. Calm(w, Befriend(w, m, c)) /\ Befriend(w, m, c) \in Worlds
  BY BefriendCalm DEF Calm
<1>2. LET v == Befriend(w, m, c) IN Calm(v, Oppose(v, m, c)) /\ Oppose(v, m, c) \in Worlds
  BY <1>1, OpposeCalm DEF Calm
<1>3. LET v == Oppose(Befriend(w, m, c), m, c) IN Calm(v, UpdateIdle(v, m))
  BY <1>2, UpdateIdleCalm
<1> QED
  BY <1>1, <1>2, <1>3, CalmThen DEF OnFound

(* What a monster finds. *)
FindAll(w, m, S) == LET find(x, c) == OnFound(x, m, c) IN ForAll(find, w, S)

(* Monster::updateTargetList finds who it sees, in any order. *)
LEMMA FindAllFold ==
  ASSUME NEW w \in Worlds, NEW m \in Creatures, NEW S \in SUBSET Creatures,
         NEW G \in SUBSET ((SUBSET S) \X Worlds), <<{}, w>> \in G,
         \A s \in SUBSET S, v \in Worlds :
           s # {} /\ <<s \ {Pick(s)}, v>> \in G => <<s, OnFound(v, m, Pick(s))>> \in G
  PROVE  <<S, FindAll(w, m, S)>> \in G
<1> DEFINE nx == [q \in (SUBSET S) \X Worlds |-> OnFound(q[2], m, Pick(q[1]))]
           Is(f) == f = [s \in SUBSET S |-> IF s = {} THEN w ELSE OnFound(f[s \ {Pick(s)}], m, Pick(s))]
           f == CHOOSE f : Is(f)
<1>0. IsFiniteSet(S)
  BY Counted
<1>1. Stays(S, nx, G)
  BY DEF Stays
<1>2. Is(f)
  <2>1. PICK it : Runs(S, w, nx, it) /\ \A s \in SUBSET S : <<s, it[s]>> \in G
    <3> HIDE DEF nx
    <3> QED
      BY <1>0, <1>1, RunExists
  <2>2. \A s \in SUBSET S : it[s] \in Worlds
    BY <2>1
  <2>3. Is(it)
    BY <2>1, <2>2 DEF Runs
  <2> HIDE DEF Is
  <2> QED
    BY <2>3
<1>3. FindAll(w, m, S) = f[S]
  BY DEF FindAll, ForAll, FoldSet, MapThenFoldSet, Pick
<1>4. \A s \in SUBSET S : s # {} /\ f[s \ {Pick(s)}] \in Worlds => f[s] = nx[<<s, f[s \ {Pick(s)}]>>]
  <2> HIDE DEF f
  <2> QED
    BY <1>2
<1>5. f[{}] = w
  BY <1>2
<1> HIDE DEF f, nx
<1>6. Follows(S, w, Worlds, nx, f)
  BY <1>4, <1>5 DEF Follows
<1> QED
  BY <1>0, <1>1, <1>3, <1>6, RunStays

LEMMA FindAllCalm ==
  ASSUME NEW w \in Worlds, NEW m \in Creatures, NEW S \in SUBSET Creatures
  PROVE  Calm(w, FindAll(w, m, S))
<1> DEFINE G == {q \in (SUBSET S) \X Worlds : Calm(w, q[2])}
<1>1. <<{}, w>> \in G
  BY CalmSelf
<1>2. ASSUME NEW s \in SUBSET S, NEW v \in Worlds, s # {}, <<s \ {Pick(s)}, v>> \in G
      PROVE  <<s, OnFound(v, m, Pick(s))>> \in G
  <2>1. Pick(s) \in Creatures
    BY <1>2 DEF Pick
  <2>2. Calm(v, OnFound(v, m, Pick(s)))
    BY <2>1, OnFoundCalm
  <2>3. Calm(w, OnFound(v, m, Pick(s)))
    BY <1>2, <2>2, CalmThen
  <2>4. OnFound(v, m, Pick(s)) \in Worlds
    BY <2>2 DEF Calm
  <2> QED
    BY <2>3, <2>4
<1>3. G \in SUBSET ((SUBSET S) \X Worlds)
  OBVIOUS
<1>4. <<S, FindAll(w, m, S)>> \in G
  <2> HIDE DEF G
  <2> QED
    BY <1>1, <1>2, <1>3, FindAllFold
<1> QED
  BY <1>4

(* The sum that UpdateTargetListCalm needs. *)
LEMMA Restored ==
  ASSUME NEW r \in Int, NEW n \in Int, NEW a \in Int, NEW b \in Int, NEW f \in Int, NEW t \in Int,
         NEW fa \in Int, NEW tb \in Int, n = r - a - b, a + f = fa, b + t = tb
  PROVE  n - t - f = r - tb - fa
  OBVIOUS

(* Monster::updateTargetList gives back the lost and finds the others. *)
LEMMA UpdateTargetListCalm ==
  ASSUME NEW w \in Worlds, NEW m \in Creatures
  PROVE  Calm(w, UpdateTargetList(w, m))
<1> DEFINE lost(S) == {c \in S : ~w[c].alive \/ w[c].at # w[m].at}
           A == lost(w[m].friends)
           B == lost(w[m].targets)
           v == ForAll(UnRef, ForAll(UnRef, w, A), B)
           F == w[m].friends \ A
           T == w[m].targets \ B
           u == [v EXCEPT ![m].friends = F, ![m].targets = T]
<1>1. w[m].targets \in SUBSET Creatures /\ w[m].friends \in SUBSET Creatures /\ w[m].at = w[m].at
  BY FieldsTyped
<1>2. A \in SUBSET Creatures /\ B \in SUBSET Creatures /\ F \in SUBSET Creatures /\ T \in SUBSET Creatures
  BY <1>1
<1>3. /\ v \in Worlds /\ Recounted(w, v)
      /\ \A c \in Creatures : v[c].refs = w[c].refs - Flag(c \in A) - Flag(c \in B)
  <2> HIDE DEF A, B
  <2> QED
    BY <1>2, LessTwice
<1>4. UpdateTargetList(w, m) = FindAll(u, m, At(w, w[m].at) \ {m})
  <2>1. v[m].friends = w[m].friends /\ v[m].targets = w[m].targets
    <3> HIDE DEF v
    <3>1. v[m] = [w[m] EXCEPT !.refs = v[m].refs]
      BY <1>3 DEF Recounted
    <3>2. w[m] \in Fields
      BY DEF Worlds
    <3> QED
      BY <3>1, <3>2 DEF Fields
  <2>2. v \in [Creatures -> Fields]
    BY <1>3 DEF Worlds
  <2> QED
    BY <2>1, <2>2 DEF UpdateTargetList, FindAll
<1>5. ASSUME NEW c \in Creatures
      PROVE  v[c].refs - Flag(c \in T) - Flag(c \in F)
               = w[c].refs - Flag(c \in w[m].targets) - Flag(c \in w[m].friends)
  <2>1. w[c].refs \in Int
    BY FieldsTyped
  <2>2. v[c].refs = w[c].refs - Flag(c \in A) - Flag(c \in B)
    BY <1>3
  <2>3. Flag(c \in A) + Flag(c \in F) = Flag(c \in w[m].friends)
    BY DEF Flag
  <2>4. Flag(c \in B) + Flag(c \in T) = Flag(c \in w[m].targets)
    BY DEF Flag
  <2>5. /\ Flag(c \in A) \in Int /\ Flag(c \in B) \in Int
        /\ Flag(c \in F) \in Int /\ Flag(c \in T) \in Int
        /\ Flag(c \in w[m].friends) \in Int /\ Flag(c \in w[m].targets) \in Int
    BY DEF Flag
  <2>6. v[c].refs \in Int
    BY <1>3, FieldsTyped
  <2> HIDE DEF A, B, F, T, v
  <2> QED
    BY <2>1, <2>2, <2>3, <2>4, <2>5, <2>6, Restored
<1> HIDE DEF A, B, F, T, v
<1>6. Calm(w, u) /\ u \in Worlds
  BY <1>2, <1>3, <1>5, RelistCalm DEF Calm
<1>7. At(w, w[m].at) \ {m} \in SUBSET Creatures
  BY DEF At
<1>8. Calm(u, FindAll(u, m, At(w, w[m].at) \ {m}))
  <2> HIDE DEF u
  <2> QED
    BY <1>6, <1>7, FindAllCalm
<1> QED
  BY <1>4, <1>6, <1>8, CalmThen

-----------------------------------------------------------------------------
(* Only targets change. *)
Aimed(w, v) ==
  v \in Worlds /\ \A c \in Creatures : v[c] = [w[c] EXCEPT !.attacked = v[c].attacked]

LEMMA AimedSelf == ASSUME NEW w \in Worlds PROVE Aimed(w, w)
<1>1. ASSUME NEW c \in Creatures PROVE w[c] = [w[c] EXCEPT !.attacked = w[c].attacked]
  <2>1. w[c] \in Fields
    BY DEF Worlds
  <2> QED
    BY <2>1 DEF Fields
<1> QED
  BY <1>1 DEF Aimed

(* Such steps compose. *)
LEMMA AimedThen ==
  ASSUME NEW w, NEW v, NEW u, w \in Worlds, Aimed(w, v), Aimed(v, u)
  PROVE  Aimed(w, u)
<1>1. ASSUME NEW c \in Creatures PROVE u[c] = [w[c] EXCEPT !.attacked = u[c].attacked]
  <2>1. w[c] \in Fields
    BY DEF Worlds
  <2>2. /\ v[c] = [w[c] EXCEPT !.attacked = v[c].attacked]
        /\ u[c] = [v[c] EXCEPT !.attacked = u[c].attacked]
    BY DEF Aimed
  <2> QED
    BY <2>1, <2>2 DEF Fields
<1> QED
  BY <1>1 DEF Aimed

(* All other fields stay. *)
LEMMA AimedFields ==
  ASSUME NEW w \in Worlds, NEW v, Aimed(w, v)
  PROVE  /\ v \in Worlds /\ SameFrame(w, v)
         /\ \A c \in Creatures :
              /\ v[c].vec = w[c].vec /\ v[c].queued = w[c].queued /\ v[c].refs = w[c].refs
              /\ v[c].targets = w[c].targets /\ v[c].friends = w[c].friends
<1>1. ASSUME NEW c \in Creatures
      PROVE  /\ v[c].at = w[c].at /\ v[c].removed = w[c].removed /\ v[c].alive = w[c].alive
             /\ v[c].master = w[c].master /\ v[c].summons = w[c].summons
             /\ v[c].listed = w[c].listed /\ v[c].released = w[c].released
             /\ v[c].vec = w[c].vec /\ v[c].queued = w[c].queued /\ v[c].refs = w[c].refs
             /\ v[c].targets = w[c].targets /\ v[c].friends = w[c].friends
  <2>1. w[c] \in Fields
    BY DEF Worlds
  <2>2. v[c] = [w[c] EXCEPT !.attacked = v[c].attacked]
    BY DEF Aimed
  <2> QED
    BY <2>1, <2>2 DEF Fields
<1> QED
  BY <1>1 DEF Aimed, SameFrame

(* No reference is taken for a target that is attacked. *)
LEMMA AimedCalm ==
  ASSUME NEW w \in Worlds, NEW v, Aimed(w, v)
  PROVE  Calm(w, v)
<1>1. /\ v \in Worlds /\ SameFrame(w, v)
      /\ \A c \in Creatures :
              /\ v[c].vec = w[c].vec /\ v[c].queued = w[c].queued /\ v[c].refs = w[c].refs
              /\ v[c].targets = w[c].targets /\ v[c].friends = w[c].friends
  BY AimedFields
<1>2. ASSUME NEW c \in Creatures PROVE Hunters(v, c) = Hunters(w, c) /\ Friends(v, c) = Friends(w, c)
  BY <1>1 DEF Hunters, Friends
<1>3. InVector(w) => InVector(v)
  BY <1>1 DEF InVector, SameFrame
<1>4. \A c \in Creatures : Lent(v, c) = Lent(w, c)
  BY <1>1, <1>2 DEF Lent
<1> QED
  BY <1>1, <1>3, <1>4 DEF Calm, SameLent

(* Creature::setAttackedCreature, without the summons and with them. *)
LEMMA SetAttackedAloneAims ==
  ASSUME NEW w \in Worlds, NEW c \in Creatures, NEW d \in Creatures \cup {NoCreature}
  PROVE  Aimed(w, SetAttackedAlone(w, c, d))
<1> DEFINE e == IF d = NoCreature \/ w[d].at = w[c].at THEN d ELSE NoCreature
           r == [w[c] EXCEPT !.attacked = e]
           v == [w EXCEPT ![c] = r]
<1>1. SetAttackedAlone(w, c, d) = v
  BY DEF SetAttackedAlone
<1>2. e \in Creatures \cup {NoCreature} /\ w[c] \in Fields
  BY DEF Worlds
<1> HIDE DEF e
<1>3. r \in Fields
  BY <1>2, OneField
<1>4. r.attacked = e
  BY <1>2 DEF Fields
<1>5. v \in Worlds /\ v[c] = r /\ \A x \in Creatures \ {c} : v[x] = w[x]
  <2> HIDE DEF r
  <2> QED
    BY <1>3, Put
<1> HIDE DEF v
<1>6. ASSUME NEW x \in Creatures PROVE v[x] = [w[x] EXCEPT !.attacked = v[x].attacked]
  <2>1. CASE x = c
    BY <1>4, <1>5, <2>1
  <2>2. CASE x # c
    <3>1. w[x] \in Fields
      BY DEF Worlds
    <3>2. w[x] = [w[x] EXCEPT !.attacked = w[x].attacked]
      BY <3>1 DEF Fields
    <3> QED
      BY <1>5, <2>2, <3>2
  <2> QED
    BY <2>1, <2>2
<1> QED
  BY <1>1, <1>5, <1>6 DEF Aimed

(* The order to attack that a creature gives its summons. *)
OrderAll(w, d, S) == LET order(x, s) == SetAttackedAlone(x, s, d) IN ForAll(order, w, S)

LEMMA OrderAllFold ==
  ASSUME NEW w \in Worlds, NEW d \in Creatures \cup {NoCreature}, NEW S \in SUBSET Creatures,
         NEW G \in SUBSET ((SUBSET S) \X Worlds), <<{}, w>> \in G,
         \A s \in SUBSET S, v \in Worlds :
           s # {} /\ <<s \ {Pick(s)}, v>> \in G => <<s, SetAttackedAlone(v, Pick(s), d)>> \in G
  PROVE  <<S, OrderAll(w, d, S)>> \in G
<1> DEFINE nx == [q \in (SUBSET S) \X Worlds |-> SetAttackedAlone(q[2], Pick(q[1]), d)]
           Is(f) == f = [s \in SUBSET S |-> IF s = {} THEN w ELSE SetAttackedAlone(f[s \ {Pick(s)}], Pick(s), d)]
           f == CHOOSE f : Is(f)
<1>0. IsFiniteSet(S)
  BY Counted
<1>1. Stays(S, nx, G)
  BY DEF Stays
<1>2. Is(f)
  <2>1. PICK it : Runs(S, w, nx, it) /\ \A s \in SUBSET S : <<s, it[s]>> \in G
    <3> HIDE DEF nx
    <3> QED
      BY <1>0, <1>1, RunExists
  <2>2. \A s \in SUBSET S : it[s] \in Worlds
    BY <2>1
  <2>3. Is(it)
    BY <2>1, <2>2 DEF Runs
  <2> HIDE DEF Is
  <2> QED
    BY <2>3
<1>3. OrderAll(w, d, S) = f[S]
  BY DEF OrderAll, ForAll, FoldSet, MapThenFoldSet, Pick
<1>4. \A s \in SUBSET S : s # {} /\ f[s \ {Pick(s)}] \in Worlds => f[s] = nx[<<s, f[s \ {Pick(s)}]>>]
  <2> HIDE DEF f
  <2> QED
    BY <1>2
<1>5. f[{}] = w
  BY <1>2
<1> HIDE DEF f, nx
<1>6. Follows(S, w, Worlds, nx, f)
  BY <1>4, <1>5 DEF Follows
<1> QED
  BY <1>0, <1>1, <1>3, <1>6, RunStays

LEMMA OrderAllAims ==
  ASSUME NEW w \in Worlds, NEW d \in Creatures \cup {NoCreature}, NEW S \in SUBSET Creatures
  PROVE  Aimed(w, OrderAll(w, d, S))
<1> DEFINE G == {q \in (SUBSET S) \X Worlds : Aimed(w, q[2])}
<1>1. <<{}, w>> \in G
  BY AimedSelf
<1>2. ASSUME NEW s \in SUBSET S, NEW v \in Worlds, s # {}, <<s \ {Pick(s)}, v>> \in G
      PROVE  <<s, SetAttackedAlone(v, Pick(s), d)>> \in G
  <2>1. Pick(s) \in Creatures
    BY <1>2 DEF Pick
  <2>2. Aimed(v, SetAttackedAlone(v, Pick(s), d))
    BY <2>1, SetAttackedAloneAims
  <2>3. Aimed(w, SetAttackedAlone(v, Pick(s), d))
    BY <1>2, <2>2, AimedThen
  <2>4. SetAttackedAlone(v, Pick(s), d) \in Worlds
    BY <2>2 DEF Aimed
  <2> QED
    BY <2>3, <2>4
<1>3. G \in SUBSET ((SUBSET S) \X Worlds)
  OBVIOUS
<1>4. <<S, OrderAll(w, d, S)>> \in G
  <2> HIDE DEF G
  <2> QED
    BY <1>1, <1>2, <1>3, OrderAllFold
<1> QED
  BY <1>4

LEMMA SetAttackedAims ==
  ASSUME NEW w \in Worlds, NEW c \in Creatures, NEW d \in Creatures \cup {NoCreature}
  PROVE  Aimed(w, SetAttacked(w, c, d))
<1> DEFINE v == SetAttackedAlone(w, c, d)
<1>1. Aimed(w, v) /\ v \in Worlds
  BY SetAttackedAloneAims DEF Aimed
<1>2. w[c].summons \in SUBSET Creatures
  BY FieldsTyped
<1>3. Aimed(v, OrderAll(v, d, w[c].summons))
  <2> HIDE DEF v
  <2> QED
    BY <1>1, <1>2, OrderAllAims
<1>4. SetAttacked(w, c, d) \in {v, OrderAll(v, d, w[c].summons)}
  BY DEF SetAttacked, OrderAll
<1> HIDE DEF v
<1>5. Aimed(w, OrderAll(v, d, w[c].summons))
  BY <1>1, <1>3, AimedThen
<1> QED
  BY <1>1, <1>4, <1>5

LEMMA SetAttackedCalm ==
  ASSUME NEW w \in Worlds, NEW c \in Creatures, NEW d \in Creatures \cup {NoCreature}
  PROVE  Calm(w, SetAttacked(w, c, d))
  BY SetAttackedAims, AimedCalm

(* What a monster does when it sees another come, go, move or think: the
   handlers of monster.cpp, one by one. *)
LEMMA ForgetCalm ==
  ASSUME NEW w \in Worlds, NEW c \in Creatures, NEW d \in Creatures
  PROVE  Calm(w, Forget(w, c, d))
  BY SetAttackedCalm, CalmSelf DEF Forget

LEMMA SelectTargetCalm ==
  ASSUME NEW w \in Worlds, NEW m \in Creatures, NEW d \in Creatures \cup {NoCreature}, NEW keen
  PROVE  Calm(w, SelectTarget(w, m, d, keen))
  BY SetAttackedCalm, CalmSelf DEF SelectTarget

LEMMA MasterLeftCalm ==
  ASSUME NEW w \in Worlds, NEW m \in Creatures, NEW c \in Creatures
  PROVE  Calm(w, MasterLeft(w, m, c))
<1> DEFINE v == [w EXCEPT ![m].inRange = FALSE]
<1>1. Calm(w, v) /\ v \in Worlds
  BY OneFieldCalm DEF Calm
<1> HIDE DEF v
<1>2. Calm(w, UpdateIdle(v, m))
  BY <1>1, UpdateIdleCalm, CalmThen
<1> QED
  BY <1>2, CalmSelf DEF MasterLeft, v

LEMMA OnLeaveCalm ==
  ASSUME NEW w \in Worlds, NEW m \in Creatures, NEW c \in Creatures
  PROVE  Calm(w, OnLeave(w, m, c))
<1> DEFINE v == MasterLeft(w, m, c)
           u == FriendLeft(v, m, c)
<1>1. Calm(w, v) /\ v \in Worlds
  BY MasterLeftCalm DEF Calm
<1>2. Calm(v, u) /\ u \in Worlds
  <2> HIDE DEF v
  <2> QED
    BY <1>1, FriendLeftCalm DEF Calm
<1>3. OnLeave(w, m, c) = OpponentLeft(u, m, c)
  BY DEF OnLeave
<1> HIDE DEF v, u
<1>4. Calm(u, OpponentLeft(u, m, c))
  BY <1>2, OpponentLeftCalm
<1> QED
  BY <1>1, <1>2, <1>3, <1>4, CalmThen

LEMMA OnEnterCalm ==
  ASSUME NEW w \in Worlds, NEW m \in Creatures, NEW c \in Creatures
  PROVE  Calm(w, OnEnter(w, m, c))
<1> DEFINE v == [w EXCEPT ![m].inRange = TRUE]
           u == IF w[m].master = c THEN UpdateIdle(v, m) ELSE w
<1>1. Calm(w, v) /\ v \in Worlds
  BY OneFieldCalm DEF Calm
<1>2. Calm(w, u) /\ u \in Worlds
  <2> HIDE DEF v
  <2>1. Calm(w, UpdateIdle(v, m))
    BY <1>1, UpdateIdleCalm, CalmThen
  <2> QED
    BY <2>1, CalmSelf DEF Calm
<1>3. OnEnter(w, m, c) = OnFound(u, m, c)
  BY DEF OnEnter
<1> HIDE DEF u
<1>4. Calm(u, OnFound(u, m, c))
  BY <1>2, OnFoundCalm
<1> QED
  BY <1>2, <1>3, <1>4, CalmThen

LEMMA OnDisappearCalm ==
  ASSUME NEW w \in Worlds, NEW d \in Creatures, NEW c \in Creatures
  PROVE  Calm(w, OnDisappear(w, d, c))
  BY SetIdleCalm, OnLeaveCalm, CalmSelf DEF OnDisappear

LEMMA HuntCalm ==
  ASSUME NEW w \in Worlds, NEW m \in Creatures, NEW keen
  PROVE  Calm(w, Hunt(w, m, keen))
<1> DEFINE able == {c \in w[m].targets : Sees(w, m, c)}
           orders == w[w[m].master].attacked
<1>1. w[m].targets \in SUBSET Creatures
  BY FieldsTyped
<1>2. able # {} => (CHOOSE c \in able : TRUE) \in Creatures
  BY <1>1
<1>3. isSummon(w, m) => orders \in Creatures \cup {NoCreature}
  BY FieldsTyped DEF isSummon
<1>4. Hunt(w, m, keen) = w \/ (able # {} /\ Hunt(w, m, keen) = SelectTarget(w, m, CHOOSE c \in able : TRUE, keen))
        \/ (isSummon(w, m) /\ Hunt(w, m, keen) = SelectTarget(w, m, orders, keen))
  BY DEF Hunt
<1> HIDE DEF able, orders
<1> QED
  BY <1>2, <1>3, <1>4, SelectTargetCalm, CalmSelf

LEMMA ThinkCalm ==
  ASSUME NEW w \in Worlds, NEW m \in Creatures, NEW keen
  PROVE  Calm(w, Think(w, m, keen))
<1>1. Calm(w, UpdateIdle(w, m)) /\ UpdateIdle(w, m) \in Worlds
  BY UpdateIdleCalm DEF Calm
<1>2. Calm(w, Hunt(UpdateIdle(w, m), m, keen))
  BY <1>1, HuntCalm, CalmThen
<1> QED
  BY <1>2, CalmSelf DEF Think

LEMMA LoseSightCalm ==
  ASSUME NEW w \in Worlds, NEW c \in Creatures
  PROVE  Calm(w, LoseSight(w, c))
  BY SetAttackedCalm, CalmSelf DEF LoseSight

LEMMA NearMasterCalm ==
  ASSUME NEW w \in Worlds, NEW m \in Creatures
  PROVE  Calm(w, NearMaster(w, m))
<1>1. (w[w[m].master].at = w[m].at) \in BOOLEAN
  OBVIOUS
<1>2. Calm(w, [w EXCEPT ![m].inRange = w[w[m].master].at = w[m].at])
  BY <1>1, OneFieldCalm
<1> QED
  BY <1>2, CalmSelf DEF NearMaster

LEMMA OnMoveCalm ==
  ASSUME NEW w \in Worlds, NEW c \in Creatures
  PROVE  Calm(w, OnMove(w, c))
<1> DEFINE v == NearMaster(w, c)
           u == UpdateTargetList(v, c)
<1>1. Calm(w, v) /\ v \in Worlds
  BY NearMasterCalm DEF Calm
<1>2. Calm(v, u) /\ u \in Worlds
  <2> HIDE DEF v
  <2> QED
    BY <1>1, UpdateTargetListCalm DEF Calm
<1>3. OnMove(w, c) \in {w, UpdateIdle(u, c)}
  BY DEF OnMove
<1> HIDE DEF v, u
<1>4. Calm(w, UpdateIdle(u, c))
  BY <1>1, <1>2, UpdateIdleCalm, CalmThen
<1> QED
  BY <1>3, <1>4, CalmSelf

LEMMA MeetCalm ==
  ASSUME NEW w \in Worlds, NEW m \in Creatures, NEW c \in Creatures
  PROVE  Calm(w, Meet(w, m, c))
<1>1. Calm(w, Forget(w, m, c)) /\ Forget(w, m, c) \in Worlds
  BY ForgetCalm DEF Calm
<1>2. Calm(w, OnLeave(Forget(w, m, c), m, c))
  BY <1>1, OnLeaveCalm, CalmThen
<1> QED
  BY <1>2, OnEnterCalm DEF Meet

LEMMA OnOtherMovesCalm ==
  ASSUME NEW w \in Worlds, NEW d \in Creatures, NEW c \in Creatures, NEW keen
  PROVE  Calm(w, OnOtherMoves(w, d, c, keen))
<1> DEFINE v == Meet(w, d, c)
           u == NearMoved(v, d, c)
           t == UpdateIdle(u, d)
<1>1. Calm(w, v) /\ v \in Worlds
  BY MeetCalm DEF Calm
<1>2. Calm(v, u) /\ u \in Worlds
  <2> HIDE DEF v
  <2> QED
    BY <1>1, OneFieldCalm, CalmSelf DEF Calm, NearMoved
<1>3. Calm(u, t) /\ t \in Worlds
  <2> HIDE DEF u
  <2> QED
    BY <1>2, UpdateIdleCalm DEF Calm
<1>4. OnOtherMoves(w, d, c, keen) \in {w, Forget(w, d, c), Notice(t, d, c, keen)}
  BY DEF OnOtherMoves
<1> HIDE DEF v, u, t
<1>5. Calm(t, Notice(t, d, c, keen))
  BY <1>3, SelectTargetCalm, CalmSelf DEF Notice
<1>6. Calm(w, Notice(t, d, c, keen))
  BY <1>1, <1>2, <1>3, <1>5, CalmThen
<1> QED
  BY <1>4, <1>6, ForgetCalm, CalmSelf

-----------------------------------------------------------------------------
(* What is not accounted for among the references of c. *)
Owed(w, c) == Lent(w, c) - Flag(Placed(w, c)) - w[c].released - Flag(w[c].listed) - Count(Masters(w, c))

(* Who dies is in the world, and so are summons, who know their master. *)
Bound(w) ==
  \A c \in Creatures : /\ ~w[c].alive => w[c].at # NoTile
                       /\ \A s \in w[c].summons : w[s].at # NoTile /\ w[s].master = c
Fit(w) == InVector(w) /\ Bound(w)

(* What accounts for all it takes and moves nobody in the world. *)
Keeps(w, v) ==
  /\ v \in Worlds
  /\ Fit(w) => /\ Fit(v)
               /\ \A c \in Creatures :
                    /\ Owed(v, c) = Owed(w, c) /\ v[c].at = w[c].at /\ v[c].listed = w[c].listed
                    /\ v[c].summons \subseteq w[c].summons

LEMMA KeepsSelf == ASSUME NEW w \in Worlds PROVE Keeps(w, w)
  BY DEF Keeps

(* Steps that account for all they do compose. *)
LEMMA KeepsThen ==
  ASSUME NEW w, NEW v, NEW u, Keeps(w, v), Keeps(v, u)
  PROVE  Keeps(w, u)
<1>1. u \in Worlds
  BY DEF Keeps
<1>2. ASSUME Fit(w), NEW c \in Creatures
      PROVE  /\ Fit(u) /\ Owed(u, c) = Owed(w, c) /\ u[c].at = w[c].at /\ u[c].listed = w[c].listed
             /\ u[c].summons \subseteq w[c].summons
  <2>1. /\ Fit(v) /\ Owed(v, c) = Owed(w, c) /\ v[c].at = w[c].at /\ v[c].listed = w[c].listed
        /\ v[c].summons \subseteq w[c].summons
    BY <1>2 DEF Keeps
  <2>2. /\ Fit(u) /\ Owed(u, c) = Owed(v, c) /\ u[c].at = v[c].at /\ u[c].listed = v[c].listed
        /\ u[c].summons \subseteq v[c].summons
    BY <2>1 DEF Keeps
  <2> QED
    BY <2>1, <2>2
<1>3. Fit(w) => Fit(u)
  BY DEF Keeps
<1> QED
  BY <1>1, <1>2, <1>3 DEF Keeps

(* The numbers of the account. *)
LEMMA NumbersTyped ==
  ASSUME NEW w \in Worlds, NEW c \in Creatures
  PROVE  /\ w[c].refs \in Int /\ w[c].released \in Nat /\ Lent(w, c) \in Int /\ Owed(w, c) \in Int
         /\ Count(Masters(w, c)) \in Nat /\ Count(Hunters(w, c)) \in Nat
         /\ Count(Friends(w, c)) \in Nat
         /\ Flag(Placed(w, c)) \in {0, 1} /\ Flag(w[c].listed) \in {0, 1}
         /\ Flag(w[c].queued) \in {0, 1}
<1>1. /\ Masters(w, c) \in SUBSET Creatures /\ Hunters(w, c) \in SUBSET Creatures
      /\ Friends(w, c) \in SUBSET Creatures
  BY DEF Masters, Hunters, Friends
<1>2. /\ Count(Masters(w, c)) \in Nat /\ Count(Hunters(w, c)) \in Nat /\ Count(Friends(w, c)) \in Nat
  BY <1>1, Counted
<1>3. w[c].refs \in Int /\ w[c].released \in Nat
  BY FieldsTyped
<1>4. /\ Flag(Placed(w, c)) \in {0, 1} /\ Flag(w[c].listed) \in {0, 1}
      /\ Flag(w[c].queued) \in {0, 1}
  BY DEF Flag
<1>5. \A a \in Int, b \in {0, 1}, x \in Nat, y \in Nat : a - b - x - y \in Int
  OBVIOUS
<1>6. Lent(w, c) \in Int
  BY <1>2, <1>3, <1>4, <1>5 DEF Lent
<1>7. \A a \in Int, b \in {0, 1}, x \in Nat, d \in {0, 1}, y \in Nat : a - b - x - d - y \in Int
  OBVIOUS
<1>8. Owed(w, c) \in Int
  BY <1>2, <1>3, <1>4, <1>6, <1>7 DEF Owed
<1> QED
  BY <1>2, <1>3, <1>4, <1>6, <1>8

(* What is calm accounts for all it does. *)
LEMMA CalmKeeps ==
  ASSUME NEW w \in Worlds, NEW v, Calm(w, v)
  PROVE  Keeps(w, v)
<1>1. v \in Worlds /\ SameFrame(w, v)
  BY DEF Calm
<1>2. ASSUME Fit(w) PROVE Fit(v) /\ \A c \in Creatures : Owed(v, c) = Owed(w, c)
  <2>1. SameLent(w, v)
    BY <1>2 DEF Fit, Calm
  <2>2. Bound(v)
    <3>1. \A c \in Creatures : w[c].summons \in SUBSET Creatures
      BY FieldsTyped
    <3> QED
      BY <1>1, <1>2, <3>1 DEF SameFrame, Fit, Bound
  <2>3. ASSUME NEW c \in Creatures PROVE Owed(v, c) = Owed(w, c)
    <3>1. Masters(v, c) = Masters(w, c)
      BY <1>1 DEF SameFrame, Masters
    <3>2. Placed(v, c) = Placed(w, c)
      BY <1>1 DEF SameFrame, Placed
    <3>3. Lent(v, c) = Lent(w, c) /\ v[c].released = w[c].released /\ v[c].listed = w[c].listed
      BY <1>1, <2>1 DEF SameFrame, SameLent
    <3> QED
      BY <3>1, <3>2, <3>3 DEF Owed
  <2> QED
    BY <2>1, <2>2, <2>3 DEF Fit, SameLent
<1> QED
  BY <1>1, <1>2 DEF Keeps, SameFrame

(* What changes of one creature without a change of its lists. *)
LEMMA PutHolders ==
  ASSUME NEW w \in Worlds, NEW m \in Creatures, NEW r \in Fields,
         r.targets = w[m].targets, r.friends = w[m].friends, r.summons = w[m].summons
  PROVE  \A c \in Creatures :
           /\ Hunters([w EXCEPT ![m] = r], c) = Hunters(w, c)
           /\ Friends([w EXCEPT ![m] = r], c) = Friends(w, c)
           /\ Masters([w EXCEPT ![m] = r], c) = Masters(w, c)
<1> DEFINE v == [w EXCEPT ![m] = r]
<1>1. v \in Worlds /\ v[m] = r /\ \A c \in Creatures \ {m} : v[c] = w[c]
  BY Put
<1> HIDE DEF v
<1>2. \A c \in Creatures : v[c].targets = w[c].targets /\ v[c].friends = w[c].friends /\ v[c].summons = w[c].summons
  BY <1>1
<1>3. \A c \in Creatures : /\ Hunters(v, c) = Hunters(w, c) /\ Friends(v, c) = Friends(w, c)
                           /\ Masters(v, c) = Masters(w, c)
  BY <1>2 DEF Hunters, Friends, Masters
<1> QED
  BY <1>3 DEF v

(* The reference of a summon goes back. *)
LetGo(w, s) == [UnRef(w, s) EXCEPT ![s].master = NoCreature]

(* The summon has no master then, one reference less, and nothing else changes. *)
LEMMA LetGoDoes ==
  ASSUME NEW w \in Worlds, NEW s \in Creatures
  PROVE  LET v == LetGo(w, s)
         IN  /\ v \in Worlds
             /\ \A c \in Creatures :
                  /\ v[c].at = w[c].at /\ v[c].removed = w[c].removed /\ v[c].alive = w[c].alive
                  /\ v[c].summons = w[c].summons /\ v[c].listed = w[c].listed
                  /\ v[c].released = w[c].released /\ v[c].queued = w[c].queued /\ v[c].vec = w[c].vec
                  /\ v[c].targets = w[c].targets /\ v[c].friends = w[c].friends
                  /\ v[c].master = (IF c = s THEN NoCreature ELSE w[c].master)
                  /\ v[c].refs = w[c].refs - Flag(c = s)
             /\ InVector(w) => InVector(v)
             /\ \A c \in Creatures : Lent(v, c) = Lent(w, c) - Flag(c = s)
<1> DEFINE u == UnRef(w, s)
           r == [u[s] EXCEPT !.master = NoCreature]
           v == [u EXCEPT ![s] = r]
<1>0. LetGo(w, s) = v
  BY DEF LetGo
<1>1. u \in Worlds /\ LessRefs(w, {s}, u)
  BY UnRefIs
<1> HIDE DEF u
<1>2. u[s] \in Fields
  BY <1>1 DEF Worlds
<1>3. r \in Fields
  BY <1>2, OneField
<1> HIDE DEF r
<1>4. v \in Worlds /\ v[s] = r /\ \A c \in Creatures \ {s} : v[c] = u[c]
  BY <1>1, <1>3, Put
<1> HIDE DEF v
<1>5. ASSUME NEW c \in Creatures
      PROVE  /\ v[c].at = w[c].at /\ v[c].removed = w[c].removed /\ v[c].alive = w[c].alive
             /\ v[c].summons = w[c].summons /\ v[c].listed = w[c].listed
             /\ v[c].released = w[c].released /\ v[c].queued = w[c].queued /\ v[c].vec = w[c].vec
             /\ v[c].targets = w[c].targets /\ v[c].friends = w[c].friends
             /\ v[c].master = (IF c = s THEN NoCreature ELSE w[c].master)
             /\ v[c].refs = w[c].refs - Flag(c = s)
  <2>1. w[c] \in Fields
    BY DEF Worlds
  <2>2. u[c] = [w[c] EXCEPT !.refs = w[c].refs - Flag(c \in {s})]
    BY <1>1 DEF LessRefs
  <2>3. Flag(c \in {s}) = Flag(c = s)
    BY DEF Flag
  <2>4. CASE c # s
    <3>1. v[c] = u[c]
      BY <1>4, <2>4
    <3> QED
      BY <2>1, <2>2, <2>3, <2>4, <3>1 DEF Fields
  <2>5. CASE c = s
    <3>1. v[c] = [u[c] EXCEPT !.master = NoCreature]
      BY <1>4, <2>5 DEF r
    <3> QED
      BY <2>1, <2>2, <2>3, <2>5, <3>1 DEF Fields
  <2> QED
    BY <2>4, <2>5
<1>6. InVector(w) => InVector(v)
  BY <1>5 DEF InVector
<1>7. ASSUME NEW c \in Creatures PROVE Lent(v, c) = Lent(w, c) - Flag(c = s)
  <2>1. Hunters(v, c) = Hunters(w, c) /\ Friends(v, c) = Friends(w, c)
    BY <1>5 DEF Hunters, Friends
  <2>2. v[c].refs = w[c].refs - Flag(c = s) /\ v[c].queued = w[c].queued
    BY <1>5
  <2>3. /\ w[c].refs \in Int /\ Count(Hunters(w, c)) \in Nat /\ Count(Friends(w, c)) \in Nat
        /\ Flag(w[c].queued) \in {0, 1}
    BY NumbersTyped
  <2>4. Flag(c = s) \in {0, 1}
    BY DEF Flag
  <2>5. \A a \in Int, f \in {0, 1}, b \in {0, 1}, x \in Nat, y \in Nat :
           (a - f) - b - x - y = (a - b - x - y) - f
    OBVIOUS
  <2> QED
    BY <2>1, <2>2, <2>3, <2>4, <2>5 DEF Lent
<1> QED
  BY <1>0, <1>4, <1>5, <1>6, <1>7

(* Those in S are let go, as far as their own records tell; they may have died. *)
Loosed(w, S, v) ==
  /\ v \in Worlds
  /\ InVector(w) => InVector(v) /\ \A c \in Creatures : Lent(v, c) = Lent(w, c) - Flag(c \in S)
  /\ \A c \in Creatures :
       /\ v[c].at = w[c].at /\ v[c].removed = w[c].removed /\ v[c].summons = w[c].summons
       /\ v[c].listed = w[c].listed /\ v[c].released = w[c].released
       /\ v[c].alive # w[c].alive => c \in S
       /\ v[c].master = IF c \in S THEN NoCreature ELSE w[c].master

LEMMA LoosedNone == ASSUME NEW w \in Worlds PROVE Loosed(w, {}, w)
<1>1. \A c \in Creatures : Lent(w, c) - Flag(c \in {}) = Lent(w, c)
  BY NumbersTyped DEF Flag
<1> QED
  BY <1>1 DEF Loosed

(* One more is let go. *)
LEMMA LoosedThen ==
  ASSUME NEW w \in Worlds, NEW v, NEW u, NEW S, NEW p, p \notin S,
         Loosed(w, S, v), Loosed(v, {p}, u)
  PROVE  Loosed(w, S \cup {p}, u)
<1>1. ASSUME InVector(w), NEW c \in Creatures
      PROVE  InVector(u) /\ Lent(u, c) = Lent(w, c) - Flag(c \in S \cup {p})
  <2>1. InVector(v) /\ Lent(v, c) = Lent(w, c) - Flag(c \in S)
    BY <1>1 DEF Loosed
  <2>2. InVector(u) /\ Lent(u, c) = Lent(v, c) - Flag(c \in {p})
    BY <2>1 DEF Loosed
  <2>3. Lent(w, c) \in Int
    BY NumbersTyped
  <2> QED
    BY <2>1, <2>2, <2>3 DEF Flag
<1>2. InVector(w) => InVector(u)
  BY DEF Loosed
<1>3. \A c \in Creatures :
       /\ u[c].at = w[c].at /\ u[c].removed = w[c].removed /\ u[c].summons = w[c].summons
       /\ u[c].listed = w[c].listed /\ u[c].released = w[c].released
       /\ u[c].alive # w[c].alive => c \in S \cup {p}
       /\ u[c].master = IF c \in S \cup {p} THEN NoCreature ELSE w[c].master
  BY DEF Loosed
<1> QED
  BY <1>1, <1>2, <1>3 DEF Loosed

(* The sum that Disbanded needs. *)
LEMMA Shifted ==
  ASSUME NEW L \in Int, NEW f \in Int, NEW p \in Int, NEW r \in Int, NEW q \in Int,
         NEW x \in Int, NEW y \in Int, NEW g \in Int, NEW h \in Int, x - g = y - h, f = h - g
  PROVE  (L - f) - p - r - q - x = L - p - r - q - y
  OBVIOUS

(* A creature that has let go of some summons forgets them. *)
LEMMA Disbanded ==
  ASSUME NEW w \in Worlds, NEW c \in Creatures, NEW S \in SUBSET w[c].summons, NEW x, Loosed(w, S, x)
  PROVE  Keeps(w, [x EXCEPT ![c].summons = w[c].summons \ S])
<1> DEFINE N == w[c].summons \ S
           r == [x[c] EXCEPT !.summons = N]
           v == [x EXCEPT ![c] = r]
<1>0. [x EXCEPT ![c].summons = w[c].summons \ S] = v
  OBVIOUS
<1>1. x \in Worlds /\ w[c].summons \in SUBSET Creatures
  BY FieldsTyped DEF Loosed
<1>2. N \in SUBSET Creatures /\ x[c] \in Fields
  BY <1>1 DEF Worlds
<1> HIDE DEF N
<1>3. r \in Fields
  BY <1>2, OneField
<1>4. /\ r.at = x[c].at /\ r.removed = x[c].removed /\ r.alive = x[c].alive
      /\ r.master = x[c].master /\ r.summons = N /\ r.targets = x[c].targets
      /\ r.friends = x[c].friends /\ r.listed = x[c].listed /\ r.released = x[c].released
      /\ r.queued = x[c].queued /\ r.vec = x[c].vec /\ r.refs = x[c].refs
  BY <1>2 DEF Fields
<1> HIDE DEF r
<1>5. v \in Worlds /\ v[c] = r /\ \A k \in Creatures \ {c} : v[k] = x[k]
  BY <1>1, <1>3, Put
<1> HIDE DEF v
<1>6. \A k \in Creatures :
        /\ v[k].at = x[k].at /\ v[k].removed = x[k].removed /\ v[k].alive = x[k].alive
        /\ v[k].master = x[k].master /\ v[k].targets = x[k].targets
        /\ v[k].friends = x[k].friends /\ v[k].listed = x[k].listed /\ v[k].released = x[k].released
        /\ v[k].queued = x[k].queued /\ v[k].vec = x[k].vec /\ v[k].refs = x[k].refs
        /\ v[k].summons = IF k = c THEN N ELSE x[k].summons
  BY <1>4, <1>5
<1>7. ASSUME Fit(w) PROVE InVector(v)
  BY <1>6, <1>7 DEF Fit, Loosed, InVector
<1>8. ASSUME Fit(w) PROVE Bound(v)
  <2>1. ASSUME NEW k \in Creatures, ~v[k].alive PROVE v[k].at # NoTile
    <3>1. v[k].at = w[k].at /\ (~w[k].alive \/ k \in S)
      BY <1>6, <2>1 DEF Loosed
    <3> QED
      BY <1>8, <3>1 DEF Fit, Bound
  <2>2. ASSUME NEW k \in Creatures, NEW t \in v[k].summons
        PROVE  v[t].at # NoTile /\ v[t].master = k
    <3>1. t \in w[k].summons /\ t \in Creatures /\ (k = c => t \notin S)
      BY <1>1, <1>6, FieldsTyped DEF Loosed, N
    <3>2. w[t].at # NoTile /\ w[t].master = k
      BY <1>8, <3>1 DEF Fit, Bound
    <3>3. t \in S => k = c
      BY <1>8, <3>2 DEF Fit, Bound
    <3> QED
      BY <1>6, <3>1, <3>2, <3>3 DEF Loosed
  <2> QED
    BY <2>1, <2>2 DEF Bound
<1>9. ASSUME Fit(w), NEW k \in Creatures PROVE Owed(v, k) = Owed(w, k)
  <2>1. Hunters(v, k) = Hunters(x, k) /\ Friends(v, k) = Friends(x, k)
    BY <1>6 DEF Hunters, Friends
  <2>2. Lent(v, k) = Lent(x, k)
    BY <1>6, <2>1 DEF Lent
  <2>3. Lent(v, k) = Lent(w, k) - Flag(k \in S)
    BY <1>9, <2>2 DEF Loosed, Fit
  <2>4. /\ Masters(v, k) \in SUBSET Creatures /\ Masters(w, k) \in SUBSET Creatures
        /\ Masters(v, k) \ {c} = Masters(w, k) \ {c}
    BY <1>6 DEF Masters, Loosed
  <2>5. /\ Flag(c \in Masters(v, k)) = Flag(k \in N)
        /\ Flag(c \in Masters(w, k)) = Flag(k \in w[c].summons)
    BY <1>6 DEF Masters, Flag
  <2>6. Count(Masters(v, k)) - Flag(k \in N) = Count(Masters(w, k)) - Flag(k \in w[c].summons)
    <3> HIDE DEF Masters, Flag, Count
    <3>1. Count(Masters(v, k)) - Flag(c \in Masters(v, k)) = Count(Masters(w, k)) - Flag(c \in Masters(w, k))
      BY <2>4, ButOne
    <3> QED
      BY <2>5, <3>1
  <2>7. /\ Flag(k \in S) = Flag(k \in w[c].summons) - Flag(k \in N)
        /\ Flag(k \in S) \in Int /\ Flag(k \in w[c].summons) \in Int /\ Flag(k \in N) \in Int
    BY DEF Flag, N
  <2>8. /\ Lent(w, k) \in Int /\ Flag(Placed(w, k)) \in Int /\ w[k].released \in Int
        /\ Flag(w[k].listed) \in Int /\ Count(Masters(v, k)) \in Int /\ Count(Masters(w, k)) \in Int
    BY <1>5, NumbersTyped
  <2>9. Placed(v, k) = Placed(w, k) /\ v[k].released = w[k].released /\ v[k].listed = w[k].listed
    BY <1>6 DEF Placed, Loosed
  <2>10. Owed(v, k) = (Lent(w, k) - Flag(k \in S)) - Flag(Placed(w, k)) - w[k].released
                       - Flag(w[k].listed) - Count(Masters(v, k))
    BY <2>3, <2>9 DEF Owed
  <2>11. Owed(w, k) = Lent(w, k) - Flag(Placed(w, k)) - w[k].released - Flag(w[k].listed) - Count(Masters(w, k))
    BY DEF Owed
  <2> QED
    BY <2>6, <2>7, <2>8, <2>10, <2>11, Shifted
<1>10. \A k \in Creatures : /\ v[k].at = w[k].at /\ v[k].listed = w[k].listed
                            /\ v[k].summons \subseteq w[k].summons
  BY <1>6 DEF Loosed, N
<1> QED
  BY <1>0, <1>5, <1>7, <1>8, <1>9, <1>10 DEF Keeps, Fit

(* LetGo is such a step. *)
LEMMA LetGoLooses ==
  ASSUME NEW w \in Worlds, NEW s \in Creatures
  PROVE  Loosed(w, {s}, LetGo(w, s))
<1> DEFINE v == LetGo(w, s)
<1>1. /\ v \in Worlds
      /\ \A c \in Creatures :
           /\ v[c].at = w[c].at /\ v[c].removed = w[c].removed /\ v[c].alive = w[c].alive
           /\ v[c].summons = w[c].summons /\ v[c].listed = w[c].listed
           /\ v[c].released = w[c].released
           /\ v[c].master = (IF c = s THEN NoCreature ELSE w[c].master)
      /\ InVector(w) => InVector(v)
      /\ \A c \in Creatures : Lent(v, c) = Lent(w, c) - Flag(c = s)
  BY LetGoDoes
<1> HIDE DEF v
<1>2. \A c \in Creatures : Flag(c = s) = Flag(c \in {s})
  BY DEF Flag
<1> QED
  BY <1>1, <1>2 DEF Loosed, v

(* Creature::removeSummon accounts for the reference of the master. *)
LEMMA RemoveSummonKeeps ==
  ASSUME NEW w \in Worlds, NEW c \in Creatures, NEW s \in Creatures
  PROVE  Keeps(w, RemoveSummon(w, c, s))
<1>1. CASE s \notin w[c].summons
  BY <1>1, KeepsSelf DEF RemoveSummon
<1>2. CASE s \in w[c].summons
  <2> DEFINE x == LetGo(w, s)
             u == UnRef(w, s)
  <2>1. Loosed(w, {s}, x)
    BY LetGoLooses
  <2>2. Keeps(w, [x EXCEPT ![c].summons = w[c].summons \ {s}])
    <3> HIDE DEF x
    <3> QED
      BY <1>2, <2>1, Disbanded
  <2>3. u \in Worlds /\ u[c].summons = w[c].summons
    <3>1. u \in Worlds /\ LessRefs(w, {s}, u)
      BY UnRefIs
    <3>2. w[c] \in Fields /\ u[c] = [w[c] EXCEPT !.refs = w[c].refs - Flag(c \in {s})]
      BY <3>1 DEF LessRefs, Worlds
    <3> QED
      BY <3>1, <3>2 DEF Fields
  <2>4. RemoveSummon(w, c, s) = [x EXCEPT ![c].summons = w[c].summons \ {s}]
    <3>1. RemoveSummon(w, c, s) = [u EXCEPT ![c].summons = w[c].summons \ {s}, ![s].master = NoCreature]
      BY <1>2, <2>3 DEF RemoveSummon
    <3>2. x = [u EXCEPT ![s].master = NoCreature]
      BY DEF LetGo
    <3> HIDE DEF u, x
    <3>3. [u EXCEPT ![c].summons = w[c].summons \ {s}, ![s].master = NoCreature]
            = [u EXCEPT ![s].master = NoCreature, ![c].summons = w[c].summons \ {s}]
      <4>1. u[c] \in Fields
        BY <2>3 DEF Worlds
      <4>2. \A T : [u[c] EXCEPT !.summons = T, !.master = NoCreature]
                     = [u[c] EXCEPT !.master = NoCreature, !.summons = T]
        BY <4>1 DEF Fields
      <4> QED
        BY <2>3, <4>2 DEF Worlds
    <3> QED
      BY <3>1, <3>2, <3>3
  <2> QED
    BY <2>2, <2>4
<1> QED
  BY <1>1, <1>2

(* Monster::changeHealth takes the life of one and leaves the accounts. *)
LEMMA KillDoes ==
  ASSUME NEW w \in Worlds, NEW c \in Creatures
  PROVE  LET v == Kill(w, c)
         IN  /\ v \in Worlds
             /\ \A k \in Creatures :
                  /\ v[k].at = w[k].at /\ v[k].removed = w[k].removed /\ v[k].summons = w[k].summons
                  /\ v[k].listed = w[k].listed /\ v[k].released = w[k].released
                  /\ v[k].master = w[k].master /\ (v[k].alive # w[k].alive => k = c)
             /\ InVector(w) => InVector(v) /\ \A k \in Creatures : Lent(v, k) = Lent(w, k)
<1> DEFINE u == IF c \in MonsterIds THEN SetIdle(w, c, FALSE) ELSE w
           r == [u[c] EXCEPT !.alive = FALSE]
           v == [u EXCEPT ![c] = r]
<1>1. Calm(w, u)
  BY SetIdleCalm, CalmSelf
<1>2. Kill(w, c) = v
  BY DEF Kill
<1> HIDE DEF u
<1>3. u \in Worlds /\ SameFrame(w, u) /\ (InVector(w) => SameLent(w, u))
  BY <1>1 DEF Calm
<1>4. u[c] \in Fields
  BY <1>3 DEF Worlds
<1>5. r \in Fields
  BY <1>4, OneField
<1>6. /\ r.at = u[c].at /\ r.removed = u[c].removed /\ r.summons = u[c].summons
      /\ r.listed = u[c].listed /\ r.released = u[c].released /\ r.master = u[c].master
      /\ r.vec = u[c].vec /\ r.queued = u[c].queued /\ r.refs = u[c].refs
      /\ r.targets = u[c].targets /\ r.friends = u[c].friends
  BY <1>4 DEF Fields
<1> HIDE DEF r
<1>7. v \in Worlds /\ v[c] = r /\ \A k \in Creatures \ {c} : v[k] = u[k]
  BY <1>3, <1>5, Put
<1>8. \A k \in Creatures : Hunters(v, k) = Hunters(u, k) /\ Friends(v, k) = Friends(u, k)
  BY <1>3, <1>5, <1>6, PutHolders
<1> HIDE DEF v
<1>9. \A k \in Creatures : Lent(v, k) = Lent(u, k)
  BY <1>6, <1>7, <1>8 DEF Lent
<1>10. InVector(u) => InVector(v)
  BY <1>6, <1>7 DEF InVector
<1>11. \A k \in Creatures :
                  /\ v[k].at = w[k].at /\ v[k].removed = w[k].removed /\ v[k].summons = w[k].summons
                  /\ v[k].listed = w[k].listed /\ v[k].released = w[k].released
                  /\ v[k].master = w[k].master /\ (v[k].alive # w[k].alive => k = c)
  BY <1>3, <1>6, <1>7 DEF SameFrame
<1> QED
  BY <1>2, <1>3, <1>7, <1>9, <1>10, <1>11 DEF SameLent

(* What DestroySummons does to each summon, and to all. *)
Destroyed(x, s) == LetGo(Kill(SetAttacked(x, s, NoCreature), s), s)
DestroyAll(w, S) ==
  LET destroy(x, s) ==
        [UnRef(Kill(SetAttacked(x, s, NoCreature), s), s) EXCEPT ![s].master = NoCreature]
  IN  ForAll(destroy, w, S)

(* Each summon destroyed is one let go, and so are all. *)
LEMMA DestroyedLoosed ==
  ASSUME NEW w \in Worlds, NEW s \in Creatures
  PROVE  Loosed(w, {s}, Destroyed(w, s))
<1> DEFINE v == SetAttacked(w, s, NoCreature)
           u == Kill(v, s)
           t == LetGo(u, s)
<1>1. v \in Worlds /\ SameFrame(w, v) /\ (InVector(w) => SameLent(w, v))
  BY SetAttackedCalm DEF Calm
<1>2. /\ u \in Worlds
      /\ \A k \in Creatures :
           /\ u[k].at = v[k].at /\ u[k].removed = v[k].removed /\ u[k].summons = v[k].summons
           /\ u[k].listed = v[k].listed /\ u[k].released = v[k].released
           /\ u[k].master = v[k].master /\ (u[k].alive # v[k].alive => k = s)
      /\ InVector(v) => InVector(u) /\ \A k \in Creatures : Lent(u, k) = Lent(v, k)
  <2> HIDE DEF v
  <2> QED
    BY <1>1, KillDoes
<1>3. Loosed(u, {s}, t)
  <2> HIDE DEF u
  <2> QED
    BY <1>2, LetGoLooses
<1>4. Destroyed(w, s) = t
  BY DEF Destroyed
<1> HIDE DEF v, u, t
<1>5. Loosed(w, {s}, t)
  BY <1>1, <1>2, <1>3 DEF Loosed, SameFrame, SameLent
<1> QED
  BY <1>4, <1>5

LEMMA DestroyAllFold ==
  ASSUME NEW w \in Worlds, NEW S \in SUBSET Creatures,
         NEW G \in SUBSET ((SUBSET S) \X Worlds), <<{}, w>> \in G,
         \A s \in SUBSET S, v \in Worlds :
           s # {} /\ <<s \ {Pick(s)}, v>> \in G => <<s, Destroyed(v, Pick(s))>> \in G
  PROVE  <<S, DestroyAll(w, S)>> \in G
<1> DEFINE nx == [q \in (SUBSET S) \X Worlds |-> Destroyed(q[2], Pick(q[1]))]
           Is(f) == f = [s \in SUBSET S |-> IF s = {} THEN w ELSE Destroyed(f[s \ {Pick(s)}], Pick(s))]
           f == CHOOSE f : Is(f)
<1>0. IsFiniteSet(S)
  BY Counted
<1>1. Stays(S, nx, G)
  BY DEF Stays
<1>2. Is(f)
  <2>1. PICK it : Runs(S, w, nx, it) /\ \A s \in SUBSET S : <<s, it[s]>> \in G
    <3> HIDE DEF nx
    <3> QED
      BY <1>0, <1>1, RunExists
  <2>2. \A s \in SUBSET S : it[s] \in Worlds
    BY <2>1
  <2>3. Is(it)
    BY <2>1, <2>2 DEF Runs
  <2> HIDE DEF Is
  <2> QED
    BY <2>3
<1>3. DestroyAll(w, S) = f[S]
  BY DEF DestroyAll, Destroyed, LetGo, ForAll, FoldSet, MapThenFoldSet, Pick
<1>4. \A s \in SUBSET S : s # {} /\ f[s \ {Pick(s)}] \in Worlds => f[s] = nx[<<s, f[s \ {Pick(s)}]>>]
  <2> HIDE DEF f
  <2> QED
    BY <1>2
<1>5. f[{}] = w
  BY <1>2
<1> HIDE DEF f, nx
<1>6. Follows(S, w, Worlds, nx, f)
  BY <1>4, <1>5 DEF Follows
<1> QED
  BY <1>0, <1>1, <1>3, <1>6, RunStays

LEMMA DestroyAllLoosed ==
  ASSUME NEW w \in Worlds, NEW S \in SUBSET Creatures
  PROVE  Loosed(w, S, DestroyAll(w, S))
<1> DEFINE G == {q \in (SUBSET S) \X Worlds : Loosed(w, q[1], q[2])}
<1>1. <<{}, w>> \in G
  BY LoosedNone
<1>2. ASSUME NEW s \in SUBSET S, NEW v \in Worlds, s # {}, <<s \ {Pick(s)}, v>> \in G
      PROVE  <<s, Destroyed(v, Pick(s))>> \in G
  <2>1. Pick(s) \in s /\ Pick(s) \in Creatures
    BY <1>2 DEF Pick
  <2>2. Loosed(v, {Pick(s)}, Destroyed(v, Pick(s)))
    BY <2>1, DestroyedLoosed
  <2>3. s = (s \ {Pick(s)}) \cup {Pick(s)}
    BY <2>1
  <2>4. Loosed(w, s \ {Pick(s)}, v)
    BY <1>2
  <2>5. Loosed(w, (s \ {Pick(s)}) \cup {Pick(s)}, Destroyed(v, Pick(s)))
    BY <2>2, <2>4, LoosedThen
  <2>6. Destroyed(v, Pick(s)) \in Worlds
    BY <2>2 DEF Loosed
  <2> QED
    BY <2>3, <2>5, <2>6
<1>3. G \in SUBSET ((SUBSET S) \X Worlds)
  OBVIOUS
<1>4. <<S, DestroyAll(w, S)>> \in G
  <2> HIDE DEF G
  <2> QED
    BY <1>1, <1>2, <1>3, DestroyAllFold
<1> QED
  BY <1>4

(* Creature::destroySummons accounts for all of them. *)
LEMMA DestroySummonsKeeps ==
  ASSUME NEW w \in Worlds, NEW c \in Creatures
  PROVE  Keeps(w, DestroySummons(w, c))
<1> DEFINE S == w[c].summons
           x == DestroyAll(w, S)
<1>1. S \in SUBSET Creatures
  BY FieldsTyped
<1>2. Loosed(w, S, x)
  <2> HIDE DEF S
  <2> QED
    BY <1>1, DestroyAllLoosed
<1>3. Keeps(w, [x EXCEPT ![c].summons = w[c].summons \ S])
  <2> HIDE DEF x
  <2> QED
    BY <1>2, Disbanded
<1>4. DestroySummons(w, c) = [x EXCEPT ![c].summons = {}]
  BY DEF DestroySummons, DestroyAll
<1>5. w[c].summons \ S = {}
  OBVIOUS
<1> QED
  BY <1>3, <1>4, <1>5

-----------------------------------------------------------------------------
(* Who sees c leave, in any order. *)
SeeAll(w, c, S) == LET see(x, d) == OnDisappear(Forget(x, d, c), d, c) IN ForAll(see, w, S)
SeesLeave(w, d, c) == OnDisappear(Forget(w, d, c), d, c)

(* Whoever sees c leave forgets it; so do all who see it. *)
LEMMA SeesLeaveCalm ==
  ASSUME NEW w \in Worlds, NEW d \in Creatures, NEW c \in Creatures
  PROVE  Calm(w, SeesLeave(w, d, c))
<1>1. Calm(w, Forget(w, d, c)) /\ Forget(w, d, c) \in Worlds
  BY ForgetCalm DEF Calm
<1> QED
  BY <1>1, OnDisappearCalm, CalmThen DEF SeesLeave

LEMMA SeeAllFold ==
  ASSUME NEW w \in Worlds, NEW c \in Creatures, NEW S \in SUBSET Creatures,
         NEW G \in SUBSET ((SUBSET S) \X Worlds), <<{}, w>> \in G,
         \A s \in SUBSET S, v \in Worlds :
           s # {} /\ <<s \ {Pick(s)}, v>> \in G => <<s, SeesLeave(v, Pick(s), c)>> \in G
  PROVE  <<S, SeeAll(w, c, S)>> \in G
<1> DEFINE nx == [q \in (SUBSET S) \X Worlds |-> SeesLeave(q[2], Pick(q[1]), c)]
           Is(f) == f = [s \in SUBSET S |-> IF s = {} THEN w ELSE SeesLeave(f[s \ {Pick(s)}], Pick(s), c)]
           f == CHOOSE f : Is(f)
<1>0. IsFiniteSet(S)
  BY Counted
<1>1. Stays(S, nx, G)
  BY DEF Stays
<1>2. Is(f)
  <2>1. PICK it : Runs(S, w, nx, it) /\ \A s \in SUBSET S : <<s, it[s]>> \in G
    <3> HIDE DEF nx
    <3> QED
      BY <1>0, <1>1, RunExists
  <2>2. \A s \in SUBSET S : it[s] \in Worlds
    BY <2>1
  <2>3. Is(it)
    BY <2>1, <2>2 DEF Runs
  <2> HIDE DEF Is
  <2> QED
    BY <2>3
<1>3. SeeAll(w, c, S) = f[S]
  BY DEF SeeAll, SeesLeave, ForAll, FoldSet, MapThenFoldSet, Pick
<1>4. \A s \in SUBSET S : s # {} /\ f[s \ {Pick(s)}] \in Worlds => f[s] = nx[<<s, f[s \ {Pick(s)}]>>]
  <2> HIDE DEF f
  <2> QED
    BY <1>2
<1>5. f[{}] = w
  BY <1>2
<1> HIDE DEF f, nx
<1>6. Follows(S, w, Worlds, nx, f)
  BY <1>4, <1>5 DEF Follows
<1> QED
  BY <1>0, <1>1, <1>3, <1>6, RunStays

LEMMA SeeAllCalm ==
  ASSUME NEW w \in Worlds, NEW c \in Creatures, NEW S \in SUBSET Creatures
  PROVE  Calm(w, SeeAll(w, c, S))
<1> DEFINE G == {q \in (SUBSET S) \X Worlds : Calm(w, q[2])}
<1>1. <<{}, w>> \in G
  BY CalmSelf
<1>2. ASSUME NEW s \in SUBSET S, NEW v \in Worlds, s # {}, <<s \ {Pick(s)}, v>> \in G
      PROVE  <<s, SeesLeave(v, Pick(s), c)>> \in G
  <2>1. Pick(s) \in Creatures
    BY <1>2 DEF Pick
  <2>2. Calm(v, SeesLeave(v, Pick(s), c))
    BY <2>1, SeesLeaveCalm
  <2>3. Calm(w, SeesLeave(v, Pick(s), c))
    BY <1>2, <2>2, CalmThen
  <2>4. SeesLeave(v, Pick(s), c) \in Worlds
    BY <2>2 DEF Calm
  <2> QED
    BY <2>3, <2>4
<1>3. G \in SUBSET ((SUBSET S) \X Worlds)
  OBVIOUS
<1>4. <<S, SeeAll(w, c, S)>> \in G
  <2> HIDE DEF G
  <2> QED
    BY <1>1, <1>2, <1>3, SeeAllFold
<1> QED
  BY <1>4

(* A change of where c is and whether it was released. *)
LEMMA Shelved ==
  ASSUME NEW w \in Worlds, NEW c \in Creatures, NEW r \in Fields,
         r.targets = w[c].targets, r.friends = w[c].friends, r.summons = w[c].summons,
         r.vec = w[c].vec, r.queued = w[c].queued, r.listed = w[c].listed, r.refs = w[c].refs,
         r.at # NoTile, r.master = w[c].master, r.alive = w[c].alive
  PROVE  LET v == [w EXCEPT ![c] = r]
         IN  /\ v \in Worlds /\ (Fit(w) => Fit(v))
             /\ \A k \in Creatures \ {c} : Owed(v, k) = Owed(w, k)
             /\ Owed(v, c) + Flag(Placed(v, c)) + v[c].released
                  = Owed(w, c) + Flag(Placed(w, c)) + w[c].released
<1> DEFINE v == [w EXCEPT ![c] = r]
<1>1. v \in Worlds /\ v[c] = r /\ \A k \in Creatures \ {c} : v[k] = w[k]
  BY Put
<1>2. \A k \in Creatures : /\ Hunters(v, k) = Hunters(w, k) /\ Friends(v, k) = Friends(w, k)
                           /\ Masters(v, k) = Masters(w, k)
  BY PutHolders
<1> HIDE DEF v
<1>3. \A k \in Creatures : Lent(v, k) = Lent(w, k)
  BY <1>1, <1>2 DEF Lent
<1>4. \A k \in Creatures \ {c} : Placed(v, k) = Placed(w, k)
  BY <1>1 DEF Placed
<1>5. \A k \in Creatures \ {c} : Owed(v, k) = Owed(w, k)
  BY <1>1, <1>2, <1>3, <1>4 DEF Owed
<1>6. Owed(v, c) + Flag(Placed(v, c)) + v[c].released
                  = Owed(w, c) + Flag(Placed(w, c)) + w[c].released
  <2>1. \A a \in Int, p \in {0, 1}, n \in Nat, q \in {0, 1}, m \in Nat :
          (a - p - n - q - m) + p + n = a - q - m
    OBVIOUS
  <2>2. /\ Owed(v, c) + Flag(Placed(v, c)) + v[c].released
             = Lent(v, c) - Flag(v[c].listed) - Count(Masters(v, c))
        /\ Owed(w, c) + Flag(Placed(w, c)) + w[c].released
             = Lent(w, c) - Flag(w[c].listed) - Count(Masters(w, c))
    BY <1>1, <2>1, NumbersTyped DEF Owed
  <2> QED
    BY <1>1, <1>2, <1>3, <2>2
<1>7. Fit(w) => Fit(v)
  <2>1. InVector(w) => InVector(v)
    BY <1>1 DEF InVector
  <2>2. \A k \in Creatures : w[k].summons \in SUBSET Creatures
    BY FieldsTyped
  <2>3. Bound(w) => Bound(v)
    BY <1>1, <2>2 DEF Bound
  <2> QED
    BY <2>1, <2>3 DEF Fit
<1> QED
  BY <1>1, <1>5, <1>6, <1>7 DEF v

(* Game::removeCreature: the master gives up the creature, the reference of the
   world becomes one of releaseThings, and the check ends. *)
LEMMA LeaveMasterKeeps ==
  ASSUME NEW w \in Worlds, NEW c \in Creatures
  PROVE  Keeps(w, LeaveMaster(w, c))
<1>1. w[c].master \in Creatures \cup {NoCreature}
  BY FieldsTyped
<1> QED
  BY <1>1, RemoveSummonKeeps, KeepsSelf DEF LeaveMaster

LEMMA RemoveAloneKeeps ==
  ASSUME NEW w \in Worlds, NEW c \in Creatures, Fit(w), w[c].at # NoTile
  PROVE  Keeps(w, RemoveAlone(w, c))
<1>1. CASE w[c].removed
  BY <1>1, KeepsSelf DEF RemoveAlone
<1>2. CASE ~w[c].removed
  <2> DEFINE x == SeeAll(w, c, At(w, w[c].at))
             r == [x[c] EXCEPT !.removed = TRUE]
             v == [x EXCEPT ![c] = r]
             u == LeaveMaster(v, c)
             q == [u[c] EXCEPT !.released = u[c].released + 1]
             t == [u EXCEPT ![c] = q]
  <2>1. RemoveAlone(w, c) = RemoveCheck(t, c)
    BY <1>2 DEF RemoveAlone, SeeAll
  <2>2. At(w, w[c].at) \in SUBSET Creatures
    BY DEF At
  <2>3. Calm(w, x) /\ Keeps(w, x)
    BY <2>2, SeeAllCalm, CalmKeeps
  <2> HIDE DEF x
  <2>4. /\ x \in Worlds /\ Fit(x) /\ x[c].at # NoTile /\ ~x[c].removed
        /\ \A k \in Creatures : /\ Owed(x, k) = Owed(w, k) /\ x[k].at = w[k].at
                                /\ x[k].listed = w[k].listed /\ x[k].summons = w[k].summons
    BY <1>2, <2>3 DEF Calm, SameFrame, Keeps
  <2>5. x[c] \in Fields
    BY <2>4 DEF Worlds
  <2>6. /\ r \in Fields /\ r.removed = TRUE
        /\ r.targets = x[c].targets /\ r.friends = x[c].friends /\ r.summons = x[c].summons
        /\ r.vec = x[c].vec /\ r.queued = x[c].queued /\ r.listed = x[c].listed /\ r.refs = x[c].refs
        /\ r.at = x[c].at /\ r.master = x[c].master /\ r.alive = x[c].alive /\ r.released = x[c].released
    <3>1. r \in Fields
      BY <2>5, OneField
    <3> QED
      BY <2>5, <3>1 DEF Fields
  <2> HIDE DEF r
  <2>7. /\ v \in Worlds /\ (Fit(x) => Fit(v))
        /\ \A k \in Creatures \ {c} : Owed(v, k) = Owed(x, k)
        /\ Owed(v, c) + Flag(Placed(v, c)) + v[c].released
             = Owed(x, c) + Flag(Placed(x, c)) + x[c].released
    BY <2>4, <2>6, Shelved
  <2>8. v \in Worlds /\ v[c] = r /\ \A k \in Creatures \ {c} : v[k] = x[k]
    <3>1. x \in Worlds /\ r \in Fields
      BY <2>4, <2>6
    <3> QED
      BY <3>1, Put
  <2> HIDE DEF v
  <2>9. Owed(v, c) = Owed(x, c) + 1
    <3>1. Flag(Placed(v, c)) = 0 /\ Flag(Placed(x, c)) = 1 /\ v[c].released = x[c].released
      BY <2>4, <2>6, <2>8 DEF Placed, Flag
    <3>2. Owed(v, c) \in Int /\ Owed(x, c) \in Int /\ x[c].released \in Nat
      BY <2>4, <2>7, NumbersTyped
    <3>3. \A a \in Int, b \in Int, n \in Nat : a + 0 + n = b + 1 + n => a = b + 1
      OBVIOUS
    <3>4. Owed(v, c) + 0 + x[c].released = Owed(x, c) + 1 + x[c].released
      BY <2>7, <3>1
    <3> QED
      BY <3>2, <3>3, <3>4
  <2>10. Keeps(v, u)
    BY <2>7, LeaveMasterKeeps
  <2> HIDE DEF u
  <2>11. /\ u \in Worlds /\ Fit(u)
         /\ \A k \in Creatures : /\ Owed(u, k) = Owed(v, k) /\ u[k].at = v[k].at
                                 /\ u[k].listed = v[k].listed /\ u[k].summons \subseteq v[k].summons
    BY <2>4, <2>7, <2>10 DEF Keeps
  <2>12. u[c] \in Fields /\ u[c].released \in Nat /\ u[c].at # NoTile
    BY <2>4, <2>6, <2>8, <2>11, FieldsTyped DEF Worlds
  <2>13. /\ q \in Fields /\ q.released = u[c].released + 1
         /\ q.targets = u[c].targets /\ q.friends = u[c].friends /\ q.summons = u[c].summons
         /\ q.vec = u[c].vec /\ q.queued = u[c].queued /\ q.listed = u[c].listed /\ q.refs = u[c].refs
         /\ q.at = u[c].at /\ q.master = u[c].master /\ q.alive = u[c].alive /\ q.removed = u[c].removed
    <3>1. u[c].released + 1 \in Nat
      BY <2>12
    <3>2. q \in Fields
      BY <2>12, <3>1, OneField
    <3> QED
      BY <2>12, <3>2 DEF Fields
  <2> HIDE DEF q
  <2>14. /\ t \in Worlds /\ (Fit(u) => Fit(t))
         /\ \A k \in Creatures \ {c} : Owed(t, k) = Owed(u, k)
         /\ Owed(t, c) + Flag(Placed(t, c)) + t[c].released
              = Owed(u, c) + Flag(Placed(u, c)) + u[c].released
    BY <2>11, <2>12, <2>13, Shelved
  <2>15. t \in Worlds /\ t[c] = q /\ \A k \in Creatures \ {c} : t[k] = u[k]
    <3>1. u \in Worlds /\ q \in Fields
      BY <2>11, <2>13
    <3> QED
      BY <3>1, Put
  <2> HIDE DEF t
  <2>16. Owed(t, c) = Owed(u, c) - 1
    <3>1. Placed(t, c) = Placed(u, c) /\ t[c].released = u[c].released + 1
      BY <2>13, <2>15 DEF Placed
    <3>2. /\ Owed(t, c) \in Int /\ Owed(u, c) \in Int /\ u[c].released \in Nat
          /\ Flag(Placed(u, c)) \in {0, 1}
      BY <2>11, <2>14, NumbersTyped
    <3>3. \A a \in Int, b \in Int, n \in Nat, p \in {0, 1} : a + p + (n + 1) = b + p + n => a = b - 1
      OBVIOUS
    <3>4. Owed(t, c) + Flag(Placed(u, c)) + (u[c].released + 1)
            = Owed(u, c) + Flag(Placed(u, c)) + u[c].released
      BY <2>14, <3>1
    <3> QED
      BY <3>2, <3>3, <3>4
  <2>17. \A k \in Creatures : Owed(t, k) = Owed(w, k)
    <3>1. Owed(w, c) \in Int
      BY NumbersTyped
    <3> QED
      BY <2>4, <2>7, <2>9, <2>11, <2>14, <2>16, <3>1
  <2>18. \A k \in Creatures : /\ t[k].at = w[k].at /\ t[k].listed = w[k].listed
                              /\ t[k].summons \subseteq w[k].summons
    BY <2>4, <2>6, <2>8, <2>11, <2>13, <2>15
  <2>19. Keeps(w, t)
    BY <2>11, <2>14, <2>17, <2>18 DEF Keeps
  <2>20. Keeps(t, RemoveCheck(t, c))
    BY <2>14, RemoveCheckCalm, CalmKeeps
  <2> QED
    BY <2>1, <2>19, <2>20, KeepsThen
<1> QED
  BY <1>1, <1>2

(* The summons go after it. *)
LEMMA RemoveAllFold ==
  ASSUME NEW w \in Worlds, NEW S \in SUBSET Creatures,
         NEW G \in SUBSET ((SUBSET S) \X Worlds), <<{}, w>> \in G,
         \A s \in SUBSET S, v \in Worlds :
           s # {} /\ <<s \ {Pick(s)}, v>> \in G => <<s, RemoveAlone(v, Pick(s))>> \in G
  PROVE  <<S, ForAll(RemoveAlone, w, S)>> \in G
<1> DEFINE nx == [q \in (SUBSET S) \X Worlds |-> RemoveAlone(q[2], Pick(q[1]))]
           Is(f) == f = [s \in SUBSET S |-> IF s = {} THEN w ELSE RemoveAlone(f[s \ {Pick(s)}], Pick(s))]
           f == CHOOSE f : Is(f)
<1>0. IsFiniteSet(S)
  BY Counted
<1>1. Stays(S, nx, G)
  BY DEF Stays
<1>2. Is(f)
  <2>1. PICK it : Runs(S, w, nx, it) /\ \A s \in SUBSET S : <<s, it[s]>> \in G
    <3> HIDE DEF nx
    <3> QED
      BY <1>0, <1>1, RunExists
  <2>2. \A s \in SUBSET S : it[s] \in Worlds
    BY <2>1
  <2>3. Is(it)
    BY <2>1, <2>2 DEF Runs
  <2> HIDE DEF Is
  <2> QED
    BY <2>3
<1>3. ForAll(RemoveAlone, w, S) = f[S]
  BY DEF ForAll, FoldSet, MapThenFoldSet, Pick
<1>4. \A s \in SUBSET S : s # {} /\ f[s \ {Pick(s)}] \in Worlds => f[s] = nx[<<s, f[s \ {Pick(s)}]>>]
  <2> HIDE DEF f
  <2> QED
    BY <1>2
<1>5. f[{}] = w
  BY <1>2
<1> HIDE DEF f, nx
<1>6. Follows(S, w, Worlds, nx, f)
  BY <1>4, <1>5 DEF Follows
<1> QED
  BY <1>0, <1>1, <1>3, <1>6, RunStays

LEMMA RemoveAllKeeps ==
  ASSUME NEW w \in Worlds, Fit(w), NEW S \in SUBSET Creatures, \A s \in S : w[s].at # NoTile
  PROVE  Keeps(w, ForAll(RemoveAlone, w, S))
<1> DEFINE G == {q \in (SUBSET S) \X Worlds : Keeps(w, q[2])}
<1>1. <<{}, w>> \in G
  BY KeepsSelf
<1>2. ASSUME NEW s \in SUBSET S, NEW v \in Worlds, s # {}, <<s \ {Pick(s)}, v>> \in G
      PROVE  <<s, RemoveAlone(v, Pick(s))>> \in G
  <2>1. Pick(s) \in S /\ Pick(s) \in Creatures
    BY <1>2 DEF Pick
  <2>2. Keeps(w, v)
    BY <1>2
  <2>3. Fit(v) /\ v[Pick(s)].at # NoTile
    BY <2>1, <2>2 DEF Keeps
  <2>4. Keeps(v, RemoveAlone(v, Pick(s)))
    BY <2>1, <2>3, RemoveAloneKeeps
  <2>5. Keeps(w, RemoveAlone(v, Pick(s)))
    BY <2>2, <2>4, KeepsThen
  <2>6. RemoveAlone(v, Pick(s)) \in Worlds
    BY <2>4 DEF Keeps
  <2> QED
    BY <2>5, <2>6
<1>3. G \in SUBSET ((SUBSET S) \X Worlds)
  OBVIOUS
<1>4. <<S, ForAll(RemoveAlone, w, S)>> \in G
  <2> HIDE DEF G
  <2> QED
    BY <1>1, <1>2, <1>3, RemoveAllFold
<1> QED
  BY <1>4

LEMMA RemoveCreatureKeeps ==
  ASSUME NEW w \in Worlds, NEW c \in Creatures, Fit(w), w[c].at # NoTile
  PROVE  Keeps(w, RemoveCreature(w, c))
<1> DEFINE v == RemoveAlone(w, c)
<1>1. Keeps(w, v)
  BY RemoveAloneKeeps
<1>2. RemoveCreature(w, c) = ForAll(RemoveAlone, v, v[c].summons)
  BY DEF RemoveCreature, RemoveSummons
<1> HIDE DEF v
<1>3. v \in Worlds /\ Fit(v)
  BY <1>1 DEF Keeps
<1>4. v[c].summons \in SUBSET Creatures /\ \A s \in v[c].summons : v[s].at # NoTile
  BY <1>3, FieldsTyped DEF Fit, Bound
<1>5. Keeps(v, ForAll(RemoveAlone, v, v[c].summons))
  BY <1>3, <1>4, RemoveAllKeeps
<1> QED
  BY <1>1, <1>2, <1>5, KeepsThen

(* Monster::onDeath gives up summons, lists and target. *)
LEMMA GiveUpKeeps ==
  ASSUME NEW w \in Worlds, NEW c \in Creatures
  PROVE  Keeps(w, GiveUp(w, c))
<1> DEFINE v == DestroySummons(w, c)
           u == ClearLists(v, c)
           t == SetAttacked(u, c, NoCreature)
<1>1. Keeps(w, v) /\ v \in Worlds
  BY DestroySummonsKeeps DEF Keeps
<1>2. Keeps(v, u) /\ u \in Worlds
  <2> HIDE DEF v
  <2> QED
    BY <1>1, ClearListsCalm, CalmKeeps DEF Keeps
<1>3. Keeps(u, t)
  <2> HIDE DEF u
  <2> QED
    BY <1>2, SetAttackedCalm, CalmKeeps
<1>4. GiveUp(w, c) \in {w, t}
  BY DEF GiveUp
<1> HIDE DEF v, u, t
<1> QED
  BY <1>1, <1>2, <1>3, <1>4, KeepsThen, KeepsSelf

(* Creature::onDeath, with the removal it ends in. *)
LEMMA DieKeeps ==
  ASSUME NEW w \in Worlds, NEW c \in Creatures, Fit(w), w[c].at # NoTile
  PROVE  Keeps(w, Die(w, c))
<1> DEFINE v == IF w[c].master # NoCreature THEN RemoveSummon(w, w[c].master, c) ELSE w
           u == GiveUp(v, c)
<1>1. w[c].master \in Creatures \cup {NoCreature}
  BY FieldsTyped
<1>2. Keeps(w, v)
  BY <1>1, RemoveSummonKeeps, KeepsSelf
<1>3. Die(w, c) = RemoveCreature(u, c)
  BY DEF Die
<1> HIDE DEF v
<1>4. v \in Worlds
  BY <1>2 DEF Keeps
<1>5. Keeps(w, u)
  BY <1>2, <1>4, GiveUpKeeps, KeepsThen
<1> HIDE DEF u
<1>6. u \in Worlds /\ Fit(u) /\ u[c].at # NoTile
  BY <1>5 DEF Keeps
<1>7. Keeps(u, RemoveCreature(u, c))
  BY <1>6, RemoveCreatureKeeps
<1> QED
  BY <1>3, <1>5, <1>7, KeepsThen

-----------------------------------------------------------------------------
(* Between two handlers every reference is accounted for. *)
Sound(w) == w \in Worlds /\ Fit(w) /\ \A c \in Creatures : Owed(w, c) = 0

(* Nobody holds c. *)
Unheld(w, c) ==
  /\ ~Placed(w, c) /\ w[c].released = 0 /\ ~w[c].queued /\ ~w[c].listed
  /\ Hunters(w, c) = {} /\ Friends(w, c) = {} /\ Masters(w, c) = {}

(* What accounts for all it does keeps the accounts. *)
LEMMA KeepsSound ==
  ASSUME NEW w, NEW v, Sound(w), Keeps(w, v)
  PROVE  Sound(v)
  BY DEF Sound, Keeps

(* Nothing is counted of none. *)
LEMMA NoneCounted ==
  ASSUME NEW A \in SUBSET Creatures
  PROVE  Count(A) = 0 <=> A = {}
  BY Counted, FS_EmptySet DEF Count

(* Who has no reference is held by nobody: what Delete rests on. *)
LEMMA UnheldIs ==
  ASSUME NEW w, Sound(w), NEW c \in Creatures
  PROVE  w[c].refs = 0 <=> Unheld(w, c)
<1>1. w \in Worlds /\ Owed(w, c) = 0
  BY DEF Sound
<1> DEFINE h == Count(Hunters(w, c))
           f == Count(Friends(w, c))
           m == Count(Masters(w, c))
           p == Flag(Placed(w, c))
           q == Flag(w[c].queued)
           l == Flag(w[c].listed)
           x == w[c].refs
           n == w[c].released
<1>2. /\ x \in Int /\ n \in Nat /\ h \in Nat /\ f \in Nat /\ m \in Nat
      /\ p \in {0, 1} /\ q \in {0, 1} /\ l \in {0, 1}
  BY <1>1, NumbersTyped
<1>3. x - q - h - f - p - n - l - m = 0
  BY <1>1 DEF Owed, Lent
<1>4. /\ Hunters(w, c) \in SUBSET Creatures /\ Friends(w, c) \in SUBSET Creatures
      /\ Masters(w, c) \in SUBSET Creatures
  BY DEF Hunters, Friends, Masters
<1>5. (h = 0 <=> Hunters(w, c) = {}) /\ (f = 0 <=> Friends(w, c) = {}) /\ (m = 0 <=> Masters(w, c) = {})
  BY <1>4, NoneCounted
<1>6. Placed(w, c) \in BOOLEAN /\ w[c].queued \in BOOLEAN /\ w[c].listed \in BOOLEAN
  BY <1>1, FieldsTyped DEF Placed
<1>7. (p = 0 <=> ~Placed(w, c)) /\ (q = 0 <=> ~w[c].queued) /\ (l = 0 <=> ~w[c].listed)
  BY <1>6 DEF Flag
<1> HIDE DEF h, f, m, p, q, l, x, n
<1>8. x = 0 <=> n = 0 /\ h = 0 /\ f = 0 /\ m = 0 /\ p = 0 /\ q = 0 /\ l = 0
  BY <1>2, <1>3
<1> QED
  BY <1>5, <1>7, <1>8 DEF Unheld, x, n

(* The lists of one creature go, those of the others stay. *)
LEMMA ClearListsDoes ==
  ASSUME NEW w \in Worlds, NEW m \in Creatures
  PROVE  LET v == ClearLists(w, m)
         IN  \A c \in Creatures :
               /\ v[c].queued = w[c].queued
               /\ v[c].targets = (IF c = m THEN {} ELSE w[c].targets)
               /\ v[c].friends = (IF c = m THEN {} ELSE w[c].friends)
<1> DEFINE u == ForAll(UnRef, ForAll(UnRef, w, w[m].targets), w[m].friends)
           r == [u[m] EXCEPT !.targets = {}, !.friends = {}]
           v == [u EXCEPT ![m] = r]
<1>1. w[m].targets \in SUBSET Creatures /\ w[m].friends \in SUBSET Creatures
  BY FieldsTyped
<1>2. u \in Worlds /\ Recounted(w, u)
  BY <1>1, LessTwice
<1>3. ClearLists(w, m) = [u EXCEPT ![m].targets = {}, ![m].friends = {}]
  BY DEF ClearLists
<1> HIDE DEF u
<1>4. [u EXCEPT ![m].targets = {}, ![m].friends = {}] = v
  BY <1>2 DEF Worlds
<1>5. u[m] \in Fields
  BY <1>2 DEF Worlds
<1>6. r \in Fields
  <2>1. [u[m] EXCEPT !.targets = {}] \in Fields
    BY <1>5, OneField
  <2> QED
    BY <2>1, OneField
<1>7. r.targets = {} /\ r.friends = {} /\ r.queued = u[m].queued
  BY <1>5 DEF Fields
<1> HIDE DEF r
<1>8. v \in Worlds /\ v[m] = r /\ \A c \in Creatures \ {m} : v[c] = u[c]
  BY <1>2, <1>6, Put
<1> HIDE DEF v
<1>9. ASSUME NEW c \in Creatures
      PROVE  u[c].queued = w[c].queued /\ u[c].targets = w[c].targets /\ u[c].friends = w[c].friends
  <2>1. w[c] \in Fields
    BY DEF Worlds
  <2>2. u[c] = [w[c] EXCEPT !.refs = u[c].refs]
    BY <1>2 DEF Recounted
  <2> QED
    BY <2>1, <2>2 DEF Fields
<1>10. \A c \in Creatures : /\ v[c].queued = w[c].queued
               /\ v[c].targets = (IF c = m THEN {} ELSE w[c].targets)
               /\ v[c].friends = (IF c = m THEN {} ELSE w[c].friends)
  BY <1>7, <1>8, <1>9
<1> QED
  BY <1>3, <1>4, <1>10

(* A creature that goes gives back its summons, and their lists stay. *)
Parted(w, S, v) ==
  /\ Loosed(w, S, v)
  /\ \A c \in Creatures : /\ v[c].queued = w[c].queued
                          /\ v[c].targets = w[c].targets /\ v[c].friends = w[c].friends
Freed(x, s) == LetGo(SetAttacked(x, s, NoCreature), s)
FreeAll(w, S) ==
  LET free(x, s) == [UnRef(SetAttacked(x, s, NoCreature), s) EXCEPT ![s].master = NoCreature]
  IN  ForAll(free, w, S)

(* Each summon of a creature that goes, and all of them. *)
LEMMA FreedParts ==
  ASSUME NEW w \in Worlds, NEW s \in Creatures
  PROVE  Parted(w, {s}, Freed(w, s))
<1> DEFINE v == SetAttacked(w, s, NoCreature)
           t == LetGo(v, s)
<1>1. Aimed(w, v)
  BY SetAttackedAims
<1> HIDE DEF v
<1>2. /\ v \in Worlds /\ SameFrame(w, v)
      /\ \A c \in Creatures : /\ v[c].queued = w[c].queued
                              /\ v[c].targets = w[c].targets /\ v[c].friends = w[c].friends
  BY <1>1, AimedFields
<1>3. InVector(w) => SameLent(w, v)
  BY <1>1, AimedCalm DEF Calm
<1>4. Loosed(v, {s}, t)
  BY <1>2, LetGoLooses
<1>5. \A c \in Creatures : /\ t[c].queued = v[c].queued
                           /\ t[c].targets = v[c].targets /\ t[c].friends = v[c].friends
  BY <1>2, LetGoDoes
<1>6. Freed(w, s) = t
  BY DEF Freed, v
<1> HIDE DEF t
<1>7. Loosed(w, {s}, t)
  BY <1>2, <1>3, <1>4 DEF Loosed, SameFrame, SameLent
<1> QED
  BY <1>2, <1>5, <1>6, <1>7 DEF Parted

LEMMA FreeAllFold ==
  ASSUME NEW w \in Worlds, NEW S \in SUBSET Creatures,
         NEW G \in SUBSET ((SUBSET S) \X Worlds), <<{}, w>> \in G,
         \A s \in SUBSET S, v \in Worlds :
           s # {} /\ <<s \ {Pick(s)}, v>> \in G => <<s, Freed(v, Pick(s))>> \in G
  PROVE  <<S, FreeAll(w, S)>> \in G
<1> DEFINE nx == [q \in (SUBSET S) \X Worlds |-> Freed(q[2], Pick(q[1]))]
           Is(f) == f = [s \in SUBSET S |-> IF s = {} THEN w ELSE Freed(f[s \ {Pick(s)}], Pick(s))]
           f == CHOOSE f : Is(f)
<1>0. IsFiniteSet(S)
  BY Counted
<1>1. Stays(S, nx, G)
  BY DEF Stays
<1>2. Is(f)
  <2>1. PICK it : Runs(S, w, nx, it) /\ \A s \in SUBSET S : <<s, it[s]>> \in G
    <3> HIDE DEF nx
    <3> QED
      BY <1>0, <1>1, RunExists
  <2>2. \A s \in SUBSET S : it[s] \in Worlds
    BY <2>1
  <2>3. Is(it)
    BY <2>1, <2>2 DEF Runs
  <2> HIDE DEF Is
  <2> QED
    BY <2>3
<1>3. FreeAll(w, S) = f[S]
  BY DEF FreeAll, Freed, LetGo, ForAll, FoldSet, MapThenFoldSet, Pick
<1>4. \A s \in SUBSET S : s # {} /\ f[s \ {Pick(s)}] \in Worlds => f[s] = nx[<<s, f[s \ {Pick(s)}]>>]
  <2> HIDE DEF f
  <2> QED
    BY <1>2
<1>5. f[{}] = w
  BY <1>2
<1> HIDE DEF f, nx
<1>6. Follows(S, w, Worlds, nx, f)
  BY <1>4, <1>5 DEF Follows
<1> QED
  BY <1>0, <1>1, <1>3, <1>6, RunStays

LEMMA FreeAllParts ==
  ASSUME NEW w \in Worlds, NEW S \in SUBSET Creatures
  PROVE  Parted(w, S, FreeAll(w, S))
<1> DEFINE G == {q \in (SUBSET S) \X Worlds : Parted(w, q[1], q[2])}
<1>1. <<{}, w>> \in G
  BY LoosedNone DEF Parted
<1>2. ASSUME NEW s \in SUBSET S, NEW v \in Worlds, s # {}, <<s \ {Pick(s)}, v>> \in G
      PROVE  <<s, Freed(v, Pick(s))>> \in G
  <2>1. Pick(s) \in s /\ Pick(s) \in Creatures
    BY <1>2 DEF Pick
  <2>2. Parted(v, {Pick(s)}, Freed(v, Pick(s)))
    BY <2>1, FreedParts
  <2>3. s = (s \ {Pick(s)}) \cup {Pick(s)}
    BY <2>1
  <2>4. Parted(w, s \ {Pick(s)}, v)
    BY <1>2
  <2>5. Loosed(w, (s \ {Pick(s)}) \cup {Pick(s)}, Freed(v, Pick(s)))
    <3>1. Loosed(w, s \ {Pick(s)}, v) /\ Loosed(v, {Pick(s)}, Freed(v, Pick(s)))
      BY <2>2, <2>4 DEF Parted
    <3> QED
      BY <3>1, LoosedThen
  <2>6. Freed(v, Pick(s)) \in Worlds
    BY <2>2 DEF Parted, Loosed
  <2>7. Parted(w, s, Freed(v, Pick(s)))
    <3> DEFINE u == Freed(v, Pick(s))
    <3> HIDE DEF u
    <3>1. \A c \in Creatures : /\ u[c].queued = w[c].queued
                               /\ u[c].targets = w[c].targets /\ u[c].friends = w[c].friends
      BY <2>2, <2>4 DEF Parted, u
    <3>2. Loosed(w, s, u)
      BY <2>3, <2>5 DEF u
    <3>3. Parted(w, s, u)
      BY <3>1, <3>2 DEF Parted
    <3> QED
      BY <3>3 DEF u
  <2> QED
    BY <2>6, <2>7
<1>3. G \in SUBSET ((SUBSET S) \X Worlds)
  OBVIOUS
<1>4. <<S, FreeAll(w, S)>> \in G
  <2> HIDE DEF G
  <2> QED
    BY <1>1, <1>2, <1>3, FreeAllFold
<1> QED
  BY <1>4

LEMMA UnbornTyped == Unborn \in Fields
  BY DEF Unborn, Fields

(* A creature that nobody holds can go. *)
LEMMA BuriedSound ==
  ASSUME NEW w, Sound(w), NEW c \in Creatures, Unheld(w, c),
         w[c].targets = {}, w[c].friends = {}, w[c].summons = {}
  PROVE  LET v == [w EXCEPT ![c] = Unborn]
         IN  Sound(v) /\ \A k \in Creatures : Unheld(w, k) => Unheld(v, k)
<1> DEFINE v == [w EXCEPT ![c] = Unborn]
<1>0. /\ Unborn.targets = {} /\ Unborn.friends = {} /\ Unborn.summons = {} /\ Unborn.at = NoTile
      /\ Unborn.alive = TRUE /\ Unborn.vec = -1 /\ Unborn.queued = FALSE /\ Unborn.listed = FALSE
      /\ Unborn.refs = 0 /\ Unborn.released = 0
  BY DEF Unborn
<1>1. w \in Worlds /\ InVector(w) /\ Bound(w) /\ \A k \in Creatures : Owed(w, k) = 0
  BY DEF Sound, Fit
<1>2. v \in Worlds /\ v[c] = Unborn /\ \A k \in Creatures \ {c} : v[k] = w[k]
  BY <1>1, UnbornTyped, Put
<1>3. \A k \in Creatures : /\ Hunters(v, k) = Hunters(w, k) /\ Friends(v, k) = Friends(w, k)
                           /\ Masters(v, k) = Masters(w, k)
  BY <1>0, <1>1, UnbornTyped, PutHolders
<1> HIDE DEF v
<1>4. ASSUME NEW k \in Creatures \ {c} PROVE Placed(v, k) = Placed(w, k)
  BY <1>2 DEF Placed
<1>5. Placed(v, c) = FALSE /\ Placed(w, c) = FALSE
  BY <1>0, <1>2 DEF Placed, Unheld
<1>6. w[c].refs = 0 /\ w[c].released = 0 /\ w[c].queued = FALSE /\ w[c].listed = FALSE
  <2>1. w[c].queued \in BOOLEAN /\ w[c].listed \in BOOLEAN
    BY <1>1, FieldsTyped
  <2> QED
    BY <2>1, UnheldIs DEF Unheld
<1>7. ASSUME NEW k \in Creatures PROVE Owed(v, k) = 0
  <2>1. CASE k = c
    <3>1. Owed(v, k) = Owed(w, k)
      BY <1>0, <1>2, <1>3, <1>5, <1>6, <2>1 DEF Owed, Lent
    <3> QED
      BY <1>1, <3>1
  <2>2. CASE k # c
    <3>1. Owed(v, k) = Owed(w, k)
      BY <1>2, <1>3, <1>4, <2>2 DEF Owed, Lent
    <3> QED
      BY <1>1, <3>1
  <2> QED
    BY <2>1, <2>2
<1>8. InVector(v)
  BY <1>0, <1>1, <1>2 DEF InVector
<1>9. Bound(v)
  <2>1. ASSUME NEW k \in Creatures, ~v[k].alive PROVE v[k].at # NoTile
    <3>1. k # c
      BY <1>0, <1>2, <2>1
    <3> QED
      BY <1>1, <1>2, <2>1, <3>1 DEF Bound
  <2>2. ASSUME NEW k \in Creatures, NEW t \in v[k].summons
        PROVE  v[t].at # NoTile /\ v[t].master = k
    <3>1. k # c /\ v[k] = w[k] /\ t \in w[k].summons
      BY <1>0, <1>2, <2>2
    <3>2. t \in Creatures
      BY <1>1, <3>1, FieldsTyped
    <3>3. t # c
      BY <3>1 DEF Unheld, Masters
    <3> QED
      BY <1>1, <1>2, <3>1, <3>2, <3>3 DEF Bound
  <2> QED
    BY <2>1, <2>2 DEF Bound
<1>10. ASSUME NEW k \in Creatures, Unheld(w, k) PROVE Unheld(v, k)
  <2>1. CASE k = c
    BY <1>0, <1>2, <1>3, <1>5, <1>10, <2>1 DEF Unheld
  <2>2. CASE k # c
    BY <1>2, <1>3, <1>4, <1>10, <2>2 DEF Unheld
  <2> QED
    BY <2>1, <2>2
<1>11. Sound(v)
  BY <1>2, <1>7, <1>8, <1>9 DEF Sound, Fit
<1> QED
  BY <1>10, <1>11 DEF v

(* ~Creature leaves the accounts and frees nobody who is held. *)
LEMMA DeleteSound ==
  ASSUME NEW w, Sound(w), NEW c \in Creatures, Unheld(w, c)
  PROVE  Sound(Delete(w, c)) /\ \A k \in Creatures : Unheld(w, k) => Unheld(Delete(w, c), k)
<1> DEFINE x == ClearLists(w, c)
           S == w[c].summons
           y == FreeAll(x, S)
           r == [y[c] EXCEPT !.summons = {}]
           z == [y EXCEPT ![c] = r]
<1>1. w \in Worlds /\ S \in SUBSET Creatures
  BY FieldsTyped DEF Sound
<1>2. Delete(w, c) = [y EXCEPT ![c] = Unborn]
  BY DEF Delete, FreeAll
<1>3. Calm(w, x)
  BY <1>1, ClearListsCalm
<1>4. \A k \in Creatures : /\ x[k].queued = w[k].queued
                           /\ x[k].targets = (IF k = c THEN {} ELSE w[k].targets)
                           /\ x[k].friends = (IF k = c THEN {} ELSE w[k].friends)
  BY <1>1, ClearListsDoes
<1> HIDE DEF x
<1>5. Sound(x) /\ x \in Worlds /\ SameFrame(w, x)
  BY <1>1, <1>3, CalmKeeps, KeepsSound DEF Calm
<1>6. x[c].summons = S
  BY <1>5 DEF SameFrame
<1> HIDE DEF S
<1>7. Parted(x, S, y)
  BY <1>1, <1>5, FreeAllParts
<1> HIDE DEF y
<1>8. Loosed(x, S, y) /\ y \in Worlds /\ y[c] \in Fields
  BY <1>7 DEF Parted, Loosed, Worlds
<1>9. Keeps(x, z)
  <2>1. S \in SUBSET x[c].summons /\ x[c].summons \ S = {}
    BY <1>6
  <2>2. Keeps(x, [y EXCEPT ![c].summons = x[c].summons \ S])
    BY <1>5, <1>8, <2>1, Disbanded
  <2> QED
    BY <2>1, <2>2
<1>10. Sound(z)
  BY <1>5, <1>9, KeepsSound
<1>11. r \in Fields
  BY <1>8, OneField
<1>12. /\ r.at = y[c].at /\ r.removed = y[c].removed /\ r.listed = y[c].listed
       /\ r.released = y[c].released /\ r.queued = y[c].queued
       /\ r.targets = y[c].targets /\ r.friends = y[c].friends /\ r.summons = {}
  BY <1>8 DEF Fields
<1> HIDE DEF r
<1>13. z \in Worlds /\ z[c] = r /\ \A k \in Creatures \ {c} : z[k] = y[k]
  BY <1>8, <1>11, Put
<1>14. [y EXCEPT ![c] = Unborn] = [z EXCEPT ![c] = Unborn]
  BY <1>8 DEF Worlds
<1> HIDE DEF z
<1>15. \A k \in Creatures :
         /\ y[k].at = w[k].at /\ y[k].removed = w[k].removed /\ y[k].listed = w[k].listed
         /\ y[k].released = w[k].released /\ y[k].queued = w[k].queued
         /\ y[k].targets = (IF k = c THEN {} ELSE w[k].targets)
         /\ y[k].friends = (IF k = c THEN {} ELSE w[k].friends)
         /\ y[k].summons = w[k].summons
  BY <1>4, <1>5, <1>7 DEF Parted, Loosed, SameFrame
<1>16. \A k \in Creatures :
         /\ z[k].at = w[k].at /\ z[k].removed = w[k].removed /\ z[k].listed = w[k].listed
         /\ z[k].released = w[k].released /\ z[k].queued = w[k].queued
         /\ z[k].targets \subseteq w[k].targets /\ z[k].friends \subseteq w[k].friends
         /\ z[k].summons \subseteq w[k].summons
  BY <1>12, <1>13, <1>15
<1>17. z[c].targets = {} /\ z[c].friends = {} /\ z[c].summons = {}
  BY <1>12, <1>13, <1>15
<1>18. \A k \in Creatures : Unheld(w, k) => Unheld(z, k)
  BY <1>16 DEF Unheld, Placed, Hunters, Friends, Masters
<1>19. /\ Sound([z EXCEPT ![c] = Unborn])
       /\ \A k \in Creatures : Unheld(z, k) => Unheld([z EXCEPT ![c] = Unborn], k)
  BY <1>10, <1>17, <1>18, BuriedSound
<1> QED
  BY <1>2, <1>14, <1>18, <1>19

(* So do the deletions of a round, *)
LEMMA DeleteAllFold ==
  ASSUME NEW w \in Worlds, NEW S \in SUBSET Creatures,
         NEW G \in SUBSET ((SUBSET S) \X Worlds), <<{}, w>> \in G,
         \A s \in SUBSET S, v \in Worlds :
           s # {} /\ <<s \ {Pick(s)}, v>> \in G => <<s, Delete(v, Pick(s))>> \in G
  PROVE  <<S, ForAll(Delete, w, S)>> \in G
<1> DEFINE nx == [q \in (SUBSET S) \X Worlds |-> Delete(q[2], Pick(q[1]))]
           Is(f) == f = [s \in SUBSET S |-> IF s = {} THEN w ELSE Delete(f[s \ {Pick(s)}], Pick(s))]
           f == CHOOSE f : Is(f)
<1>0. IsFiniteSet(S)
  BY Counted
<1>1. Stays(S, nx, G)
  BY DEF Stays
<1>2. Is(f)
  <2>1. PICK it : Runs(S, w, nx, it) /\ \A s \in SUBSET S : <<s, it[s]>> \in G
    <3> HIDE DEF nx
    <3> QED
      BY <1>0, <1>1, RunExists
  <2>2. \A s \in SUBSET S : it[s] \in Worlds
    BY <2>1
  <2>3. Is(it)
    BY <2>1, <2>2 DEF Runs
  <2> HIDE DEF Is
  <2> QED
    BY <2>3
<1>3. ForAll(Delete, w, S) = f[S]
  BY DEF ForAll, FoldSet, MapThenFoldSet, Pick
<1>4. \A s \in SUBSET S : s # {} /\ f[s \ {Pick(s)}] \in Worlds => f[s] = nx[<<s, f[s \ {Pick(s)}]>>]
  <2> HIDE DEF f
  <2> QED
    BY <1>2
<1>5. f[{}] = w
  BY <1>2
<1> HIDE DEF f, nx
<1>6. Follows(S, w, Worlds, nx, f)
  BY <1>4, <1>5 DEF Follows
<1> QED
  BY <1>0, <1>1, <1>3, <1>6, RunStays

LEMMA DeleteAllSound ==
  ASSUME NEW w \in Worlds, Sound(w), NEW S \in SUBSET Creatures, \A c \in S : Unheld(w, c)
  PROVE  Sound(ForAll(Delete, w, S))
<1> DEFINE G == {q \in (SUBSET S) \X Worlds : Sound(q[2]) /\ \A c \in S : Unheld(q[2], c)}
<1>1. <<{}, w>> \in G
  OBVIOUS
<1>2. ASSUME NEW s \in SUBSET S, NEW v \in Worlds, s # {}, <<s \ {Pick(s)}, v>> \in G
      PROVE  <<s, Delete(v, Pick(s))>> \in G
  <2>1. Pick(s) \in S /\ Pick(s) \in Creatures
    BY <1>2 DEF Pick
  <2>2. Sound(v) /\ \A c \in S : Unheld(v, c)
    BY <1>2
  <2>3. /\ Sound(Delete(v, Pick(s)))
        /\ \A k \in Creatures : Unheld(v, k) => Unheld(Delete(v, Pick(s)), k)
    BY <2>1, <2>2, DeleteSound
  <2>4. Delete(v, Pick(s)) \in Worlds
    BY <2>3 DEF Sound
  <2>5. \A c \in S : Unheld(Delete(v, Pick(s)), c)
    BY <2>2, <2>3
  <2> QED
    BY <2>3, <2>4, <2>5
<1>3. G \in SUBSET ((SUBSET S) \X Worlds)
  OBVIOUS
<1>4. <<S, ForAll(Delete, w, S)>> \in G
  <2> HIDE DEF G
  <2> QED
    BY <1>1, <1>2, <1>3, DeleteAllFold
<1> QED
  BY <1>4

(* A round of Settle, and its rounds. *)
Dead(x) == {c \in Creatures : x[c] # Unborn /\ x[c].refs = 0}
Sweep(x) == ForAll(Delete, x, Dead(x))
Rounds(w, S) == LET dead(x) == {c \in Creatures : x[c] # Unborn /\ x[c].refs = 0}
                    sweep(c, x) == ForAll(Delete, x, dead(x))
                IN  FoldSet(sweep, w, S)

(* one round, *)
LEMMA SweepSound ==
  ASSUME NEW w, Sound(w)
  PROVE  Sound(Sweep(w))
<1> DEFINE S == Dead(w)
<1>1. w \in Worlds /\ S \in SUBSET Creatures /\ \A c \in S : c \in Creatures /\ w[c].refs = 0
  BY DEF Sound, Dead
<1>2. Sweep(w) = ForAll(Delete, w, S)
  BY DEF Sweep
<1> HIDE DEF S
<1>3. \A c \in S : Unheld(w, c)
  BY <1>1, UnheldIs
<1>4. Sound(ForAll(Delete, w, S))
  BY <1>1, <1>3, DeleteAllSound
<1> QED
  BY <1>2, <1>4

LEMMA RoundsFold ==
  ASSUME NEW w \in Worlds, NEW S \in SUBSET Creatures,
         NEW G \in SUBSET ((SUBSET S) \X Worlds), <<{}, w>> \in G,
         \A s \in SUBSET S, v \in Worlds :
           s # {} /\ <<s \ {Pick(s)}, v>> \in G => <<s, Sweep(v)>> \in G
  PROVE  <<S, Rounds(w, S)>> \in G
<1> DEFINE nx == [q \in (SUBSET S) \X Worlds |-> Sweep(q[2])]
           Is(f) == f = [s \in SUBSET S |-> IF s = {} THEN w ELSE Sweep(f[s \ {Pick(s)}])]
           f == CHOOSE f : Is(f)
<1>0. IsFiniteSet(S)
  BY Counted
<1>1. Stays(S, nx, G)
  BY DEF Stays
<1>2. Is(f)
  <2>1. PICK it : Runs(S, w, nx, it) /\ \A s \in SUBSET S : <<s, it[s]>> \in G
    <3> HIDE DEF nx
    <3> QED
      BY <1>0, <1>1, RunExists
  <2>2. \A s \in SUBSET S : it[s] \in Worlds
    BY <2>1
  <2>3. Is(it)
    BY <2>1, <2>2 DEF Runs
  <2> HIDE DEF Is
  <2> QED
    BY <2>3
<1>3. Rounds(w, S) = f[S]
  BY DEF Rounds, Sweep, Dead, ForAll, FoldSet, MapThenFoldSet, Pick
<1>4. \A s \in SUBSET S : s # {} /\ f[s \ {Pick(s)}] \in Worlds => f[s] = nx[<<s, f[s \ {Pick(s)}]>>]
  <2> HIDE DEF f
  <2> QED
    BY <1>2
<1>5. f[{}] = w
  BY <1>2
<1> HIDE DEF f, nx
<1>6. Follows(S, w, Worlds, nx, f)
  BY <1>4, <1>5 DEF Follows
<1> QED
  BY <1>0, <1>1, <1>3, <1>6, RunStays

(* and all the rounds. *)
LEMMA SettleSound ==
  ASSUME NEW w, Sound(w)
  PROVE  Sound(Settle(w))
<1> DEFINE G == {q \in (SUBSET Creatures) \X Worlds : Sound(q[2])}
<1>0. w \in Worlds /\ Settle(w) = Rounds(w, Creatures)
  BY DEF Sound, Settle, Rounds
<1>1. <<{}, w>> \in G
  BY <1>0
<1>2. ASSUME NEW s \in SUBSET Creatures, NEW v \in Worlds, s # {}, <<s \ {Pick(s)}, v>> \in G
      PROVE  <<s, Sweep(v)>> \in G
  <2>1. Sound(Sweep(v))
    BY <1>2, SweepSound
  <2>2. Sweep(v) \in Worlds
    BY <2>1 DEF Sound
  <2> QED
    BY <2>1, <2>2
<1>3. G \in SUBSET ((SUBSET Creatures) \X Worlds) /\ Creatures \in SUBSET Creatures
  OBVIOUS
<1>4. <<Creatures, Rounds(w, Creatures)>> \in G
  <2> HIDE DEF G
  <2> QED
    BY <1>0, <1>1, <1>2, <1>3, RoundsFold
<1> QED
  BY <1>0, <1>4

-----------------------------------------------------------------------------
(* The references of c change by n and nothing else that counts does. *)
LEMMA Charged ==
  ASSUME NEW w \in Worlds, NEW v \in Worlds, NEW c \in Creatures, NEW n \in Int,
         v[c].refs = w[c].refs + n, v[c].queued = w[c].queued,
         Hunters(v, c) = Hunters(w, c), Friends(v, c) = Friends(w, c)
  PROVE  Lent(v, c) = Lent(w, c) + n
<1> DEFINE h == Count(Hunters(w, c))
           f == Count(Friends(w, c))
           q == Flag(w[c].queued)
           x == w[c].refs
<1>1. x \in Int /\ h \in Nat /\ f \in Nat /\ q \in {0, 1}
  BY NumbersTyped
<1>2. Lent(v, c) = (x + n) - q - h - f /\ Lent(w, c) = x - q - h - f
  BY DEF Lent
<1> HIDE DEF h, f, q, x
<1>3. (x + n) - q - h - f = (x - q - h - f) + n
  BY <1>1
<1> QED
  BY <1>2, <1>3

(* A creature comes to a place; the world holds it. *)
Arrived(w, c, p) == [AddRef(w, c) EXCEPT ![c].at = p]

(* The creature has a reference more and is at p; nothing else changes. *)
LEMMA ArrivedDoes ==
  ASSUME NEW w \in Worlds, NEW c \in Creatures, NEW p \in Tiles
  PROVE  LET v == Arrived(w, c, p)
         IN  /\ v \in Worlds
             /\ \A k \in Creatures \ {c} : v[k] = w[k]
             /\ v[c].refs = w[c].refs + 1 /\ v[c].at = p
             /\ v[c].removed = w[c].removed /\ v[c].alive = w[c].alive /\ v[c].master = w[c].master
             /\ v[c].summons = w[c].summons /\ v[c].targets = w[c].targets
             /\ v[c].friends = w[c].friends /\ v[c].vec = w[c].vec /\ v[c].queued = w[c].queued
             /\ v[c].listed = w[c].listed /\ v[c].released = w[c].released
<1> DEFINE r == [w[c] EXCEPT !.refs = w[c].refs + 1, !.at = p]
           v == [w EXCEPT ![c] = r]
<1>1. w[c] \in Fields /\ w[c].refs + 1 \in Int
  BY DEF Worlds, Fields
<1>2. r \in Fields
  BY <1>1 DEF Fields
<1>3. Arrived(w, c, p) = v
  BY DEF Arrived, AddRef, Worlds
<1>4. /\ r.refs = w[c].refs + 1 /\ r.at = p
      /\ r.removed = w[c].removed /\ r.alive = w[c].alive /\ r.master = w[c].master
      /\ r.summons = w[c].summons /\ r.targets = w[c].targets
      /\ r.friends = w[c].friends /\ r.vec = w[c].vec /\ r.queued = w[c].queued
      /\ r.listed = w[c].listed /\ r.released = w[c].released
  BY <1>1 DEF Fields
<1> HIDE DEF r
<1>5. v \in Worlds /\ v[c] = r /\ \A k \in Creatures \ {c} : v[k] = w[k]
  BY <1>2, Put
<1> HIDE DEF v
<1> QED
  BY <1>3, <1>4, <1>5 DEF r

(* The reference is the one the world holds. *)
LEMMA ArrivedSound ==
  ASSUME NEW w, Sound(w), NEW c \in Creatures, NEW p \in Tiles, w[c].at = NoTile, ~w[c].removed
  PROVE  LET v == Arrived(w, c, p)
         IN  Sound(v) /\ \A k \in Creatures : Masters(v, k) = Masters(w, k)
<1> DEFINE v == Arrived(w, c, p)
<1>0. w \in Worlds /\ InVector(w) /\ Bound(w) /\ \A k \in Creatures : Owed(w, k) = 0
  BY DEF Sound, Fit
<1>1. /\ v \in Worlds
      /\ \A k \in Creatures \ {c} : v[k] = w[k]
      /\ v[c].refs = w[c].refs + 1 /\ v[c].at = p
      /\ v[c].removed = w[c].removed /\ v[c].alive = w[c].alive /\ v[c].master = w[c].master
      /\ v[c].summons = w[c].summons /\ v[c].targets = w[c].targets
      /\ v[c].friends = w[c].friends /\ v[c].vec = w[c].vec /\ v[c].queued = w[c].queued
      /\ v[c].listed = w[c].listed /\ v[c].released = w[c].released
  BY <1>0, ArrivedDoes
<1> HIDE DEF v
<1>2. \A k \in Creatures : /\ v[k].targets = w[k].targets /\ v[k].friends = w[k].friends
                           /\ v[k].summons = w[k].summons /\ v[k].alive = w[k].alive
                           /\ v[k].master = w[k].master
                           /\ v[k].vec = w[k].vec /\ v[k].queued = w[k].queued /\ v[k].listed = w[k].listed
                           /\ w[k].at # NoTile => v[k].at # NoTile
  BY <1>1
<1>3. \A k \in Creatures : /\ Hunters(v, k) = Hunters(w, k) /\ Friends(v, k) = Friends(w, k)
                           /\ Masters(v, k) = Masters(w, k)
  BY <1>2 DEF Hunters, Friends, Masters
<1>4. InVector(v)
  BY <1>0, <1>2 DEF InVector
<1>5. Bound(v)
  <2>1. \A k \in Creatures : w[k].summons \in SUBSET Creatures
    BY <1>0, FieldsTyped
  <2> QED
    BY <1>0, <1>2, <2>1 DEF Bound
<1>6. ASSUME NEW k \in Creatures PROVE Owed(v, k) = 0
  <2>1. CASE k # c
    <3>1. Owed(v, k) = Owed(w, k)
      BY <1>1, <1>3, <2>1 DEF Owed, Lent, Placed
    <3> QED
      BY <1>0, <3>1
  <2>2. CASE k = c
    <3>1. p # NoTile
      BY CreatureAssumption
    <3>2. Flag(Placed(v, c)) = 1 /\ Flag(Placed(w, c)) = 0
      BY <1>1, <3>1 DEF Flag, Placed
    <3>3. Lent(v, c) = Lent(w, c) + 1
      BY <1>0, <1>1, <1>3, Charged
    <3> DEFINE a == Lent(w, c)
               n == w[c].released
               l == Flag(w[c].listed)
               m == Count(Masters(w, c))
    <3>4. a \in Int /\ n \in Nat /\ l \in {0, 1} /\ m \in Nat
      BY <1>0, NumbersTyped
    <3>5. Owed(v, c) = (a + 1) - 1 - n - l - m /\ Owed(w, c) = a - 0 - n - l - m
      BY <1>1, <1>3, <3>2, <3>3 DEF Owed
    <3> HIDE DEF a, n, l, m
    <3>6. Owed(v, c) = Owed(w, c)
      BY <3>4, <3>5
    <3> QED
      BY <1>0, <2>2, <3>6
  <2> QED
    BY <2>1, <2>2
<1>7. Sound(v)
  BY <1>1, <1>4, <1>5, <1>6 DEF Sound, Fit
<1> QED
  BY <1>3, <1>7 DEF v

(* A summon has a master and a reference more. *)
LEMMA AddSummonDoes ==
  ASSUME NEW w \in Worlds, NEW c \in Creatures, NEW s \in Creatures, c # s
  PROVE  LET v == AddSummon(w, c, s)
         IN  /\ v \in Worlds
             /\ \A k \in Creatures :
                  /\ v[k].at = w[k].at /\ v[k].removed = w[k].removed /\ v[k].alive = w[k].alive
                  /\ v[k].targets = w[k].targets /\ v[k].friends = w[k].friends
                  /\ v[k].vec = w[k].vec /\ v[k].queued = w[k].queued
                  /\ v[k].listed = w[k].listed /\ v[k].released = w[k].released
                  /\ v[k].master = (IF k = s THEN c ELSE w[k].master)
                  /\ v[k].summons = (IF k = c THEN w[c].summons \cup {s} ELSE w[k].summons)
                  /\ v[k].refs = w[k].refs + Flag(k = s)
<1> DEFINE q == [w[s] EXCEPT !.refs = w[s].refs + 1, !.master = c]
           u == [w EXCEPT ![s] = q]
           r == [w[c] EXCEPT !.summons = w[c].summons \cup {s}]
           v == [u EXCEPT ![c] = r]
<1>1. w[s] \in Fields /\ w[c] \in Fields /\ w[s].refs + 1 \in Int
  BY DEF Worlds, Fields
<1>2. q \in Fields
  BY <1>1 DEF Fields
<1>3. w[c].summons \cup {s} \in SUBSET Creatures
  BY FieldsTyped
<1>4. r \in Fields
  BY <1>1, <1>3, OneField
<1>5. AddSummon(w, c, s) = v
  BY DEF AddSummon, AddRef, Worlds
<1>6. /\ q.at = w[s].at /\ q.removed = w[s].removed /\ q.alive = w[s].alive
      /\ q.targets = w[s].targets /\ q.friends = w[s].friends
      /\ q.vec = w[s].vec /\ q.queued = w[s].queued
      /\ q.listed = w[s].listed /\ q.released = w[s].released
      /\ q.master = c /\ q.summons = w[s].summons /\ q.refs = w[s].refs + 1
  BY <1>1 DEF Fields
<1>7. /\ r.at = w[c].at /\ r.removed = w[c].removed /\ r.alive = w[c].alive
      /\ r.targets = w[c].targets /\ r.friends = w[c].friends
      /\ r.vec = w[c].vec /\ r.queued = w[c].queued
      /\ r.listed = w[c].listed /\ r.released = w[c].released
      /\ r.master = w[c].master /\ r.summons = w[c].summons \cup {s} /\ r.refs = w[c].refs
  BY <1>1 DEF Fields
<1> HIDE DEF q, r
<1>9. u \in Worlds /\ u[s] = q /\ \A k \in Creatures \ {s} : u[k] = w[k]
  BY <1>2, Put
<1> HIDE DEF u
<1>10. v \in Worlds /\ v[c] = r /\ \A k \in Creatures \ {c} : v[k] = u[k]
  BY <1>4, <1>9, Put
<1> HIDE DEF v
<1>11. ASSUME NEW k \in Creatures
       PROVE  /\ v[k].at = w[k].at /\ v[k].removed = w[k].removed /\ v[k].alive = w[k].alive
              /\ v[k].targets = w[k].targets /\ v[k].friends = w[k].friends
              /\ v[k].vec = w[k].vec /\ v[k].queued = w[k].queued
              /\ v[k].listed = w[k].listed /\ v[k].released = w[k].released
              /\ v[k].master = (IF k = s THEN c ELSE w[k].master)
              /\ v[k].summons = (IF k = c THEN w[c].summons \cup {s} ELSE w[k].summons)
              /\ v[k].refs = w[k].refs + Flag(k = s)
  <2>1. w[k].refs + 0 = w[k].refs
    BY FieldsTyped
  <2>2. CASE k = s
    BY <1>6, <1>9, <1>10, <2>2 DEF Flag
  <2>3. CASE k = c
    BY <1>7, <1>10, <2>1, <2>3 DEF Flag
  <2>4. CASE k # s /\ k # c
    BY <1>9, <1>10, <2>1, <2>4 DEF Flag
  <2> QED
    BY <2>2, <2>3, <2>4
<1> QED
  BY <1>5, <1>10, <1>11

(* The reference of a summon is the one its master holds, if it had no master. *)
LEMMA AddSummonSound ==
  ASSUME NEW w, Sound(w), NEW c \in Creatures, NEW s \in Creatures, c # s,
         w[s].at # NoTile, Masters(w, s) = {}
  PROVE  Sound(AddSummon(w, c, s))
<1> DEFINE v == AddSummon(w, c, s)
<1>0. w \in Worlds /\ InVector(w) /\ Bound(w) /\ \A k \in Creatures : Owed(w, k) = 0
  BY DEF Sound, Fit
<1>1. /\ v \in Worlds
      /\ \A k \in Creatures :
           /\ v[k].at = w[k].at /\ v[k].removed = w[k].removed /\ v[k].alive = w[k].alive
           /\ v[k].targets = w[k].targets /\ v[k].friends = w[k].friends
           /\ v[k].vec = w[k].vec /\ v[k].queued = w[k].queued
           /\ v[k].listed = w[k].listed /\ v[k].released = w[k].released
           /\ v[k].master = (IF k = s THEN c ELSE w[k].master)
           /\ v[k].summons = (IF k = c THEN w[c].summons \cup {s} ELSE w[k].summons)
           /\ v[k].refs = w[k].refs + Flag(k = s)
  BY <1>0, AddSummonDoes
<1> HIDE DEF v
<1>2. \A k \in Creatures : Hunters(v, k) = Hunters(w, k) /\ Friends(v, k) = Friends(w, k)
  BY <1>1 DEF Hunters, Friends
<1>3. InVector(v)
  BY <1>0, <1>1 DEF InVector
<1>4. Bound(v)
  <2>1. ASSUME NEW k \in Creatures, ~v[k].alive PROVE v[k].at # NoTile
    BY <1>0, <1>1, <2>1 DEF Bound
  <2>2. ASSUME NEW k \in Creatures, NEW t \in v[k].summons
        PROVE  v[t].at # NoTile /\ v[t].master = k
    <3>1. CASE t = s
      <4>1. k = c
        BY <1>1, <2>2, <3>1 DEF Masters
      <4> QED
        BY <1>1, <3>1, <4>1
    <3>2. CASE t # s
      <4>1. t \in w[k].summons
        BY <1>1, <2>2, <3>2
      <4>2. t \in Creatures
        BY <1>0, <4>1, FieldsTyped
      <4> QED
        BY <1>0, <1>1, <3>2, <4>1, <4>2 DEF Bound
    <3> QED
      BY <3>1, <3>2
  <2> QED
    BY <2>1, <2>2 DEF Bound
<1>5. ASSUME NEW k \in Creatures PROVE Owed(v, k) = 0
  <2>1. Flag(k = s) \in Int
    BY DEF Flag
  <2>2. Lent(v, k) = Lent(w, k) + Flag(k = s)
    BY <1>0, <1>1, <1>2, <2>1, Charged
  <2>3. Count(Masters(v, k)) = Count(Masters(w, k)) + Flag(k = s)
    <3>1. /\ Masters(v, k) \in SUBSET Creatures /\ Masters(w, k) \in SUBSET Creatures
          /\ Masters(v, k) \ {c} = Masters(w, k) \ {c}
      BY <1>1 DEF Masters
    <3>2. Count(Masters(v, k)) - Flag(c \in Masters(v, k)) = Count(Masters(w, k)) - Flag(c \in Masters(w, k))
      BY <3>1, ButOne
    <3>3. Count(Masters(v, k)) \in Nat /\ Count(Masters(w, k)) \in Nat
      BY <3>1, Counted
    <3>4. Flag(c \in Masters(v, k)) - Flag(c \in Masters(w, k)) = Flag(k = s)
      <4>1. CASE k = s
        <5>1. c \in Masters(v, k) /\ c \notin Masters(w, k)
          BY <1>1, <4>1 DEF Masters
        <5> QED
          BY <4>1, <5>1 DEF Flag
      <4>2. CASE k # s
        <5>1. c \in Masters(v, k) <=> c \in Masters(w, k)
          BY <1>1, <4>2 DEF Masters
        <5> QED
          BY <4>2, <5>1 DEF Flag
      <4> QED
        BY <4>1, <4>2
    <3>5. Flag(c \in Masters(v, k)) \in Int /\ Flag(c \in Masters(w, k)) \in Int
      BY DEF Flag
    <3>6. \A a \in Int, b \in Int, i \in Int, j \in Int, f \in Int : a - i = b - j /\ i - j = f => a = b + f
      OBVIOUS
    <3> QED
      BY <2>1, <3>2, <3>3, <3>4, <3>5, <3>6
  <2> DEFINE a == Lent(w, k)
             f == Flag(k = s)
             p == Flag(Placed(w, k))
             n == w[k].released
             l == Flag(w[k].listed)
             m == Count(Masters(w, k))
  <2>4. a \in Int /\ n \in Nat /\ l \in {0, 1} /\ m \in Nat /\ p \in {0, 1}
    BY <1>0, NumbersTyped
  <2>5. Placed(v, k) = Placed(w, k)
    BY <1>1 DEF Placed
  <2>6. Owed(v, k) = (a + f) - p - n - l - (m + f) /\ Owed(w, k) = a - p - n - l - m
    BY <1>1, <2>2, <2>3, <2>5 DEF Owed
  <2>7. f \in Int
    BY <2>1
  <2> HIDE DEF a, f, p, n, l, m
  <2>8. Owed(v, k) = Owed(w, k)
    BY <2>4, <2>6, <2>7
  <2> QED
    BY <1>0, <2>8
<1>6. Sound(v)
  BY <1>1, <1>3, <1>4, <1>5 DEF Sound, Fit
<1> QED
  BY <1>6 DEF v

-----------------------------------------------------------------------------
(* What is calm keeps the accounts. *)
LEMMA CalmSound ==
  ASSUME NEW w, NEW v, Sound(w), Calm(w, v)
  PROVE  Sound(v)
  BY CalmKeeps, KeepsSound DEF Sound

(* Who sees c come, in any order. *)
LooksAt(x, d, c, p) ==
  IF d \in PlayerIds THEN x
  ELSE IF d # c THEN OnEnter(x, d, c)
  ELSE LET y == IF isSummon(x, c) THEN [x EXCEPT ![c].inRange = x[x[c].master].at = p] ELSE x
       IN  UpdateIdle(UpdateTargetList(y, c), c)
LookAll(w, c, p, S) ==
  LET look(x, d) ==
        IF d \in PlayerIds THEN x
        ELSE IF d # c THEN OnEnter(x, d, c)
        ELSE LET y == IF isSummon(x, c)
                      THEN [x EXCEPT ![c].inRange = x[x[c].master].at = p] ELSE x
             IN  UpdateIdle(UpdateTargetList(y, c), c)
  IN  ForAll(look, w, S)

(* A monster that looks around and falls asleep or wakes. *)
LEMMA TurnCalm ==
  ASSUME NEW w \in Worlds, NEW m \in Creatures
  PROVE  Calm(w, UpdateIdle(UpdateTargetList(w, m), m))
<1>1. Calm(w, UpdateTargetList(w, m)) /\ UpdateTargetList(w, m) \in Worlds
  BY UpdateTargetListCalm DEF Calm
<1> QED
  BY <1>1, UpdateIdleCalm, CalmThen

(* Whoever sees a creature come, itself included, and all of them. *)
LEMMA LooksAtCalm ==
  ASSUME NEW w \in Worlds, NEW d \in Creatures, NEW c \in Creatures, NEW p
  PROVE  Calm(w, LooksAt(w, d, c, p))
<1> DEFINE b == w[w[c].master].at = p
           y == IF isSummon(w, c) THEN [w EXCEPT ![c].inRange = b] ELSE w
           t == UpdateIdle(UpdateTargetList(y, c), c)
<1>1. b \in BOOLEAN
  OBVIOUS
<1>2. LooksAt(w, d, c, p) \in {w, OnEnter(w, d, c), t}
  BY DEF LooksAt
<1>3. Calm(w, y) /\ y \in Worlds
  <2> HIDE DEF b
  <2> QED
    BY <1>1, OneFieldCalm, CalmSelf DEF Calm
<1> HIDE DEF y
<1>4. Calm(w, t)
  BY <1>3, TurnCalm, CalmThen
<1> HIDE DEF t
<1> QED
  BY <1>2, <1>4, OnEnterCalm, CalmSelf

LEMMA LookAllFold ==
  ASSUME NEW w \in Worlds, NEW c \in Creatures, NEW p, NEW S \in SUBSET Creatures,
         NEW G \in SUBSET ((SUBSET S) \X Worlds), <<{}, w>> \in G,
         \A s \in SUBSET S, v \in Worlds :
           s # {} /\ <<s \ {Pick(s)}, v>> \in G => <<s, LooksAt(v, Pick(s), c, p)>> \in G
  PROVE  <<S, LookAll(w, c, p, S)>> \in G
<1> DEFINE nx == [q \in (SUBSET S) \X Worlds |-> LooksAt(q[2], Pick(q[1]), c, p)]
           Is(f) == f = [s \in SUBSET S |-> IF s = {} THEN w ELSE LooksAt(f[s \ {Pick(s)}], Pick(s), c, p)]
           f == CHOOSE f : Is(f)
<1>0. IsFiniteSet(S)
  BY Counted
<1>1. Stays(S, nx, G)
  BY DEF Stays
<1>2. Is(f)
  <2>1. PICK it : Runs(S, w, nx, it) /\ \A s \in SUBSET S : <<s, it[s]>> \in G
    <3> HIDE DEF nx
    <3> QED
      BY <1>0, <1>1, RunExists
  <2>2. \A s \in SUBSET S : it[s] \in Worlds
    BY <2>1
  <2>3. Is(it)
    BY <2>1, <2>2 DEF Runs
  <2> HIDE DEF Is
  <2> QED
    BY <2>3
<1>3. LookAll(w, c, p, S) = f[S]
  BY DEF LookAll, LooksAt, ForAll, FoldSet, MapThenFoldSet, Pick
<1>4. \A s \in SUBSET S : s # {} /\ f[s \ {Pick(s)}] \in Worlds => f[s] = nx[<<s, f[s \ {Pick(s)}]>>]
  <2> HIDE DEF f
  <2> QED
    BY <1>2
<1>5. f[{}] = w
  BY <1>2
<1> HIDE DEF f, nx
<1>6. Follows(S, w, Worlds, nx, f)
  BY <1>4, <1>5 DEF Follows
<1> QED
  BY <1>0, <1>1, <1>3, <1>6, RunStays

LEMMA LookAllCalm ==
  ASSUME NEW w \in Worlds, NEW c \in Creatures, NEW p, NEW S \in SUBSET Creatures
  PROVE  Calm(w, LookAll(w, c, p, S))
<1> DEFINE G == {q \in (SUBSET S) \X Worlds : Calm(w, q[2])}
<1>1. <<{}, w>> \in G
  BY CalmSelf
<1>2. ASSUME NEW s \in SUBSET S, NEW v \in Worlds, s # {}, <<s \ {Pick(s)}, v>> \in G
      PROVE  <<s, LooksAt(v, Pick(s), c, p)>> \in G
  <2>1. Pick(s) \in Creatures
    BY <1>2 DEF Pick
  <2>2. Calm(v, LooksAt(v, Pick(s), c, p))
    BY <2>1, LooksAtCalm
  <2>3. Calm(w, LooksAt(v, Pick(s), c, p))
    BY <1>2, <2>2, CalmThen
  <2>4. LooksAt(v, Pick(s), c, p) \in Worlds
    BY <2>2 DEF Calm
  <2> QED
    BY <2>3, <2>4
<1>3. G \in SUBSET ((SUBSET S) \X Worlds)
  OBVIOUS
<1>4. <<S, LookAll(w, c, p, S)>> \in G
  <2> HIDE DEF G
  <2> QED
    BY <1>1, <1>2, <1>3, LookAllFold
<1> QED
  BY <1>4

(* Game::placeCreature, once the world holds the creature. *)
LEMMA PlaceCalm ==
  ASSUME NEW w, NEW c \in Creatures, NEW p, Arrived(w, c, p) \in Worlds
  PROVE  Calm(Arrived(w, c, p), Place(w, c, p))
<1> DEFINE v == Arrived(w, c, p)
           u == LookAll(v, c, p, At(v, p))
<1>1. Place(w, c, p) = AddCheck(u, c)
  BY DEF Place, Arrived, LookAll
<1> HIDE DEF v
<1>2. v \in Worlds /\ At(v, p) \in SUBSET Creatures
  BY DEF At, v
<1>3. Calm(v, u) /\ u \in Worlds
  BY <1>2, LookAllCalm DEF Calm
<1> HIDE DEF u
<1>4. Calm(v, AddCheck(u, c))
  BY <1>3, AddCheckCalm, CalmThen
<1> QED
  BY <1>1, <1>4 DEF v

(* A creature that enters. *)
LEMMA EnterSound ==
  ASSUME NEW w, Sound(w), NEW c \in Creatures, NEW p \in Tiles, w[c] = Unborn
  PROVE  Sound(Place(w, c, p))
<1>1. w[c].at = NoTile /\ ~w[c].removed
  BY DEF Unborn
<1>2. Sound(Arrived(w, c, p))
  BY <1>1, ArrivedSound
<1>3. Arrived(w, c, p) \in Worlds
  BY <1>2 DEF Sound
<1> QED
  BY <1>2, <1>3, PlaceCalm, CalmSound

(* Two states that agree on every creature are one. *)
LEMMA SameWorld ==
  ASSUME NEW w \in Worlds, NEW v \in Worlds, \A k \in Creatures : v[k] = w[k]
  PROVE  v = w
<1> HIDE DEF Fields
<1> QED
  BY DEF Worlds

(* The records of a creature that comes, of a master and of a summon. *)
Come(q, p) == [q EXCEPT !.refs = q.refs + 1, !.at = p]
Joined(q, s) == [q EXCEPT !.summons = q.summons \cup {s}]
Owned(q, c) == [q EXCEPT !.refs = q.refs + 1, !.master = c]

(* AddSummon and Arrived, record by record. *)
LEMMA AddSummonIs ==
  ASSUME NEW w \in Worlds, NEW c \in Creatures, NEW s \in Creatures, c # s
  PROVE  /\ AddSummon(w, c, s) \in Worlds
         /\ AddSummon(w, c, s)[c] = Joined(w[c], s)
         /\ AddSummon(w, c, s)[s] = Owned(w[s], c)
         /\ \A k \in Creatures \ {c, s} : AddSummon(w, c, s)[k] = w[k]
<1> DEFINE v == AddSummon(w, c, s)
<1>1. v \in Worlds
  BY AddSummonDoes
<1>2. v = [[w EXCEPT ![s] = Owned(w[s], c)]
                       EXCEPT ![c] = Joined(w[c], s)]
  BY DEF AddSummon, AddRef, Worlds, Joined, Owned
<1> HIDE DEF v
<1>3. /\ v[c] = Joined(w[c], s)
      /\ v[s] = Owned(w[s], c)
      /\ \A k \in Creatures \ {c, s} : v[k] = w[k]
  <2>1. DOMAIN w = Creatures
    BY DEF Worlds
  <2> QED
    BY <1>2, <2>1
<1> QED
  BY <1>1, <1>3 DEF v

LEMMA ArrivedIs ==
  ASSUME NEW w \in Worlds, NEW c \in Creatures, NEW p \in Tiles
  PROVE  /\ Arrived(w, c, p) \in Worlds
         /\ Arrived(w, c, p)[c] = Come(w[c], p)
         /\ \A k \in Creatures \ {c} : Arrived(w, c, p)[k] = w[k]
<1> DEFINE v == Arrived(w, c, p)
<1>1. v \in Worlds /\ \A k \in Creatures \ {c} : v[k] = w[k]
  BY ArrivedDoes
<1>2. v = [w EXCEPT ![c] = Come(w[c], p)]
  BY DEF Arrived, AddRef, Worlds, Come
<1> HIDE DEF v
<1>3. DOMAIN w = Creatures
  BY DEF Worlds
<1>4. v[c] = Come(w[c], p)
  BY <1>2, <1>3
<1> QED
  BY <1>1, <1>4 DEF v

(* A creature not born yet is nobody's. *)
LEMMA UnbornUnheld ==
  ASSUME NEW w, Sound(w), NEW c \in Creatures, w[c] = Unborn
  PROVE  Unheld(w, c)
  BY UnheldIs DEF Unborn

(* Game::placeSummon: the order of the two references does not matter. *)
LEMMA SummonSound ==
  ASSUME NEW w, Sound(w), NEW c \in Creatures, NEW m \in Creatures, NEW p \in Tiles,
         w[m] = Unborn, c # m
  PROVE  Sound(Place(AddSummon(w, c, m), m, p))
<1> DEFINE v == Arrived(w, m, p)
           u == AddSummon(v, c, m)
<1>1. w \in Worlds /\ Masters(w, m) = {}
  BY UnbornUnheld DEF Sound, Unheld
<1>2. w[m].at = NoTile /\ ~w[m].removed
  BY DEF Unborn
<1>3. Sound(v) /\ Masters(v, m) = {}
  BY <1>1, <1>2, ArrivedSound
<1>4. v[m].at = p /\ p # NoTile
  BY <1>1, ArrivedDoes, CreatureAssumption
<1>5. Sound(u)
  <2> HIDE DEF v
  <2> QED
    BY <1>3, <1>4, AddSummonSound
<1>6. Arrived(AddSummon(w, c, m), m, p) = u
  <2> DEFINE y == AddSummon(w, c, m)
             z == Arrived(y, m, p)
  <2>1. w[m] \in Fields
    BY <1>1 DEF Worlds
  <2>2. /\ v \in Worlds /\ v[m] = Come(w[m], p)
        /\ \A k \in Creatures \ {m} : v[k] = w[k]
    BY <1>1, ArrivedIs
  <2> HIDE DEF v
  <2>3. /\ u \in Worlds /\ u[c] = Joined(v[c], m)
        /\ u[m] = Owned(v[m], c)
        /\ \A k \in Creatures \ {c, m} : u[k] = v[k]
    BY <2>2, AddSummonIs
  <2>4. /\ y \in Worlds /\ y[c] = Joined(w[c], m)
        /\ y[m] = Owned(w[m], c)
        /\ \A k \in Creatures \ {c, m} : y[k] = w[k]
    BY <1>1, AddSummonIs
  <2> HIDE DEF y
  <2>5. /\ z \in Worlds /\ z[m] = Come(y[m], p)
        /\ \A k \in Creatures \ {m} : z[k] = y[k]
    BY <2>4, ArrivedIs
  <2> HIDE DEF u, z
  <2>6. z[m] = u[m]
    <3>1. z[m] = Come(Owned(w[m], c), p) /\ u[m] = Owned(Come(w[m], p), c)
      BY <2>2, <2>3, <2>4, <2>5
    <3>2. \A q \in Fields : Come(Owned(q, c), p) = Owned(Come(q, p), c)
      BY DEF Fields, Come, Owned
    <3> QED
      BY <2>1, <3>1, <3>2
  <2>7. \A k \in Creatures : z[k] = u[k]
    BY <2>2, <2>3, <2>4, <2>5, <2>6
  <2>8. z = u
    BY <2>3, <2>5, <2>7, SameWorld
  <2> QED
    BY <2>8 DEF z, y
<1> HIDE DEF v, u
<1>7. Arrived(AddSummon(w, c, m), m, p) \in Worlds
  BY <1>5, <1>6 DEF Sound
<1>8. Calm(u, Place(AddSummon(w, c, m), m, p))
  BY <1>6, <1>7, PlaceCalm
<1> QED
  BY <1>5, <1>8, CalmSound

(* A summon that finds no room leaves nothing behind. *)
LEMMA SummonFailsIs ==
  ASSUME NEW w, Sound(w), NEW c \in Creatures, NEW m \in Creatures, w[m] = Unborn, c # m
  PROVE  RemoveSummon(AddSummon(w, c, m), c, m) = w
<1> DEFINE v == AddSummon(w, c, m)
           u == UnRef(v, m)
           t == [u[c] EXCEPT !.summons = u[c].summons \ {m}]
           z == [u[m] EXCEPT !.master = NoCreature]
           y == [u EXCEPT ![c] = t]
           x == [y EXCEPT ![m] = z]
<1>1. w \in Worlds /\ Masters(w, m) = {}
  BY UnbornUnheld DEF Sound, Unheld
<1>2. w[m] \in Fields /\ w[c] \in Fields
  BY <1>1 DEF Worlds
<1>3. /\ v \in Worlds /\ v[c] = Joined(w[c], m)
      /\ v[m] = Owned(w[m], c)
      /\ \A k \in Creatures \ {c, m} : v[k] = w[k]
  BY <1>1, AddSummonIs
<1> HIDE DEF v
<1>4. u \in Worlds /\ LessRefs(v, {m}, u)
  BY <1>3, UnRefIs
<1>5. RemoveSummon(v, c, m) = x
  <2>1. m \in v[c].summons
    BY <1>2, <1>3 DEF Fields, Joined
  <2>2. RemoveSummon(v, c, m) = [u EXCEPT ![c].summons = @ \ {m}, ![m].master = NoCreature]
    BY <2>1 DEF RemoveSummon
  <2> HIDE DEF u
  <2> QED
    BY <1>4, <2>2 DEF Worlds
<1> HIDE DEF u
<1>6. \A k \in Creatures : u[k] = [v[k] EXCEPT !.refs = v[k].refs - Flag(k \in {m})]
  BY <1>4 DEF LessRefs
<1>7. ASSUME NEW k \in Creatures, k # m PROVE u[k] = v[k]
  <2>1. v[k] \in Fields /\ v[k].refs - 0 = v[k].refs
    BY <1>3 DEF Worlds, Fields
  <2>2. u[k] = [v[k] EXCEPT !.refs = v[k].refs]
    BY <1>6, <1>7, <2>1 DEF Flag
  <2> QED
    BY <2>1, <2>2 DEF Fields
<1>8. t = w[c]
  <2>1. (w[c].summons \cup {m}) \ {m} = w[c].summons
    BY <1>1 DEF Masters
  <2>2. u[c] = Joined(w[c], m)
    BY <1>3, <1>7
  <2> QED
    BY <1>2, <2>1, <2>2 DEF Fields, Joined
<1>9. z = w[m]
  <2>0. w[m].master = NoCreature /\ w[m].refs = 0
    BY DEF Unborn
  <2>1. u[m].refs = 0 /\ u[m] = [v[m] EXCEPT !.refs = 0]
    <3>1. v[m].refs = 1 /\ v[m] \in Fields
      BY <1>2, <1>3, <2>0 DEF Owned, Fields, Worlds
    <3>2. v[m].refs - Flag(m \in {m}) = 0
      BY <3>1 DEF Flag
    <3>3. u[m] = [v[m] EXCEPT !.refs = 0]
      BY <1>6, <3>2
    <3> QED
      BY <3>1, <3>3 DEF Fields
  <2>2. z = [w[m] EXCEPT !.refs = 0, !.master = NoCreature]
    BY <1>2, <1>3, <2>1 DEF Owned, Fields
  <2> QED
    BY <1>2, <2>0, <2>2 DEF Fields
<1> HIDE DEF t, z
<1>10. y \in Worlds /\ y[c] = t /\ \A k \in Creatures \ {c} : y[k] = u[k]
  BY <1>2, <1>4, <1>8, Put
<1> HIDE DEF y
<1>11. x \in Worlds /\ x[m] = z /\ \A k \in Creatures \ {m} : x[k] = y[k]
  BY <1>2, <1>9, <1>10, Put
<1> HIDE DEF x
<1>12. \A k \in Creatures : x[k] = w[k]
  BY <1>3, <1>7, <1>8, <1>9, <1>10, <1>11
<1>13. x = w
  BY <1>1, <1>11, <1>12, SameWorld
<1> QED
  BY <1>5, <1>13 DEF v

(* A creature that dies in the world leaves the accounts. *)
LEMMA KillKeeps ==
  ASSUME NEW w \in Worlds, NEW c \in Creatures, w[c].at # NoTile
  PROVE  Keeps(w, Kill(w, c))
<1> DEFINE v == Kill(w, c)
<1>1. /\ v \in Worlds
      /\ \A k \in Creatures :
           /\ v[k].at = w[k].at /\ v[k].removed = w[k].removed /\ v[k].summons = w[k].summons
           /\ v[k].listed = w[k].listed /\ v[k].released = w[k].released
           /\ v[k].master = w[k].master /\ (v[k].alive # w[k].alive => k = c)
      /\ InVector(w) => InVector(v) /\ \A k \in Creatures : Lent(v, k) = Lent(w, k)
  BY KillDoes
<1> HIDE DEF v
<1>2. ASSUME Fit(w) PROVE Fit(v)
  <2>1. \A k \in Creatures : w[k].summons \in SUBSET Creatures
    BY FieldsTyped
  <2>2. Bound(v)
    BY <1>1, <1>2, <2>1 DEF Bound, Fit
  <2> QED
    BY <1>1, <1>2, <2>2 DEF Fit
<1>3. ASSUME Fit(w), NEW k \in Creatures PROVE Owed(v, k) = Owed(w, k)
  <2>1. Lent(v, k) = Lent(w, k)
    BY <1>1, <1>3 DEF Fit
  <2>2. Masters(v, k) = Masters(w, k)
    BY <1>1 DEF Masters
  <2>3. Placed(v, k) = Placed(w, k)
    BY <1>1 DEF Placed
  <2> QED
    BY <1>1, <2>1, <2>2, <2>3 DEF Owed
<1>4. Keeps(w, v)
  BY <1>1, <1>2, <1>3 DEF Keeps
<1> QED
  BY <1>4 DEF v

(* Summons too far behind their master are removed. *)
LEMMA LeaveBehindKeeps ==
  ASSUME NEW w \in Worlds, NEW c \in Creatures, Fit(w)
  PROVE  Keeps(w, LeaveBehind(w, c))
<1> DEFINE S == {s \in w[c].summons : w[s].at # w[c].at}
<1>1. S \in SUBSET Creatures /\ \A s \in S : w[s].at # NoTile
  BY FieldsTyped DEF Fit, Bound
<1>2. LeaveBehind(w, c) = ForAll(RemoveAlone, w, S)
  BY DEF LeaveBehind
<1> HIDE DEF S
<1> QED
  BY <1>1, <1>2, RemoveAllKeeps

(* Who sees c go or come, in any order. *)
Steps(x, d, c, far, keen) ==
  IF d # c THEN OnOtherMoves(x, d, c, keen)
  ELSE OnMove(LoseSight(IF far THEN LeaveBehind(x, c) ELSE x, c), c)
StepAll(w, c, far, keen, S) ==
  LET each(x, d) ==
        IF d # c THEN OnOtherMoves(x, d, c, keen)
        ELSE OnMove(LoseSight(IF far THEN LeaveBehind(x, c) ELSE x, c), c)
  IN  ForAll(each, w, S)

(* Tile::moveCreature: each who sees the walk, and all of them. *)
LEMMA StepsSound ==
  ASSUME NEW w, Sound(w), NEW d \in Creatures, NEW c \in Creatures, NEW far \in BOOLEAN, NEW keen
  PROVE  Sound(Steps(w, d, c, far, keen))
<1>0. w \in Worlds /\ Fit(w)
  BY DEF Sound
<1> DEFINE v == IF far THEN LeaveBehind(w, c) ELSE w
           u == LoseSight(v, c)
           t == OnMove(u, c)
<1>1. Steps(w, d, c, far, keen) \in {OnOtherMoves(w, d, c, keen), t}
  BY DEF Steps
<1>2. Sound(v)
  BY <1>0, LeaveBehindKeeps, KeepsSound
<1> HIDE DEF v
<1>3. Sound(u)
  <2>1. v \in Worlds
    BY <1>2 DEF Sound
  <2> QED
    BY <1>2, <2>1, LoseSightCalm, CalmSound
<1> HIDE DEF u
<1>4. Sound(t)
  <2>1. u \in Worlds
    BY <1>3 DEF Sound
  <2> QED
    BY <1>3, <2>1, OnMoveCalm, CalmSound
<1> HIDE DEF t
<1>5. Sound(OnOtherMoves(w, d, c, keen))
  BY <1>0, OnOtherMovesCalm, CalmSound
<1> QED
  BY <1>1, <1>4, <1>5

LEMMA StepAllFold ==
  ASSUME NEW w \in Worlds, NEW c \in Creatures, NEW far \in BOOLEAN, NEW keen, NEW S \in SUBSET Creatures,
         NEW G \in SUBSET ((SUBSET S) \X Worlds), <<{}, w>> \in G,
         \A s \in SUBSET S, v \in Worlds :
           s # {} /\ <<s \ {Pick(s)}, v>> \in G => <<s, Steps(v, Pick(s), c, far, keen)>> \in G
  PROVE  <<S, StepAll(w, c, far, keen, S)>> \in G
<1> DEFINE nx == [q \in (SUBSET S) \X Worlds |-> Steps(q[2], Pick(q[1]), c, far, keen)]
           Is(f) == f = [s \in SUBSET S |-> IF s = {} THEN w ELSE Steps(f[s \ {Pick(s)}], Pick(s), c, far, keen)]
           f == CHOOSE f : Is(f)
<1>0. IsFiniteSet(S)
  BY Counted
<1>1. Stays(S, nx, G)
  BY DEF Stays
<1>2. Is(f)
  <2>1. PICK it : Runs(S, w, nx, it) /\ \A s \in SUBSET S : <<s, it[s]>> \in G
    <3> HIDE DEF nx
    <3> QED
      BY <1>0, <1>1, RunExists
  <2>2. \A s \in SUBSET S : it[s] \in Worlds
    BY <2>1
  <2>3. Is(it)
    BY <2>1, <2>2 DEF Runs
  <2> HIDE DEF Is
  <2> QED
    BY <2>3
<1>3. StepAll(w, c, far, keen, S) = f[S]
  BY DEF StepAll, Steps, ForAll, FoldSet, MapThenFoldSet, Pick
<1>4. \A s \in SUBSET S : s # {} /\ f[s \ {Pick(s)}] \in Worlds => f[s] = nx[<<s, f[s \ {Pick(s)}]>>]
  <2> HIDE DEF f
  <2> QED
    BY <1>2
<1>5. f[{}] = w
  BY <1>2
<1> HIDE DEF f, nx
<1>6. Follows(S, w, Worlds, nx, f)
  BY <1>4, <1>5 DEF Follows
<1> QED
  BY <1>0, <1>1, <1>3, <1>6, RunStays

LEMMA StepAllSound ==
  ASSUME NEW w, Sound(w), NEW c \in Creatures, NEW far \in BOOLEAN, NEW keen, NEW S \in SUBSET Creatures
  PROVE  Sound(StepAll(w, c, far, keen, S))
<1> DEFINE G == {q \in (SUBSET S) \X Worlds : Sound(q[2])}
<1>0. w \in Worlds
  BY DEF Sound
<1>1. <<{}, w>> \in G
  BY <1>0
<1>2. ASSUME NEW s \in SUBSET S, NEW v \in Worlds, s # {}, <<s \ {Pick(s)}, v>> \in G
      PROVE  <<s, Steps(v, Pick(s), c, far, keen)>> \in G
  <2>1. Pick(s) \in Creatures
    BY <1>2 DEF Pick
  <2>2. Sound(Steps(v, Pick(s), c, far, keen))
    BY <1>2, <2>1, StepsSound
  <2>3. Steps(v, Pick(s), c, far, keen) \in Worlds
    BY <2>2 DEF Sound
  <2> QED
    BY <2>2, <2>3
<1>3. G \in SUBSET ((SUBSET S) \X Worlds)
  OBVIOUS
<1>4. <<S, StepAll(w, c, far, keen, S)>> \in G
  <2> HIDE DEF G
  <2> QED
    BY <1>0, <1>1, <1>2, <1>3, StepAllFold
<1> QED
  BY <1>4

(* A creature of the world stays one wherever it walks. *)
LEMMA MovedSound ==
  ASSUME NEW w, Sound(w), NEW c \in Creatures, Placed(w, c), NEW p \in Tiles
  PROVE  Sound([w EXCEPT ![c].at = p])
<1> DEFINE r == [w[c] EXCEPT !.at = p]
           v == [w EXCEPT ![c] = r]
<1>0. w \in Worlds /\ Fit(w) /\ \A k \in Creatures : Owed(w, k) = 0
  BY DEF Sound
<1>1. w[c] \in Fields /\ p # NoTile
  BY <1>0, CreatureAssumption DEF Worlds
<1>2. [w EXCEPT ![c].at = p] = v
  OBVIOUS
<1>3. /\ r \in Fields /\ r.targets = w[c].targets /\ r.friends = w[c].friends
      /\ r.summons = w[c].summons /\ r.vec = w[c].vec /\ r.queued = w[c].queued
      /\ r.listed = w[c].listed /\ r.refs = w[c].refs
      /\ r.at # NoTile /\ r.master = w[c].master /\ r.alive = w[c].alive
      /\ r.removed = w[c].removed /\ r.released = w[c].released
  BY <1>1 DEF Fields
<1> HIDE DEF r
<1>4. /\ v \in Worlds /\ Fit(v)
      /\ \A k \in Creatures \ {c} : Owed(v, k) = Owed(w, k)
      /\ Owed(v, c) + Flag(Placed(v, c)) + v[c].released
           = Owed(w, c) + Flag(Placed(w, c)) + w[c].released
  BY <1>0, <1>3, Shelved
<1>5. v[c] = r
  <2>1. v \in Worlds /\ v[c] = r
    BY <1>0, <1>3, Put
  <2> QED
    BY <2>1
<1> HIDE DEF v
<1>6. Owed(v, c) = 0
  <2>1. Flag(Placed(v, c)) = 1 /\ Flag(Placed(w, c)) = 1 /\ v[c].released = w[c].released
    BY <1>3, <1>5 DEF Placed, Flag
  <2>2. Owed(v, c) \in Int /\ Owed(w, c) = 0 /\ w[c].released \in Nat
    BY <1>0, <1>4, NumbersTyped
  <2>3. \A a \in Int, n \in Nat : a + 1 + n = 0 + 1 + n => a = 0
    OBVIOUS
  <2>4. Owed(v, c) + 1 + w[c].released = 0 + 1 + w[c].released
    BY <1>4, <2>1, <2>2
  <2> QED
    BY <2>2, <2>3, <2>4
<1>7. Sound(v)
  BY <1>0, <1>4, <1>6 DEF Sound
<1> QED
  BY <1>2, <1>7

(* Monster::convinceCreature: who is convinced leaves one master, and its own
   summons leave it, before another holds it. *)
LEMMA ConvinceSound ==
  ASSUME NEW w, Sound(w), NEW c \in Creatures, NEW m \in Creatures, c # m, Placed(w, m)
  PROVE  LET freed == IF isSummon(w, m) THEN RemoveSummon(w, w[m].master, m) ELSE w
         IN  Sound(AddSummon(DestroySummons(SetAttacked(freed, m, NoCreature), m), c, m))
<1> DEFINE freed == IF isSummon(w, m) THEN RemoveSummon(w, w[m].master, m) ELSE w
           v == SetAttacked(freed, m, NoCreature)
           u == DestroySummons(v, m)
<1>0. w \in Worlds /\ w[m].master \in Creatures \cup {NoCreature} /\ Fit(w) /\ w[m].at # NoTile
  BY FieldsTyped DEF Sound, Placed
<1>1. Keeps(w, freed)
  BY <1>0, RemoveSummonKeeps, KeepsSelf DEF isSummon
<1>2. Sound(freed) /\ freed \in Worlds /\ Fit(freed)
  BY <1>1, KeepsSound DEF Sound
<1>3. \A k \in Creatures : m \notin freed[k].summons
  <2>1. CASE ~isSummon(w, m)
    <3>1. freed = w
      BY <2>1
    <3>2. \A k \in Creatures : m \in w[k].summons => w[m].master = k
      BY <1>0 DEF Fit, Bound
    <3> HIDE DEF freed
    <3> QED
      BY <2>1, <3>1, <3>2, CreatureAssumption DEF isSummon, Creatures
  <2>2. CASE isSummon(w, m) /\ m \in w[w[m].master].summons
    <3>1. freed = [UnRef(w, m) EXCEPT ![w[m].master].summons = @ \ {m}, ![m].master = NoCreature]
      BY <2>2 DEF RemoveSummon
    <3>2. UnRef(w, m) \in Worlds /\ NoCreature \notin Creatures
      BY <1>0, UnRefIs, CreatureAssumption DEF Creatures
    <3>3. freed[m].master = NoCreature
      <4> DEFINE y == UnRef(w, m)
                 z == [y EXCEPT ![w[m].master].summons = @ \ {m}]
      <4>1. freed = [z EXCEPT ![m].master = NoCreature]
        BY <3>1
      <4>2. DOMAIN y = Creatures /\ w[m].master \in Creatures
        BY <1>0, <2>2, <3>2 DEF Worlds, isSummon
      <4>3. y[m] \in Fields /\ y[w[m].master] \in Fields
        BY <3>2, <4>2 DEF Worlds
      <4> HIDE DEF y
      <4>4. DOMAIN z = Creatures /\ "master" \in DOMAIN z[m]
        BY <4>2, <4>3 DEF Fields
      <4> HIDE DEF z, freed
      <4> QED
        BY <4>1, <4>4
    <3> HIDE DEF freed
    <3> QED
      BY <1>2, <3>2, <3>3 DEF Fit, Bound
  <2>3. CASE isSummon(w, m) /\ m \notin w[w[m].master].summons
    <3>1. freed = w
      BY <2>3 DEF RemoveSummon
    <3>2. \A k \in Creatures : m \in w[k].summons => w[m].master = k
      BY <1>0 DEF Fit, Bound
    <3> HIDE DEF freed
    <3> QED
      BY <2>3, <3>1, <3>2
  <2> QED
    BY <2>1, <2>2, <2>3
<1>4. freed[m].at = w[m].at
  BY <1>0, <1>1 DEF Keeps
<1> HIDE DEF freed
<1>5. Keeps(freed, v) /\ v \in Worlds /\ Fit(v)
  BY <1>2, SetAttackedCalm, CalmKeeps DEF Keeps
<1> HIDE DEF v
<1>6. Keeps(v, u)
  BY <1>5, DestroySummonsKeeps
<1> HIDE DEF u
<1>7. Sound(u)
  BY <1>2, <1>5, <1>6, KeepsSound
<1>8. u[m].at # NoTile /\ \A k \in Creatures : m \notin u[k].summons
  BY <1>0, <1>2, <1>3, <1>4, <1>5, <1>6 DEF Keeps
<1>9. Masters(u, m) = {}
  BY <1>8 DEF Masters
<1>10. Sound(AddSummon(u, c, m))
  BY <1>7, <1>8, <1>9, AddSummonSound
<1> QED
  BY <1>10 DEF u, v, freed

(* Those who see a monster convinced. *)
Turns(x, d, c, m) ==
  IF d \in PlayerIds \/ d = c \/ ~(isFriend(x, d, m) \/ isOpponent(x, d, m)) THEN x
  ELSE UpdateIdle(UpdateTargetList(x, d), d)
TurnAll(w, c, m, S) ==
  LET look(x, d) ==
        IF d \in PlayerIds \/ d = c \/ ~(isFriend(x, d, m) \/ isOpponent(x, d, m)) THEN x
        ELSE UpdateIdle(UpdateTargetList(x, d), d)
  IN  ForAll(look, w, S)

(* Each of them looks around, and all of them. *)
LEMMA TurnsCalm ==
  ASSUME NEW w \in Worlds, NEW d \in Creatures, NEW c, NEW m
  PROVE  Calm(w, Turns(w, d, c, m))
  BY TurnCalm, CalmSelf DEF Turns

LEMMA TurnAllFold ==
  ASSUME NEW w \in Worlds, NEW c, NEW m, NEW S \in SUBSET Creatures,
         NEW G \in SUBSET ((SUBSET S) \X Worlds), <<{}, w>> \in G,
         \A s \in SUBSET S, v \in Worlds :
           s # {} /\ <<s \ {Pick(s)}, v>> \in G => <<s, Turns(v, Pick(s), c, m)>> \in G
  PROVE  <<S, TurnAll(w, c, m, S)>> \in G
<1> DEFINE nx == [q \in (SUBSET S) \X Worlds |-> Turns(q[2], Pick(q[1]), c, m)]
           Is(f) == f = [s \in SUBSET S |-> IF s = {} THEN w ELSE Turns(f[s \ {Pick(s)}], Pick(s), c, m)]
           f == CHOOSE f : Is(f)
<1>0. IsFiniteSet(S)
  BY Counted
<1>1. Stays(S, nx, G)
  BY DEF Stays
<1>2. Is(f)
  <2>1. PICK it : Runs(S, w, nx, it) /\ \A s \in SUBSET S : <<s, it[s]>> \in G
    <3> HIDE DEF nx
    <3> QED
      BY <1>0, <1>1, RunExists
  <2>2. \A s \in SUBSET S : it[s] \in Worlds
    BY <2>1
  <2>3. Is(it)
    BY <2>1, <2>2 DEF Runs
  <2> HIDE DEF Is
  <2> QED
    BY <2>3
<1>3. TurnAll(w, c, m, S) = f[S]
  BY DEF TurnAll, Turns, ForAll, FoldSet, MapThenFoldSet, Pick
<1>4. \A s \in SUBSET S : s # {} /\ f[s \ {Pick(s)}] \in Worlds => f[s] = nx[<<s, f[s \ {Pick(s)}]>>]
  <2> HIDE DEF f
  <2> QED
    BY <1>2
<1>5. f[{}] = w
  BY <1>2
<1> HIDE DEF f, nx
<1>6. Follows(S, w, Worlds, nx, f)
  BY <1>4, <1>5 DEF Follows
<1> QED
  BY <1>0, <1>1, <1>3, <1>6, RunStays

LEMMA TurnAllCalm ==
  ASSUME NEW w \in Worlds, NEW c, NEW m, NEW S \in SUBSET Creatures
  PROVE  Calm(w, TurnAll(w, c, m, S))
<1> DEFINE G == {q \in (SUBSET S) \X Worlds : Calm(w, q[2])}
<1>1. <<{}, w>> \in G
  BY CalmSelf
<1>2. ASSUME NEW s \in SUBSET S, NEW v \in Worlds, s # {}, <<s \ {Pick(s)}, v>> \in G
      PROVE  <<s, Turns(v, Pick(s), c, m)>> \in G
  <2>1. Pick(s) \in Creatures
    BY <1>2 DEF Pick
  <2>2. Calm(v, Turns(v, Pick(s), c, m))
    BY <2>1, TurnsCalm
  <2>3. Calm(w, Turns(v, Pick(s), c, m))
    BY <1>2, <2>2, CalmThen
  <2>4. Turns(v, Pick(s), c, m) \in Worlds
    BY <2>2 DEF Calm
  <2> QED
    BY <2>3, <2>4
<1>3. G \in SUBSET ((SUBSET S) \X Worlds)
  OBVIOUS
<1>4. <<S, TurnAll(w, c, m, S)>> \in G
  <2> HIDE DEF G
  <2> QED
    BY <1>1, <1>2, <1>3, TurnAllFold
<1> QED
  BY <1>4

-----------------------------------------------------------------------------
(* Whoever waits for a vector is put in its list. *)
Filed(w) == [c \in Creatures |-> [w[c] EXCEPT !.listed = @ \/ w[c].queued, !.queued = FALSE]]

(* The reference of the vector to come is that of the list now. *)
LEMMA FiledSound ==
  ASSUME NEW w, Sound(w)
  PROVE  Sound(Filed(w))
<1> DEFINE v == Filed(w)
<1>0. w \in Worlds /\ InVector(w) /\ Bound(w) /\ \A k \in Creatures : Owed(w, k) = 0
  BY DEF Sound, Fit
<1>1. ASSUME NEW k \in Creatures
      PROVE  /\ v[k] \in Fields
             /\ v[k].at = w[k].at /\ v[k].removed = w[k].removed /\ v[k].alive = w[k].alive
             /\ v[k].master = w[k].master /\ v[k].summons = w[k].summons
             /\ v[k].targets = w[k].targets /\ v[k].friends = w[k].friends /\ v[k].vec = w[k].vec
             /\ v[k].refs = w[k].refs /\ v[k].released = w[k].released
             /\ v[k].queued = FALSE /\ v[k].listed = (w[k].listed \/ w[k].queued)
  <2>1. w[k] \in Fields
    BY <1>0 DEF Worlds
  <2>2. v[k] = [w[k] EXCEPT !.listed = @ \/ w[k].queued, !.queued = FALSE]
    BY DEF Filed
  <2> HIDE DEF v
  <2>3. w[k].listed \/ w[k].queued \in BOOLEAN
    BY <2>1 DEF Fields
  <2> QED
    BY <2>1, <2>2, <2>3 DEF Fields
<1>2. v \in Worlds
  BY <1>1 DEF Filed, Worlds
<1> HIDE DEF v
<1>3. ASSUME NEW k \in Creatures
      PROVE  /\ Hunters(v, k) = Hunters(w, k) /\ Friends(v, k) = Friends(w, k)
             /\ Masters(v, k) = Masters(w, k) /\ Placed(v, k) = Placed(w, k)
  BY <1>1 DEF Hunters, Friends, Masters, Placed
<1>4. InVector(v)
  BY <1>0, <1>1 DEF InVector
<1>5. Bound(v)
  <2>1. \A k \in Creatures : w[k].summons \in SUBSET Creatures
    BY <1>0, FieldsTyped
  <2>2. \A k \in Creatures : /\ v[k].at = w[k].at /\ v[k].alive = w[k].alive
                             /\ v[k].master = w[k].master /\ v[k].summons = w[k].summons
    BY <1>1
  <2> QED
    BY <1>0, <2>1, <2>2 DEF Bound
<1>6. ASSUME NEW k \in Creatures PROVE Owed(v, k) = 0
  <2> DEFINE x == w[k].refs
             h == Count(Hunters(w, k))
             f == Count(Friends(w, k))
             p == Flag(Placed(w, k))
             n == w[k].released
             m == Count(Masters(w, k))
             q == Flag(w[k].queued)
             l == Flag(w[k].listed)
             e == Flag(v[k].listed)
  <2>1. /\ x \in Int /\ h \in Nat /\ f \in Nat /\ p \in {0, 1} /\ n \in Nat /\ m \in Nat
        /\ q \in {0, 1} /\ l \in {0, 1}
    BY <1>0, NumbersTyped
  <2>2. e = q + l
    <3>1. ~(w[k].queued /\ w[k].listed) /\ w[k].queued \in BOOLEAN /\ w[k].listed \in BOOLEAN
      BY <1>0, FieldsTyped DEF InVector
    <3>2. v[k].listed = (w[k].listed \/ w[k].queued)
      BY <1>1
    <3>3. v[k].listed \in BOOLEAN /\ (v[k].listed <=> w[k].listed \/ w[k].queued)
      BY <3>1, <3>2
    <3>4. \A a \in BOOLEAN, b \in BOOLEAN, d \in BOOLEAN :
            ~(a /\ b) /\ (d <=> b \/ a) => Flag(d) = Flag(a) + Flag(b)
      BY DEF Flag
    <3> QED
      BY <3>1, <3>3, <3>4
  <2>3. Flag(v[k].queued) = 0
    BY <1>1 DEF Flag
  <2>4. Owed(v, k) = x - 0 - h - f - p - n - e - m
    BY <1>1, <1>3, <2>3 DEF Owed, Lent
  <2>5. x - q - h - f - p - n - l - m = 0
    BY <1>0 DEF Owed, Lent
  <2> HIDE DEF x, h, f, p, n, m, q, l, e
  <2> QED
    BY <2>1, <2>2, <2>4, <2>5
<1>7. Sound(v)
  BY <1>2, <1>4, <1>5, <1>6 DEF Sound, Fit
<1> QED
  BY <1>7 DEF v

(* Who is no longer checked leaves the list; the cleanup to come holds it. *)
Unlisted(w, c) == [w EXCEPT ![c].vec = -1, ![c].released = @ + 1, ![c].listed = FALSE]

(* The reference of the list is one of releaseThings now. *)
LEMMA UnlistedSound ==
  ASSUME NEW w, Sound(w), NEW c \in Creatures, w[c].listed
  PROVE  /\ Sound(Unlisted(w, c))
         /\ \A k \in Creatures \ {c} : Unlisted(w, c)[k].listed = w[k].listed
<1> DEFINE r == [w[c] EXCEPT !.vec = -1, !.released = @ + 1, !.listed = FALSE]
           v == [w EXCEPT ![c] = r]
<1>0. w \in Worlds /\ InVector(w) /\ Bound(w) /\ \A k \in Creatures : Owed(w, k) = 0
  BY DEF Sound, Fit
<1>1. w[c] \in Fields
  BY <1>0 DEF Worlds
<1>2. Unlisted(w, c) = v
  BY <1>0 DEF Unlisted, Worlds
<1>3. w[c].released + 1 \in Nat /\ w[c].queued = FALSE /\ w[c].listed = TRUE
  <2>1. w[c].queued \in BOOLEAN /\ w[c].listed \in BOOLEAN /\ w[c].released \in Nat
    BY <1>1 DEF Fields
  <2>2. ~w[c].queued
    BY <1>0 DEF InVector
  <2> QED
    BY <2>1, <2>2
<1>4. r \in Fields
  <2>1. [w[c] EXCEPT !.vec = -1] \in Fields
    BY <1>1, OneField
  <2> QED
    BY <1>1, <1>3 DEF Fields
<1>5. /\ r.at = w[c].at /\ r.removed = w[c].removed /\ r.alive = w[c].alive
      /\ r.master = w[c].master /\ r.summons = w[c].summons /\ r.refs = w[c].refs
      /\ r.targets = w[c].targets /\ r.friends = w[c].friends /\ r.queued = FALSE
      /\ r.vec = -1 /\ r.released = w[c].released + 1 /\ r.listed = FALSE
  BY <1>1, <1>3 DEF Fields
<1> HIDE DEF r
<1>6. v \in Worlds /\ v[c] = r /\ \A k \in Creatures \ {c} : v[k] = w[k]
  BY <1>0, <1>4, Put
<1>7. \A k \in Creatures : /\ Hunters(v, k) = Hunters(w, k) /\ Friends(v, k) = Friends(w, k)
                           /\ Masters(v, k) = Masters(w, k)
  BY <1>0, <1>4, <1>5, PutHolders
<1> HIDE DEF v
<1>8. InVector(v)
  BY <1>0, <1>5, <1>6 DEF InVector
<1>9. Bound(v)
  <2>1. \A k \in Creatures : w[k].summons \in SUBSET Creatures
    BY <1>0, FieldsTyped
  <2> QED
    BY <1>0, <1>5, <1>6, <2>1 DEF Bound
<1>10. ASSUME NEW k \in Creatures PROVE Owed(v, k) = 0
  <2>1. Placed(v, k) = Placed(w, k)
    BY <1>5, <1>6 DEF Placed
  <2>2. CASE k # c
    <3>1. Owed(v, k) = Owed(w, k)
      BY <1>6, <1>7, <2>1, <2>2 DEF Owed, Lent
    <3> QED
      BY <1>0, <3>1
  <2>3. CASE k = c
    <3> DEFINE a == Lent(w, c)
               p == Flag(Placed(w, c))
               n == w[c].released
               m == Count(Masters(w, c))
    <3>1. a \in Int /\ p \in {0, 1} /\ n \in Nat /\ m \in Nat
      BY <1>0, NumbersTyped
    <3>2. Flag(v[c].listed) = 0 /\ Flag(w[c].listed) = 1
      BY <1>3, <1>5, <1>6 DEF Flag
    <3>3. Lent(v, c) = a
      BY <1>3, <1>5, <1>6, <1>7 DEF Lent
    <3>4. Owed(v, c) = a - p - (n + 1) - 0 - m /\ a - p - n - 1 - m = 0
      BY <1>0, <1>5, <1>6, <1>7, <2>1, <2>3, <3>2, <3>3 DEF Owed
    <3> HIDE DEF a, p, n, m
    <3>5. Owed(v, c) = 0
      BY <3>1, <3>4
    <3> QED
      BY <2>3, <3>5
  <2> QED
    BY <2>2, <2>3
<1>11. Sound(v)
  BY <1>6, <1>8, <1>9, <1>10 DEF Sound, Fit
<1>12. \A k \in Creatures \ {c} : v[k].listed = w[k].listed
  BY <1>6
<1> QED
  BY <1>2, <1>11, <1>12

(* The visits of one vector. *)
Visit(x, c, keen) ==
  IF ~x[c].checked THEN Unlisted(x, c)
  ELSE IF x[c].alive THEN Think(x, c, keen) ELSE Die(x, c)
VisitAll(w, keen, S) ==
  LET visit(x, c) ==
        IF ~x[c].checked
        THEN [x EXCEPT ![c].vec = -1, ![c].released = @ + 1, ![c].listed = FALSE]
        ELSE IF x[c].alive THEN Think(x, c, keen) ELSE Die(x, c)
  IN  ForAll(visit, w, S)

(* Game::checkCreatures visits one creature of the list, and all of them: whom it
   has yet to visit stays in the list. *)
LEMMA VisitSound ==
  ASSUME NEW w, Sound(w), NEW c \in Creatures, w[c].listed, NEW keen
  PROVE  /\ Sound(Visit(w, c, keen))
         /\ \A k \in Creatures \ {c} : Visit(w, c, keen)[k].listed = w[k].listed
<1>0. w \in Worlds /\ Fit(w)
  BY DEF Sound
<1>1. CASE ~w[c].checked
  BY <1>1, UnlistedSound DEF Visit
<1>2. CASE w[c].checked /\ w[c].alive
  <2>1. Keeps(w, Think(w, c, keen))
    BY <1>0, ThinkCalm, CalmKeeps
  <2>2. Visit(w, c, keen) = Think(w, c, keen)
    BY <1>2 DEF Visit
  <2>3. Sound(Think(w, c, keen)) /\ \A k \in Creatures : Think(w, c, keen)[k].listed = w[k].listed
    BY <1>0, <2>1, KeepsSound DEF Keeps
  <2> QED
    BY <2>2, <2>3
<1>3. CASE w[c].checked /\ ~w[c].alive
  <2>1. w[c].at # NoTile
    BY <1>0, <1>3 DEF Fit, Bound
  <2>2. Keeps(w, Die(w, c))
    BY <1>0, <2>1, DieKeeps
  <2>3. Visit(w, c, keen) = Die(w, c)
    BY <1>3 DEF Visit
  <2>4. Sound(Die(w, c)) /\ \A k \in Creatures : Die(w, c)[k].listed = w[k].listed
    BY <1>0, <2>2, KeepsSound DEF Keeps
  <2> QED
    BY <2>3, <2>4
<1> QED
  BY <1>1, <1>2, <1>3

LEMMA VisitAllFold ==
  ASSUME NEW w \in Worlds, NEW keen, NEW S \in SUBSET Creatures,
         NEW G \in SUBSET ((SUBSET S) \X Worlds), <<{}, w>> \in G,
         \A s \in SUBSET S, v \in Worlds :
           s # {} /\ <<s \ {Pick(s)}, v>> \in G => <<s, Visit(v, Pick(s), keen)>> \in G
  PROVE  <<S, VisitAll(w, keen, S)>> \in G
<1> DEFINE nx == [q \in (SUBSET S) \X Worlds |-> Visit(q[2], Pick(q[1]), keen)]
           Is(f) == f = [s \in SUBSET S |-> IF s = {} THEN w ELSE Visit(f[s \ {Pick(s)}], Pick(s), keen)]
           f == CHOOSE f : Is(f)
<1>0. IsFiniteSet(S)
  BY Counted
<1>1. Stays(S, nx, G)
  BY DEF Stays
<1>2. Is(f)
  <2>1. PICK it : Runs(S, w, nx, it) /\ \A s \in SUBSET S : <<s, it[s]>> \in G
    <3> HIDE DEF nx
    <3> QED
      BY <1>0, <1>1, RunExists
  <2>2. \A s \in SUBSET S : it[s] \in Worlds
    BY <2>1
  <2>3. Is(it)
    BY <2>1, <2>2 DEF Runs
  <2> HIDE DEF Is
  <2> QED
    BY <2>3
<1>3. VisitAll(w, keen, S) = f[S]
  BY DEF VisitAll, Visit, Unlisted, ForAll, FoldSet, MapThenFoldSet, Pick
<1>4. \A s \in SUBSET S : s # {} /\ f[s \ {Pick(s)}] \in Worlds => f[s] = nx[<<s, f[s \ {Pick(s)}]>>]
  <2> HIDE DEF f
  <2> QED
    BY <1>2
<1>5. f[{}] = w
  BY <1>2
<1> HIDE DEF f, nx
<1>6. Follows(S, w, Worlds, nx, f)
  BY <1>4, <1>5 DEF Follows
<1> QED
  BY <1>0, <1>1, <1>3, <1>6, RunStays

LEMMA VisitAllSound ==
  ASSUME NEW w, Sound(w), NEW keen, NEW S \in SUBSET Creatures, \A c \in S : w[c].listed
  PROVE  Sound(VisitAll(w, keen, S))
<1> DEFINE G == {q \in (SUBSET S) \X Worlds : Sound(q[2]) /\ \A c \in S \ q[1] : q[2][c].listed}
<1>0. w \in Worlds
  BY DEF Sound
<1>1. <<{}, w>> \in G
  BY <1>0
<1>2. ASSUME NEW s \in SUBSET S, NEW v \in Worlds, s # {}, <<s \ {Pick(s)}, v>> \in G
      PROVE  <<s, Visit(v, Pick(s), keen)>> \in G
  <2> DEFINE p == Pick(s)
             u == Visit(v, p, keen)
  <2>1. p \in s /\ p \in S /\ p \in Creatures
    BY <1>2 DEF Pick
  <2>2. Sound(v) /\ \A c \in S \ (s \ {p}) : v[c].listed
    BY <1>2
  <2> HIDE DEF p
  <2>3. v[p].listed
    BY <2>1, <2>2
  <2>4. Sound(u) /\ \A k \in Creatures \ {p} : u[k].listed = v[k].listed
    BY <2>1, <2>2, <2>3, VisitSound
  <2> HIDE DEF u
  <2>5. u \in Worlds
    BY <2>4 DEF Sound
  <2>6. \A c \in S \ s : u[c].listed
    BY <2>1, <2>2, <2>4
  <2>7. <<s, u>> \in G
    BY <2>4, <2>5, <2>6
  <2> QED
    BY <2>7 DEF u, p
<1>3. G \in SUBSET ((SUBSET S) \X Worlds)
  OBVIOUS
<1>4. <<S, VisitAll(w, keen, S)>> \in G
  <2> HIDE DEF G
  <2> QED
    BY <1>0, <1>1, <1>2, <1>3, VisitAllFold
<1> QED
  BY <1>4

(* Game::cleanup gives back what releaseThings holds. *)
LEMMA CleanupSound ==
  ASSUME NEW w, Sound(w)
  PROVE  Sound(Cleanup(w))
<1> DEFINE v == Cleanup(w)
<1>0. w \in Worlds /\ InVector(w) /\ Bound(w) /\ \A k \in Creatures : Owed(w, k) = 0
  BY DEF Sound, Fit
<1>1. ASSUME NEW k \in Creatures
      PROVE  /\ v[k] \in Fields
             /\ v[k].at = w[k].at /\ v[k].removed = w[k].removed /\ v[k].alive = w[k].alive
             /\ v[k].master = w[k].master /\ v[k].summons = w[k].summons
             /\ v[k].targets = w[k].targets /\ v[k].friends = w[k].friends /\ v[k].vec = w[k].vec
             /\ v[k].queued = w[k].queued /\ v[k].listed = w[k].listed
             /\ v[k].refs = w[k].refs - w[k].released /\ v[k].released = 0
  <2>1. w[k] \in Fields
    BY <1>0 DEF Worlds
  <2>2. v[k] = [w[k] EXCEPT !.refs = @ - w[k].released, !.released = 0]
    BY DEF Cleanup
  <2> HIDE DEF v
  <2>3. w[k].refs - w[k].released \in Int
    BY <2>1 DEF Fields
  <2>4. v[k] \in Fields
    <3> DEFINE q == [w[k] EXCEPT !.refs = w[k].refs - w[k].released]
    <3>1. q \in Fields
      BY <2>1, <2>3, OneField
    <3>2. v[k] = [q EXCEPT !.released = 0]
      BY <2>1, <2>2 DEF Fields
    <3> HIDE DEF q
    <3>3. [q EXCEPT !.released = 0] \in Fields
      BY <3>1, OneField
    <3> QED
      BY <3>2, <3>3
  <2>5. v[k].refs = w[k].refs - w[k].released /\ v[k].released = 0
    BY <2>1, <2>2 DEF Fields
  <2> QED
    BY <2>1, <2>2, <2>4, <2>5 DEF Fields
<1>2. v \in Worlds
  BY <1>1 DEF Cleanup, Worlds
<1> HIDE DEF v
<1>3. ASSUME NEW k \in Creatures
      PROVE  /\ Hunters(v, k) = Hunters(w, k) /\ Friends(v, k) = Friends(w, k)
             /\ Masters(v, k) = Masters(w, k) /\ Placed(v, k) = Placed(w, k)
  BY <1>1 DEF Hunters, Friends, Masters, Placed
<1>4. InVector(v)
  BY <1>0, <1>1 DEF InVector
<1>5. Bound(v)
  <2>1. \A k \in Creatures : w[k].summons \in SUBSET Creatures
    BY <1>0, FieldsTyped
  <2>2. \A k \in Creatures : /\ v[k].at = w[k].at /\ v[k].alive = w[k].alive
                             /\ v[k].master = w[k].master /\ v[k].summons = w[k].summons
    BY <1>1
  <2> QED
    BY <1>0, <2>1, <2>2 DEF Bound
<1>6. ASSUME NEW k \in Creatures PROVE Owed(v, k) = 0
  <2> DEFINE x == w[k].refs
             h == Count(Hunters(w, k))
             f == Count(Friends(w, k))
             p == Flag(Placed(w, k))
             n == w[k].released
             m == Count(Masters(w, k))
             q == Flag(w[k].queued)
             l == Flag(w[k].listed)
  <2>1. /\ x \in Int /\ h \in Nat /\ f \in Nat /\ p \in {0, 1} /\ n \in Nat /\ m \in Nat
        /\ q \in {0, 1} /\ l \in {0, 1}
    BY <1>0, NumbersTyped
  <2>2. Owed(v, k) = (x - n) - q - h - f - p - 0 - l - m
    BY <1>1, <1>3 DEF Owed, Lent
  <2>3. x - q - h - f - p - n - l - m = 0
    BY <1>0 DEF Owed, Lent
  <2> HIDE DEF x, h, f, p, n, m, q, l
  <2> QED
    BY <2>1, <2>2, <2>3
<1>7. Sound(v)
  BY <1>2, <1>4, <1>5, <1>6 DEF Sound, Fit
<1> QED
  BY <1>7 DEF v

-----------------------------------------------------------------------------
(* The inductive invariant: every reference accounted for, each creature in the
   vector its checkVector says, summons in the world and known to one master. *)
CreaturesIInv == Sound(creature)

(* Nobody is born at first. *)
LEMMA InitSound == ASSUME CreatureInit PROVE Sound(creature)
<1>0. /\ Unborn.targets = {} /\ Unborn.friends = {} /\ Unborn.summons = {} /\ Unborn.at = NoTile
      /\ Unborn.alive = TRUE /\ Unborn.vec = -1 /\ Unborn.queued = FALSE /\ Unborn.listed = FALSE
      /\ Unborn.refs = 0 /\ Unborn.released = 0
  BY DEF Unborn
<1>1. creature \in Worlds /\ \A c \in Creatures : creature[c] = Unborn
  BY UnbornTyped DEF CreatureInit, Worlds
<1>2. InVector(creature) /\ Bound(creature)
  BY <1>0, <1>1 DEF InVector, Bound
<1>3. ASSUME NEW c \in Creatures PROVE Owed(creature, c) = 0
  <2>1. /\ Hunters(creature, c) = {} /\ Friends(creature, c) = {} /\ Masters(creature, c) = {}
        /\ ~Placed(creature, c)
    BY <1>0, <1>1 DEF Hunters, Friends, Masters, Placed
  <2>2. Count({}) = 0 /\ Flag(FALSE) = 0
    BY FS_EmptySet DEF Count, Flag
  <2>3. Placed(creature, c) = FALSE
    BY <2>1 DEF Placed
  <2>4. Owed(creature, c) = 0 - 0 - 0 - 0 - 0 - 0 - 0 - 0
    BY <1>0, <1>1, <2>1, <2>2, <2>3 DEF Owed, Lent
  <2> QED
    BY <2>4
<1> QED
  BY <1>1, <1>2, <1>3 DEF Sound, Fit

(* A handler ends in the deletions it causes. *)
LEMMA StepSound ==
  ASSUME NEW w, Sound(w), Step(w)
  PROVE  Sound(creature')
  BY SettleSound DEF Step

(* Every handler keeps the accounts. *)
LEMMA CreatureNextSound ==
  ASSUME Sound(creature), CreatureNext
  PROVE  Sound(creature')
<1>0. creature \in Worlds /\ Fit(creature)
  BY DEF Sound
<1>p. PlayerIds \subseteq Creatures /\ MonsterIds \subseteq Creatures /\ PlayerIds \cap MonsterIds = {}
  BY CreatureAssumption DEF Creatures
<1>1. ASSUME NEW c \in Creatures, NEW p \in Tiles, Enter(c, p) PROVE Sound(creature')
  <2>1. Sound(Place(creature, c, p))
    BY <1>1, EnterSound DEF Enter
  <2> QED
    BY <1>1, <2>1, StepSound DEF Enter
<1>2. ASSUME NEW c \in Creatures, NEW p \in Tiles, NEW far \in BOOLEAN, NEW keen, Walk(c, p, far, keen)
      PROVE  Sound(creature')
  <2> DEFINE w == [creature EXCEPT ![c].at = p]
             S == At(w, creature[c].at) \cup At(w, p)
             v == StepAll(w, c, far, keen, S)
  <2>1. Placed(creature, c) /\ Step(v)
    BY <1>2 DEF Walk, StepAll
  <2>2. Sound(w)
    BY <2>1, MovedSound
  <2>3. S \in SUBSET Creatures
    BY DEF At
  <2> HIDE DEF w, S
  <2>4. Sound(v)
    BY <2>2, <2>3, StepAllSound
  <2> HIDE DEF v
  <2> QED
    BY <2>1, <2>4, StepSound
<1>3. ASSUME NEW c \in Creatures, Leave(c) PROVE Sound(creature')
  <2>1. creature[c].at # NoTile /\ Step(RemoveCreature(creature, c))
    BY <1>3 DEF Leave, Placed
  <2>2. Sound(RemoveCreature(creature, c))
    BY <1>0, <2>1, RemoveCreatureKeeps, KeepsSound
  <2> QED
    BY <2>1, <2>2, StepSound
<1>4. ASSUME NEW c \in Creatures, Slay(c) PROVE Sound(creature')
  <2>1. creature[c].at # NoTile /\ Step(Kill(creature, c))
    BY <1>4 DEF Slay, Placed
  <2>2. Sound(Kill(creature, c))
    BY <1>0, <2>1, KillKeeps, KeepsSound
  <2> QED
    BY <2>1, <2>2, StepSound
<1>5. ASSUME NEW c \in Creatures, NEW m \in MonsterIds, Summon(c, m) PROVE Sound(creature')
  <2> DEFINE p == creature[c].at
             v == Place(AddSummon(creature, c, m), m, p)
  <2>1. Placed(creature, c) /\ creature[m] = Unborn /\ Step(v)
    BY <1>5 DEF Summon
  <2>2. p \in Tiles /\ c # m
    BY <1>0, <2>1, FieldsTyped DEF Placed, Unborn
  <2>3. Sound(v)
    <3> HIDE DEF p
    <3> QED
      BY <1>p, <2>1, <2>2, SummonSound
  <2> HIDE DEF v
  <2> QED
    BY <2>1, <2>3, StepSound
<1>6. ASSUME NEW c \in Creatures, NEW m \in MonsterIds, SummonFails(c, m) PROVE Sound(creature')
  <2>1. Placed(creature, c) /\ creature[m] = Unborn /\ Step(RemoveSummon(AddSummon(creature, c, m), c, m))
    BY <1>6 DEF SummonFails
  <2>2. c # m
    BY <2>1 DEF Placed, Unborn
  <2>3. RemoveSummon(AddSummon(creature, c, m), c, m) = creature
    BY <1>p, <2>1, <2>2, SummonFailsIs
  <2>4. Step(creature)
    BY <2>1, <2>3
  <2> QED
    BY <2>4, StepSound
<1>7. ASSUME NEW c \in Creatures, NEW m \in MonsterIds, Convince(c, m) PROVE Sound(creature')
  <2> DEFINE freed == IF isSummon(creature, m) THEN RemoveSummon(creature, creature[m].master, m)
                      ELSE creature
             w == AddSummon(DestroySummons(SetAttacked(freed, m, NoCreature), m), c, m)
             v == UpdateIdle(UpdateTargetList(w, m), m)
             u == [v EXCEPT ![m].inRange = TRUE]
             S == At(u, u[m].at)
             t == TurnAll(u, c, m, S)
  <2>1. c \in PlayerIds /\ Placed(creature, m) /\ Step(t)
    BY <1>7 DEF Convince, TurnAll
  <2>2. c # m /\ m \in Creatures
    BY <1>p, <2>1
  <2>3. Sound(w)
    BY <2>1, <2>2, ConvinceSound
  <2> HIDE DEF w
  <2>4. Calm(w, v)
    BY <2>2, <2>3, TurnCalm DEF Sound
  <2>5. Sound(v) /\ v \in Worlds
    BY <2>3, <2>4, CalmSound DEF Calm
  <2> HIDE DEF v
  <2>6. Calm(v, u)
    BY <2>2, <2>5, OneFieldCalm
  <2>7. Sound(u) /\ u \in Worlds
    BY <2>5, <2>6, CalmSound DEF Calm
  <2> HIDE DEF u
  <2>8. S \in SUBSET Creatures
    BY DEF At
  <2> HIDE DEF S
  <2>9. Sound(t)
    BY <2>7, <2>8, TurnAllCalm, CalmSound
  <2> HIDE DEF t
  <2> QED
    BY <2>1, <2>9, StepSound
<1>8. ASSUME NEW c \in PlayerIds, NEW d \in Creatures \cup {NoCreature}, Attack(c, d)
      PROVE  Sound(creature')
  <2>1. Step(SetAttacked(creature, c, d))
    BY <1>8 DEF Attack
  <2>2. Sound(SetAttacked(creature, c, d))
    BY <1>0, <1>p, SetAttackedCalm, CalmSound
  <2> QED
    BY <2>1, <2>2, StepSound
<1>9. ASSUME NEW keen, CheckCreatures(keen) PROVE Sound(creature')
  <2> DEFINE w == Filed(creature)
             S == {c \in Creatures : w[c].listed /\ w[c].vec = (checkIndex + 1) % Vectors}
             v == VisitAll(w, keen, S)
             u == Cleanup(v)
  <2>1. creature' = Settle(u)
    BY <1>9 DEF CheckCreatures, Filed, VisitAll
  <2>2. Sound(w)
    BY FiledSound
  <2> HIDE DEF w
  <2>3. S \in SUBSET Creatures /\ \A c \in S : w[c].listed
    OBVIOUS
  <2> HIDE DEF S
  <2>4. Sound(v)
    BY <2>2, <2>3, VisitAllSound
  <2> HIDE DEF v
  <2>5. Sound(u)
    BY <2>4, CleanupSound
  <2> HIDE DEF u
  <2> QED
    BY <2>1, <2>5, SettleSound
<1> QED
  BY <1>1, <1>2, <1>3, <1>4, <1>5, <1>6, <1>7, <1>8, <1>9 DEF CreatureNext

(* Every reference to a creature has a holder and every holder a reference,
   whatever creatures, places and vectors there are: creatures are counted
   through entering, walking, summoning, convincing, dying, leaving and cleanup. *)
THEOREM RefsHeldHolds == CreatureSpec => []RefsHeld
<1>1. CreatureInit => CreaturesIInv
  BY InitSound DEF CreaturesIInv
<1>2. CreaturesIInv /\ [CreatureNext]_creatureVars => CreaturesIInv'
  <2> SUFFICES ASSUME CreaturesIInv, [CreatureNext]_creatureVars PROVE CreaturesIInv'
    OBVIOUS
  <2>1. CASE CreatureNext
    <3>1. Sound(creature')
      BY <2>1, CreatureNextSound DEF CreaturesIInv
    <3> QED
      BY <3>1 DEF CreaturesIInv, Sound, Worlds, Fields, Fit, InVector, Bound, Owed, Lent, Placed,
                  Hunters, Friends, Masters, Flag, Count, Creatures
  <2>2. CASE UNCHANGED creatureVars
    BY <2>2 DEF CreaturesIInv, creatureVars, Sound, Worlds, Fields, Fit, InVector, Bound, Owed, Lent,
                Placed, Hunters, Friends, Masters, Flag, Count, Creatures
  <2> QED
    BY <2>1, <2>2
<1>3. CreaturesIInv => RefsHeld
  <2> SUFFICES ASSUME Sound(creature), NEW c \in Creatures
               PROVE  creature[c].refs =
                          Flag(Placed(creature, c)) + creature[c].released
                        + Flag(creature[c].queued) + Flag(creature[c].listed)
                        + Count(Hunters(creature, c)) + Count(Friends(creature, c))
                        + Count(Masters(creature, c))
    BY DEF CreaturesIInv, RefsHeld, Hunters, Friends, Masters
  <2> DEFINE x == creature[c].refs
             h == Count(Hunters(creature, c))
             f == Count(Friends(creature, c))
             p == Flag(Placed(creature, c))
             n == creature[c].released
             m == Count(Masters(creature, c))
             q == Flag(creature[c].queued)
             l == Flag(creature[c].listed)
  <2>1. /\ x \in Int /\ h \in Nat /\ f \in Nat /\ p \in {0, 1} /\ n \in Nat /\ m \in Nat
        /\ q \in {0, 1} /\ l \in {0, 1}
    BY NumbersTyped DEF Sound
  <2>2. x - q - h - f - p - n - l - m = 0
    BY DEF Sound, Owed, Lent
  <2> HIDE DEF x, h, f, p, n, m, q, l
  <2>3. x = p + n + q + l + h + f + m
    BY <2>1, <2>2
  <2> QED
    BY <2>3 DEF x, h, f, p, n, m, q, l
<1> QED
  BY <1>1, <1>2, <1>3, PTL DEF CreatureSpec

-----------------------------------------------------------------------------
(* What PointersGood and SoonVisited need of one creature.  Stirred: it is in a
   vector if it is awake or dead, asleep only without a target, and a summon has
   its master in the world, who knows it, and no summons of its own.  Keen: it
   attacks whom it sees, and a monster on its own has every living player it
   sees among its targets; but for e, who is on the move. *)
Heard(w, x) == ~w[x].idle \/ ~w[x].alive => w[x].checked /\ w[x].vec # -1
Bored(w, x) == w[x].idle /\ w[x].alive /\ ~isSummon(w, x) => w[x].targets = {}
Serves(w, x) ==
  isSummon(w, x) => /\ x \in MonsterIds /\ w[x].summons = {}
                    /\ Placed(w, w[x].master) /\ x \in w[w[x].master].summons
Stirred(w, x) ==
  Placed(w, x) => /\ Heard(w, x) /\ Bored(w, x) /\ Serves(w, x)
                  /\ x \in PlayerIds => ~w[x].idle

Aims(w, x, e) == w[x].attacked \in {NoCreature, e} \/ Sees(w, x, w[x].attacked)
Knows(w, x, p) ==
  x \in MonsterIds /\ w[x].alive /\ ~isSummon(w, x) /\ Sees(w, x, p) /\ w[p].alive
    => p \in w[x].targets
Keen(w, x, e) == Placed(w, x) => Aims(w, x, e) /\ \A p \in PlayerIds \ {e} : Knows(w, x, p)

(* What a monster's mind does to it alone: the others keep theirs, and it forgets
   of the living players it sees none but those in E. *)
SameMind(w, v, x) ==
  /\ v[x].idle = w[x].idle /\ v[x].attacked = w[x].attacked /\ v[x].checked = w[x].checked
  /\ v[x].vec = w[x].vec /\ v[x].targets = w[x].targets
Minds(w, v, m, E) ==
  /\ v \in Worlds /\ SameFrame(w, v)
  /\ \A x \in Creatures \ {m} : SameMind(w, v, x)
  /\ v[m].attacked = w[m].attacked
  /\ Heard(w, m) => Heard(v, m)
  /\ \A p \in w[m].targets \ E :
       ~isSummon(w, m) /\ p \in PlayerIds /\ w[p].alive /\ w[p].at = w[m].at => p \in v[m].targets

LEMMA MindsSelf == ASSUME NEW w \in Worlds, NEW m, NEW E PROVE Minds(w, w, m, E)
  BY DEF Minds, SameFrame, SameMind

(* Such steps compose. *)
LEMMA MindsThen ==
  ASSUME NEW w \in Worlds, NEW v, NEW u, NEW m \in Creatures, NEW E,
         Minds(w, v, m, E), Minds(v, u, m, E)
  PROVE  Minds(w, u, m, E)
<1>1. u \in Worlds /\ SameFrame(w, u)
  BY DEF Minds, SameFrame
<1>2. \A x \in Creatures \ {m} : SameMind(w, u, x)
  BY DEF Minds, SameMind
<1>3. u[m].attacked = w[m].attacked /\ (Heard(w, m) => Heard(u, m))
  BY DEF Minds
<1>4. ASSUME NEW p \in w[m].targets \ E, ~isSummon(w, m), p \in PlayerIds, w[p].alive, w[p].at = w[m].at
      PROVE  p \in u[m].targets
  <2>1. p \in Creatures
    BY FieldsTyped DEF Creatures
  <2>2. p \in v[m].targets /\ SameFrame(w, v)
    BY <1>4 DEF Minds
  <2>3. ~isSummon(v, m) /\ v[p].alive /\ v[p].at = v[m].at
    BY <1>4, <2>1, <2>2 DEF SameFrame, isSummon
  <2> QED
    BY <1>4, <2>2, <2>3 DEF Minds
<1> QED
  BY <1>1, <1>2, <1>3, <1>4 DEF Minds

(* A frame in which nobody's mind changes. *)
LEMMA QuietMinds ==
  ASSUME NEW w \in Worlds, NEW v \in Worlds, SameFrame(w, v), NEW m \in Creatures,
         \A x \in Creatures : SameMind(w, v, x)
  PROVE  Minds(w, v, m, {})
  BY DEF Minds, SameMind, Heard, SameFrame

(* What others see of a creature, and whom it serves. *)
SameScene(w, v) ==
  \A x \in Creatures :
    /\ v[x].at = w[x].at /\ v[x].removed = w[x].removed /\ v[x].alive = w[x].alive
    /\ v[x].master = w[x].master /\ v[x].summons = w[x].summons

(* Lists that change leave the rest of the mind alone. *)
Relisted(w, v, m, T) ==
  \A x \in Creatures :
    /\ v[x].idle = w[x].idle /\ v[x].attacked = w[x].attacked
    /\ v[x].checked = w[x].checked /\ v[x].vec = w[x].vec
    /\ v[x].targets = (IF x = m THEN T ELSE w[x].targets)

LEMMA RelistMind ==
  ASSUME NEW w \in Worlds, NEW u \in Worlds, Recounted(w, u), NEW m \in Creatures,
         NEW T \in SUBSET Creatures, NEW F \in SUBSET Creatures, NEW v,
         \/ v = [u EXCEPT ![m].targets = T, ![m].friends = F]
         \/ v = [u EXCEPT ![m].friends = F, ![m].targets = T]
  PROVE  Relisted(w, v, m, T)
<1> DEFINE r == [u[m] EXCEPT !.targets = T, !.friends = F]
<1>2. u[m] \in Fields
  BY DEF Worlds
<1>1. v = [u EXCEPT ![m] = r]
  <2>1. r = [u[m] EXCEPT !.friends = F, !.targets = T]
    BY <1>2 DEF Fields
  <2> QED
    BY <2>1 DEF Worlds
<1>3. r \in Fields
  <2>1. [u[m] EXCEPT !.targets = T] \in Fields
    BY <1>2, OneField
  <2> QED
    BY <2>1, OneField
<1>4. /\ r.idle = u[m].idle /\ r.attacked = u[m].attacked /\ r.checked = u[m].checked
      /\ r.vec = u[m].vec /\ r.targets = T
  BY <1>2 DEF Fields
<1> HIDE DEF r
<1>5. v \in Worlds /\ v[m] = r /\ \A c \in Creatures \ {m} : v[c] = u[c]
  BY <1>1, <1>3 DEF Worlds
<1>6. ASSUME NEW c \in Creatures
      PROVE  /\ u[c].idle = w[c].idle /\ u[c].attacked = w[c].attacked
             /\ u[c].checked = w[c].checked /\ u[c].vec = w[c].vec /\ u[c].targets = w[c].targets
  <2>1. w[c] \in Fields
    BY DEF Worlds
  <2>2. u[c] = [w[c] EXCEPT !.refs = u[c].refs]
    BY DEF Recounted
  <2> QED
    BY <2>1, <2>2 DEF Fields
<1>7. \A x \in Creatures :
               /\ v[x].idle = w[x].idle /\ v[x].attacked = w[x].attacked
               /\ v[x].checked = w[x].checked /\ v[x].vec = w[x].vec
               /\ v[x].targets = (IF x = m THEN T ELSE w[x].targets)
  BY <1>4, <1>5, <1>6
<1> QED
  BY <1>7 DEF Relisted

LEMMA ClearListsMind ==
  ASSUME NEW w \in Worlds, NEW m \in Creatures
  PROVE  Relisted(w, ClearLists(w, m), m, {})
<1> DEFINE u == ForAll(UnRef, ForAll(UnRef, w, w[m].targets), w[m].friends)
<1>1. w[m].targets \in SUBSET Creatures /\ w[m].friends \in SUBSET Creatures
  BY FieldsTyped
<1>2. u \in Worlds /\ Recounted(w, u)
  BY <1>1, LessTwice
<1>3. ClearLists(w, m) = [u EXCEPT ![m].targets = {}, ![m].friends = {}]
  BY DEF ClearLists
<1> HIDE DEF u
<1>4. {} \in SUBSET Creatures
  OBVIOUS
<1> QED
  BY <1>2, <1>3, <1>4, RelistMind

(* A field of one mind. *)
LEMMA OneMind ==
  ASSUME NEW w \in Worlds, NEW m \in Creatures, NEW b \in BOOLEAN, NEW v
  PROVE  /\ v = [w EXCEPT ![m].idle = b] =>
              /\ \A x \in Creatures \ {m} : SameMind(w, v, x)
              /\ v[m].idle = b /\ v[m].attacked = w[m].attacked /\ v[m].checked = w[m].checked
              /\ v[m].vec = w[m].vec /\ v[m].targets = w[m].targets
         /\ v = [w EXCEPT ![m].checked = b] =>
              /\ \A x \in Creatures \ {m} : SameMind(w, v, x)
              /\ v[m].idle = w[m].idle /\ v[m].attacked = w[m].attacked /\ v[m].checked = b
              /\ v[m].vec = w[m].vec /\ v[m].targets = w[m].targets
<1>1. w[m] \in Fields
  BY DEF Worlds
<1> QED
  BY <1>1 DEF Worlds, Fields, SameMind

(* What addCreatureCheck does to the mind of who is in the world. *)
LEMMA AddCheckMind ==
  ASSUME NEW w \in Worlds, NEW m \in Creatures
  PROVE  LET v == AddCheck(w, m)
         IN  /\ \A x \in Creatures \ {m} : SameMind(w, v, x)
             /\ v[m].idle = w[m].idle /\ v[m].attacked = w[m].attacked /\ v[m].targets = w[m].targets
             /\ ~w[m].removed => v[m].checked /\ v[m].vec # -1
             /\ w[m].removed => v = w
<1>1. w[m] \in Fields /\ Lot[m] \in Nat
  BY CreatureAssumption DEF Worlds, Creatures
<1>2. CASE w[m].removed
  BY <1>2 DEF AddCheck, SameMind
<1>3. CASE ~w[m].removed /\ w[m].vec >= 0
  <2> DEFINE v == [w EXCEPT ![m].checked = TRUE]
  <2>1. AddCheck(w, m) = v
    BY <1>3 DEF AddCheck
  <2>0. v = [w EXCEPT ![m].checked = TRUE]
    OBVIOUS
  <2> HIDE DEF v
  <2>2. \A x \in Creatures \ {m} : SameMind(w, v, x)
    BY <1>1, <2>0 DEF Worlds, Fields, SameMind
  <2>3. /\ v[m].idle = w[m].idle /\ v[m].attacked = w[m].attacked /\ v[m].targets = w[m].targets
        /\ v[m].checked = TRUE /\ v[m].vec = w[m].vec
    BY <1>1, <2>0 DEF Worlds, Fields, SameMind
  <2>4. w[m].vec # -1
    BY <1>3, FieldsTyped
  <2> QED
    BY <1>3, <2>1, <2>2, <2>3, <2>4
<1>4. CASE ~w[m].removed /\ ~(w[m].vec >= 0)
  <2> DEFINE r == [w[m] EXCEPT !.refs = @ + 1, !.checked = TRUE, !.queued = TRUE, !.vec = Lot[m]]
             v == [w EXCEPT ![m] = r]
  <2>1. AddCheck(w, m) = v
    BY <1>4 DEF AddCheck, AddRef, Worlds
  <2>2. r.checked = TRUE /\ r.vec = Lot[m] /\ r.idle = w[m].idle /\ r.attacked = w[m].attacked
        /\ r.targets = w[m].targets
    BY <1>1 DEF Fields
  <2> HIDE DEF r
  <2>3. v[m] = r /\ \A c \in Creatures \ {m} : v[c] = w[c]
    BY DEF Worlds
  <2> QED
    BY <1>1, <1>4, <2>1, <2>2, <2>3 DEF SameMind
<1> QED
  BY <1>2, <1>3, <1>4

(* Monster::setIdle: who falls asleep has no targets, who wakes is checked. *)
LEMMA SetIdleMinds ==
  ASSUME NEW w \in Worlds, NEW m \in Creatures, NEW idle \in BOOLEAN, NEW E,
         idle => isSummon(w, m) \/ w[m].targets \subseteq E
  PROVE  LET v == SetIdle(w, m, idle)
         IN  /\ Minds(w, v, m, E) /\ (~w[m].removed => Bored(v, m))
             /\ ~w[m].removed /\ w[m].alive => v[m].idle = idle
             /\ ~idle => v[m].targets = w[m].targets
             /\ ~idle /\ ~w[m].removed => (v[m].alive => v[m].checked /\ v[m].vec # -1)
<1>s. w[m].idle \in BOOLEAN /\ w[m].alive \in BOOLEAN /\ w[m].removed \in BOOLEAN
  BY FieldsTyped
<1>1. CASE w[m].removed \/ ~w[m].alive
  BY <1>s, <1>1, MindsSelf DEF SetIdle, Bored
<1>2. CASE ~(w[m].removed \/ ~w[m].alive)
  <2> DEFINE u == [w EXCEPT ![m].idle = idle]
  <2>1. /\ \A x \in Creatures \ {m} : SameMind(w, u, x)
        /\ u[m].idle = idle /\ u[m].attacked = w[m].attacked /\ u[m].checked = w[m].checked
        /\ u[m].vec = w[m].vec /\ u[m].targets = w[m].targets
    BY OneMind
  <2>2. u \in Worlds /\ SameFrame(w, u)
    BY OneFieldCalm DEF Calm
  <2>3. Calm(w, SetIdle(w, m, idle))
    BY SetIdleCalm
  <2>4. SetIdle(w, m, idle) = IF idle THEN RemoveCheck(ClearLists(u, m), m) ELSE AddCheck(u, m)
    BY <1>2 DEF SetIdle
  <2> HIDE DEF u
  <2>5. CASE idle
    <3> DEFINE t == ClearLists(u, m)
               v == RemoveCheck(t, m)
    <3>0. t \in Worlds /\ Relisted(u, t, m, {})
      BY <2>2, ClearListsMind, ClearListsCalm DEF Calm
    <3>1. /\ t \in Worlds
          /\ \A x \in Creatures :
               /\ t[x].idle = u[x].idle /\ t[x].attacked = u[x].attacked
               /\ t[x].checked = u[x].checked /\ t[x].vec = u[x].vec
               /\ t[x].targets = (IF x = m THEN {} ELSE u[x].targets)
      BY <3>0 DEF Relisted
    <3> HIDE DEF t
    <3>2. /\ \A x \in Creatures \ {m} : SameMind(t, v, x)
          /\ v[m].idle = t[m].idle /\ v[m].attacked = t[m].attacked /\ v[m].targets = t[m].targets
      BY <3>1, OneMind DEF RemoveCheck, SameMind
    <3>3. v = SetIdle(w, m, idle)
      BY <2>4, <2>5 DEF t
    <3> HIDE DEF v
    <3>4. v \in Worlds /\ SameFrame(w, v)
      BY <2>3, <3>3 DEF Calm
    <3>5. v[m].idle = TRUE /\ v[m].alive = TRUE /\ v[m].targets = {}
      BY <1>s, <1>2, <2>1, <2>5, <3>1, <3>2, <3>4 DEF SameFrame
    <3>6. Heard(v, m) /\ Bored(v, m)
      BY <3>5 DEF Heard, Bored
    <3>7. \A x \in Creatures \ {m} : SameMind(w, v, x)
      BY <2>1, <3>1, <3>2 DEF SameMind
    <3>8. v[m].attacked = w[m].attacked
      BY <2>1, <3>1, <3>2
    <3>9. Minds(w, v, m, E)
      BY <2>5, <3>4, <3>6, <3>7, <3>8 DEF Minds
    <3> QED
      BY <2>5, <3>3, <3>5, <3>6, <3>9
  <2>6. CASE ~idle
    <3> DEFINE v == AddCheck(u, m)
    <3>1. /\ \A x \in Creatures \ {m} : SameMind(u, v, x)
          /\ v[m].idle = u[m].idle /\ v[m].attacked = u[m].attacked /\ v[m].targets = u[m].targets
          /\ ~u[m].removed => v[m].checked /\ v[m].vec # -1
      BY <2>2, AddCheckMind
    <3>2. v = SetIdle(w, m, idle)
      BY <2>4, <2>6
    <3> HIDE DEF v
    <3>3. v \in Worlds /\ SameFrame(w, v) /\ ~u[m].removed
      BY <1>2, <2>2, <2>3, <3>2 DEF Calm, SameFrame
    <3>4. v[m].idle = idle /\ ~v[m].idle /\ v[m].checked /\ v[m].vec # -1 /\ v[m].targets = w[m].targets
          /\ v[m].attacked = w[m].attacked
      BY <2>1, <2>6, <3>1, <3>3
    <3>5. Heard(v, m) /\ Bored(v, m)
      BY <3>4 DEF Heard, Bored
    <3>6. \A x \in Creatures \ {m} : SameMind(w, v, x)
      BY <2>1, <3>1 DEF SameMind
    <3>7. Minds(w, v, m, E)
      BY <3>3, <3>4, <3>5, <3>6 DEF Minds
    <3> QED
      BY <1>2, <2>6, <3>2, <3>4, <3>5, <3>7
  <2> QED
    BY <2>5, <2>6
<1> QED
  BY <1>1, <1>2

(* Monster::updateIdleStatus: a monster on its own falls asleep without a target. *)
LEMMA UpdateIdleMinds ==
  ASSUME NEW w \in Worlds, NEW m \in Creatures, NEW E
  PROVE  /\ Minds(w, UpdateIdle(w, m), m, E)
         /\ ~w[m].removed => Bored(UpdateIdle(w, m), m)
         /\ ~isSummon(w, m) => UpdateIdle(w, m)[m].targets = w[m].targets
<1> DEFINE b == IF isSummon(w, m)
                THEN ~w[m].inRange \/ (w[m].master \in MonsterIds /\ w[w[m].master].idle)
                ELSE w[m].targets = {}
           v == UpdateIdle(w, m)
<1>1. b \in BOOLEAN /\ (b => isSummon(w, m) \/ w[m].targets \subseteq E)
  OBVIOUS
<1>2. v = SetIdle(w, m, b)
  BY DEF UpdateIdle
<1>3. ~isSummon(w, m) /\ b => w[m].targets = {}
  OBVIOUS
<1> HIDE DEF b, v
<1>4. /\ Minds(w, v, m, E) /\ (~w[m].removed => Bored(v, m))
      /\ ~w[m].removed /\ w[m].alive => v[m].idle = b
      /\ ~b => v[m].targets = w[m].targets
  BY <1>1, <1>2, SetIdleMinds
<1>5. ASSUME ~isSummon(w, m) PROVE v[m].targets = w[m].targets
  <2>1. CASE ~b
    BY <1>4, <2>1
  <2>2. CASE w[m].removed \/ ~w[m].alive
    BY <1>2, <2>2 DEF SetIdle
  <2>3. CASE b /\ ~w[m].removed /\ w[m].alive
    <3>1. Bored(v, m) /\ v[m].idle /\ v[m].alive /\ ~isSummon(v, m)
      BY <1>4, <1>5, <2>3 DEF Minds, SameFrame, isSummon
    <3> QED
      BY <1>3, <1>5, <2>3, <3>1 DEF Bored
  <2> QED
    BY <2>1, <2>2, <2>3
<1> QED
  BY <1>4, <1>5 DEF v

(* A change of one list. *)
LEMMA ListMinds ==
  ASSUME NEW w \in Worlds, NEW u \in Worlds, Recounted(w, u), NEW m \in Creatures,
         NEW T \in SUBSET Creatures, NEW v,
         \/ v = [u EXCEPT ![m].targets = T]
         \/ T = w[m].targets /\ \E F \in SUBSET Creatures : v = [u EXCEPT ![m].friends = F]
  PROVE  Relisted(w, v, m, T)
<1>1. ASSUME NEW c \in Creatures
      PROVE  /\ u[c] \in Fields /\ u[c].idle = w[c].idle /\ u[c].attacked = w[c].attacked
             /\ u[c].checked = w[c].checked /\ u[c].vec = w[c].vec /\ u[c].targets = w[c].targets
  <2>1. w[c] \in Fields /\ u[c] \in Fields
    BY DEF Worlds
  <2>2. u[c] = [w[c] EXCEPT !.refs = u[c].refs]
    BY DEF Recounted
  <2> QED
    BY <2>1, <2>2 DEF Fields
<1>2. CASE v = [u EXCEPT ![m].targets = T]
  <2>1. \A c \in Creatures \ {m} : v[c] = u[c]
    BY <1>2 DEF Worlds
  <2>2. v[m] = [u[m] EXCEPT !.targets = T]
    BY <1>2 DEF Worlds
  <2>3. /\ v[m].idle = u[m].idle /\ v[m].attacked = u[m].attacked
        /\ v[m].checked = u[m].checked /\ v[m].vec = u[m].vec /\ v[m].targets = T
    BY <1>1, <2>2 DEF Fields
  <2> QED
    BY <1>1, <2>1, <2>3 DEF Relisted
<1>3. ASSUME NEW F \in SUBSET Creatures, v = [u EXCEPT ![m].friends = F], T = w[m].targets
      PROVE  Relisted(w, v, m, T)
  <2>1. \A c \in Creatures \ {m} : v[c] = u[c]
    BY <1>3 DEF Worlds
  <2>2. v[m] = [u[m] EXCEPT !.friends = F]
    BY <1>3 DEF Worlds
  <2>3. /\ v[m].idle = u[m].idle /\ v[m].attacked = u[m].attacked
        /\ v[m].checked = u[m].checked /\ v[m].vec = u[m].vec /\ v[m].targets = u[m].targets
    BY <1>1, <2>2 DEF Fields
  <2> QED
    BY <1>1, <1>3, <2>1, <2>3 DEF Relisted
<1> QED
  BY <1>2, <1>3

(* A calm change of lists that drops of the living players it sees none but those
   in E is one of this monster alone. *)
LEMMA RelistMinds ==
  ASSUME NEW w \in Worlds, NEW v, Calm(w, v), NEW m \in Creatures, NEW T, Relisted(w, v, m, T), NEW E,
         \A p \in w[m].targets \ E :
           ~isSummon(w, m) /\ p \in PlayerIds /\ w[p].alive /\ w[p].at = w[m].at => p \in T
  PROVE  Minds(w, v, m, E) /\ v[m].idle = w[m].idle /\ v[m].targets = T
<1>1. v \in Worlds /\ SameFrame(w, v)
  BY DEF Calm
<1>2. \A x \in Creatures \ {m} : SameMind(w, v, x)
  BY DEF Relisted, SameMind
<1>3. /\ v[m].attacked = w[m].attacked /\ v[m].targets = T /\ v[m].idle = w[m].idle
      /\ v[m].checked = w[m].checked /\ v[m].vec = w[m].vec
  BY DEF Relisted
<1>4. Heard(w, m) => Heard(v, m)
  BY <1>1, <1>3 DEF Heard, SameFrame
<1> QED
  BY <1>1, <1>2, <1>3, <1>4 DEF Minds

(* Monster::onCreatureFound: a player in sight is a target from then on. *)
LEMMA BefriendMinds ==
  ASSUME NEW w \in Worlds, NEW m \in Creatures, NEW c \in Creatures
  PROVE  Minds(w, Befriend(w, m, c), m, {}) /\ Befriend(w, m, c)[m].targets = w[m].targets
<1>1. CASE ~(isFriend(w, m, c) /\ c \notin w[m].friends)
  BY <1>1, MindsSelf DEF Befriend
<1>2. CASE isFriend(w, m, c) /\ c \notin w[m].friends
  <2> DEFINE u == AddRef(w, c)
             F == w[m].friends \cup {c}
             T == w[m].targets
             v == Befriend(w, m, c)
  <2>1. u \in Worlds /\ Recounted(w, u) /\ u[m].friends = w[m].friends
    BY AddRefIs
  <2>2. F \in SUBSET Creatures /\ T \in SUBSET Creatures
    BY FieldsTyped
  <2>3. v = [u EXCEPT ![m].friends = F]
    BY <1>2, <2>1 DEF Befriend
  <2>4. Calm(w, v)
    BY BefriendCalm
  <2>5. T = w[m].targets /\ w[m].targets \ {} \subseteq T
    OBVIOUS
  <2> HIDE DEF u, F, v, T
  <2>6. Relisted(w, v, m, T)
    BY <2>1, <2>2, <2>3, <2>5, ListMinds
  <2>7. Minds(w, v, m, {}) /\ v[m].targets = T
    BY <2>4, <2>5, <2>6, RelistMinds
  <2> QED
    BY <2>7, <2>5 DEF v
<1> QED
  BY <1>1, <1>2

LEMMA OpposeMinds ==
  ASSUME NEW w \in Worlds, NEW m \in Creatures, NEW c \in Creatures
  PROVE  /\ Minds(w, Oppose(w, m, c), m, {})
         /\ w[m].targets \subseteq Oppose(w, m, c)[m].targets
         /\ c \in PlayerIds => c \in Oppose(w, m, c)[m].targets
<1>0. c \in PlayerIds => isOpponent(w, m, c)
  BY DEF isOpponent
<1>1. CASE ~(isOpponent(w, m, c) /\ c \notin w[m].targets)
  BY <1>0, <1>1, MindsSelf DEF Oppose
<1>2. CASE isOpponent(w, m, c) /\ c \notin w[m].targets
  <2> DEFINE u == AddRef(w, c)
             T == w[m].targets \cup {c}
             v == Oppose(w, m, c)
  <2>1. u \in Worlds /\ Recounted(w, u) /\ u[m].targets = w[m].targets
    BY AddRefIs
  <2>2. T \in SUBSET Creatures
    BY FieldsTyped
  <2>3. v = [u EXCEPT ![m].targets = T]
    BY <1>2, <2>1 DEF Oppose
  <2>4. Calm(w, v)
    BY OpposeCalm
  <2>5. w[m].targets \subseteq T /\ w[m].targets \ {} \subseteq T /\ c \in T
    OBVIOUS
  <2> HIDE DEF u, v, T
  <2>6. Relisted(w, v, m, T)
    BY <2>1, <2>2, <2>3, ListMinds
  <2>7. Minds(w, v, m, {}) /\ v[m].targets = T
    BY <2>4, <2>5, <2>6, RelistMinds
  <2> QED
    BY <2>7, <2>5 DEF v
<1> QED
  BY <1>1, <1>2

LEMMA OnFoundMinds ==
  ASSUME NEW w \in Worlds, NEW m \in Creatures, NEW c \in Creatures
  PROVE  /\ Minds(w, OnFound(w, m, c), m, {})
         /\ ~w[m].removed => Bored(OnFound(w, m, c), m)
         /\ ~isSummon(w, m) => /\ w[m].targets \subseteq OnFound(w, m, c)[m].targets
                               /\ c \in PlayerIds => c \in OnFound(w, m, c)[m].targets
<1> DEFINE v == Befriend(w, m, c)
           u == Oppose(v, m, c)
           t == UpdateIdle(u, m)
<1>1. Minds(w, v, m, {}) /\ v[m].targets = w[m].targets /\ v \in Worlds
  BY BefriendMinds DEF Minds
<1>2. Minds(v, u, m, {}) /\ v[m].targets \subseteq u[m].targets /\ u \in Worlds
      /\ (c \in PlayerIds => c \in u[m].targets)
  <2> HIDE DEF v
  <2> QED
    BY <1>1, OpposeMinds DEF Minds
<1>3. /\ Minds(u, t, m, {}) /\ (~u[m].removed => Bored(t, m))
      /\ (~isSummon(u, m) => t[m].targets = u[m].targets)
  <2> HIDE DEF u
  <2> QED
    BY <1>2, UpdateIdleMinds
<1>4. t = OnFound(w, m, c)
  BY DEF OnFound
<1> HIDE DEF v, u, t
<1>5. u[m].removed = w[m].removed /\ (isSummon(u, m) <=> isSummon(w, m))
  BY <1>1, <1>2 DEF Minds, SameFrame, isSummon
<1>6. Minds(w, t, m, {})
  BY <1>1, <1>2, <1>3, MindsThen
<1> QED
  BY <1>1, <1>2, <1>3, <1>4, <1>5, <1>6

(* Monster::updateTargetList: all the living players it sees are targets then. *)
LEMMA FindAllMinds ==
  ASSUME NEW w \in Worlds, NEW m \in Creatures, NEW S \in SUBSET Creatures
  PROVE  /\ Minds(w, FindAll(w, m, S), m, {})
         /\ ~isSummon(w, m) => \A p \in S \cap PlayerIds : p \in FindAll(w, m, S)[m].targets
<1> DEFINE G == {q \in (SUBSET S) \X Worlds :
                   /\ Minds(w, q[2], m, {})
                   /\ ~isSummon(w, m) => \A p \in q[1] \cap PlayerIds : p \in q[2][m].targets}
<1>1. <<{}, w>> \in G
  BY MindsSelf
<1>2. ASSUME NEW s \in SUBSET S, NEW v \in Worlds, s # {}, <<s \ {Pick(s)}, v>> \in G
      PROVE  <<s, OnFound(v, m, Pick(s))>> \in G
  <2> DEFINE c == Pick(s)
             u == OnFound(v, m, c)
  <2>1. c \in s /\ c \in Creatures
    BY <1>2 DEF Pick
  <2>2. Minds(w, v, m, {}) /\ (~isSummon(w, m) => \A p \in (s \ {c}) \cap PlayerIds : p \in v[m].targets)
    BY <1>2
  <2> HIDE DEF c
  <2>3. /\ Minds(v, u, m, {})
        /\ ~isSummon(v, m) => /\ v[m].targets \subseteq u[m].targets
                              /\ c \in PlayerIds => c \in u[m].targets
    BY <2>1, OnFoundMinds
  <2> HIDE DEF u
  <2>4. isSummon(v, m) <=> isSummon(w, m)
    BY <2>2 DEF Minds, SameFrame, isSummon
  <2>5. Minds(w, u, m, {}) /\ u \in Worlds
    BY <2>2, <2>3, MindsThen DEF Minds
  <2>6. ~isSummon(w, m) => \A p \in s \cap PlayerIds : p \in u[m].targets
    BY <2>2, <2>3, <2>4
  <2>7. <<s, u>> \in G
    BY <2>5, <2>6
  <2> QED
    BY <2>7 DEF u, c
<1>3. G \in SUBSET ((SUBSET S) \X Worlds)
  OBVIOUS
<1>4. <<S, FindAll(w, m, S)>> \in G
  <2> HIDE DEF G
  <2> QED
    BY <1>1, <1>2, <1>3, FindAllFold
<1> QED
  BY <1>4

LEMMA UpdateTargetListMinds ==
  ASSUME NEW w \in Worlds, NEW m \in Creatures
  PROVE  /\ Minds(w, UpdateTargetList(w, m), m, {})
         /\ \A p \in PlayerIds \ {m} : Knows(UpdateTargetList(w, m), m, p)
<1> DEFINE lost(S) == {c \in S : ~w[c].alive \/ w[c].at # w[m].at}
           A == lost(w[m].friends)
           B == lost(w[m].targets)
           v == ForAll(UnRef, ForAll(UnRef, w, A), B)
           F == w[m].friends \ A
           T == w[m].targets \ B
           u == [v EXCEPT ![m].friends = F, ![m].targets = T]
           S == At(w, w[m].at) \ {m}
           t == FindAll(u, m, S)
<1>1. w[m].targets \in SUBSET Creatures /\ w[m].friends \in SUBSET Creatures
  BY FieldsTyped
<1>2. A \in SUBSET Creatures /\ B \in SUBSET Creatures /\ F \in SUBSET Creatures /\ T \in SUBSET Creatures
      /\ S \in SUBSET Creatures
  BY <1>1 DEF At
<1>3. /\ v \in Worlds /\ Recounted(w, v)
      /\ \A c \in Creatures : v[c].refs = w[c].refs - Flag(c \in A) - Flag(c \in B)
  <2> HIDE DEF A, B
  <2> QED
    BY <1>2, LessTwice
<1>4. UpdateTargetList(w, m) = t
  <2>1. v[m].friends = w[m].friends /\ v[m].targets = w[m].targets
    <3> HIDE DEF v
    <3>1. v[m] = [w[m] EXCEPT !.refs = v[m].refs]
      BY <1>3 DEF Recounted
    <3>2. w[m] \in Fields
      BY DEF Worlds
    <3> QED
      BY <3>1, <3>2 DEF Fields
  <2>2. v \in [Creatures -> Fields]
    BY <1>3 DEF Worlds
  <2> QED
    BY <2>1, <2>2 DEF UpdateTargetList, FindAll
<1>5. Calm(w, u)
  <2>1. ASSUME NEW c \in Creatures
        PROVE  v[c].refs - Flag(c \in T) - Flag(c \in F)
                 = w[c].refs - Flag(c \in w[m].targets) - Flag(c \in w[m].friends)
    <3>1. w[c].refs \in Int
      BY FieldsTyped
    <3>2. v[c].refs = w[c].refs - Flag(c \in A) - Flag(c \in B)
      BY <1>3
    <3>3. Flag(c \in A) + Flag(c \in F) = Flag(c \in w[m].friends)
      BY DEF Flag
    <3>4. Flag(c \in B) + Flag(c \in T) = Flag(c \in w[m].targets)
      BY DEF Flag
    <3>5. /\ Flag(c \in A) \in Int /\ Flag(c \in B) \in Int
          /\ Flag(c \in F) \in Int /\ Flag(c \in T) \in Int
          /\ Flag(c \in w[m].friends) \in Int /\ Flag(c \in w[m].targets) \in Int
      BY DEF Flag
    <3>6. v[c].refs \in Int
      BY <1>3, FieldsTyped
    <3> HIDE DEF A, B, F, T, v
    <3> QED
      BY <3>1, <3>2, <3>3, <3>4, <3>5, <3>6, Restored
  <2> HIDE DEF A, B, F, T, v
  <2> QED
    BY <1>2, <1>3, <2>1, RelistCalm
<1>6. Relisted(w, u, m, T)
  <2>1. u = [v EXCEPT ![m].friends = F, ![m].targets = T]
    OBVIOUS
  <2> HIDE DEF A, B, F, T, v, u
  <2> QED
    BY <1>2, <1>3, <2>1, RelistMind
<1>7. \A p \in w[m].targets \ {} :
           ~isSummon(w, m) /\ p \in PlayerIds /\ w[p].alive /\ w[p].at = w[m].at => p \in T
  OBVIOUS
<1>8. \A p \in PlayerIds \ {m} : Sees(w, m, p) => p \in S
  BY DEF Sees, At, Creatures
<1> HIDE DEF A, B, F, T, v, u, S
<1>9. Minds(w, u, m, {}) /\ u \in Worlds
  BY <1>5, <1>6, <1>7, RelistMinds DEF Calm
<1>10. /\ Minds(u, t, m, {})
       /\ ~isSummon(u, m) => \A p \in S \cap PlayerIds : p \in t[m].targets
  BY <1>2, <1>9, FindAllMinds
<1> HIDE DEF t
<1>11. Minds(w, t, m, {})
  BY <1>9, <1>10, MindsThen
<1>12. ASSUME NEW p \in PlayerIds \ {m} PROVE Knows(t, m, p)
  <2> SUFFICES ASSUME ~isSummon(t, m), Sees(t, m, p) PROVE p \in t[m].targets
    BY DEF Knows
  <2>1. p \in Creatures
    BY DEF Creatures
  <2>2. SameFrame(w, t) /\ SameFrame(w, u)
    BY <1>9, <1>11 DEF Minds
  <2>3. Sees(w, m, p) /\ ~isSummon(u, m)
    BY <2>1, <2>2 DEF SameFrame, Sees, Placed, isSummon
  <2> QED
    BY <1>8, <1>10, <2>3
<1> QED
  BY <1>4, <1>11, <1>12

(* Monster::onCreatureLeave forgets c and falls asleep without another target. *)
LEMMA MasterLeftMinds ==
  ASSUME NEW w \in Worlds, NEW m \in Creatures, NEW c \in Creatures
  PROVE  /\ Minds(w, MasterLeft(w, m, c), m, {})
         /\ ~w[m].removed /\ Bored(w, m) => Bored(MasterLeft(w, m, c), m)
<1>1. CASE ~(isSummon(w, m) /\ w[m].master = c)
  BY <1>1, MindsSelf DEF MasterLeft
<1>2. CASE isSummon(w, m) /\ w[m].master = c
  <2> DEFINE v == [w EXCEPT ![m].inRange = FALSE]
             u == UpdateIdle(v, m)
  <2>1. MasterLeft(w, m, c) = u
    BY <1>2 DEF MasterLeft
  <2>2. v \in Worlds /\ SameFrame(w, v)
    BY OneFieldCalm DEF Calm
  <2>3. \A x \in Creatures : SameMind(w, v, x)
    BY DEF SameMind, Worlds, Fields
  <2> HIDE DEF v
  <2>4. Minds(w, v, m, {}) /\ v[m].removed = w[m].removed
    BY <2>2, <2>3, QuietMinds DEF SameFrame
  <2>5. Minds(v, u, m, {}) /\ (~v[m].removed => Bored(u, m))
    BY <2>2, UpdateIdleMinds
  <2> HIDE DEF u
  <2> QED
    BY <2>1, <2>4, <2>5, MindsThen
<1> QED
  BY <1>1, <1>2

LEMMA FriendLeftMinds ==
  ASSUME NEW w \in Worlds, NEW m \in Creatures, NEW c \in Creatures
  PROVE  /\ Minds(w, FriendLeft(w, m, c), m, {})
         /\ Bored(w, m) => Bored(FriendLeft(w, m, c), m)
<1>1. CASE ~(isFriend(w, m, c) /\ c \in w[m].friends)
  BY <1>1, MindsSelf DEF FriendLeft
<1>2. CASE isFriend(w, m, c) /\ c \in w[m].friends
  <2> DEFINE u == UnRef(w, c)
             F == w[m].friends \ {c}
             T == w[m].targets
             v == FriendLeft(w, m, c)
  <2>1. u \in Worlds /\ Recounted(w, u) /\ u[m].friends = w[m].friends
    BY UnRefCounts
  <2>2. F \in SUBSET Creatures /\ T \in SUBSET Creatures
    BY FieldsTyped
  <2>3. v = [u EXCEPT ![m].friends = F]
    BY <1>2, <2>1 DEF FriendLeft
  <2>4. Calm(w, v)
    BY FriendLeftCalm
  <2>5. T = w[m].targets /\ w[m].targets \ {} \subseteq T
    OBVIOUS
  <2> HIDE DEF u, F, v, T
  <2>6. Relisted(w, v, m, T)
    BY <2>1, <2>2, <2>3, <2>5, ListMinds
  <2>7. Minds(w, v, m, {}) /\ v[m].targets = T /\ v[m].idle = w[m].idle
    BY <2>4, <2>5, <2>6, RelistMinds
  <2>8. Bored(w, m) => Bored(v, m)
    BY <2>5, <2>7 DEF Bored, Minds, SameFrame, isSummon
  <2> QED
    BY <2>7, <2>8 DEF v
<1> QED
  BY <1>1, <1>2

LEMMA OpponentLeftMinds ==
  ASSUME NEW w \in Worlds, NEW m \in Creatures, NEW c \in Creatures
  PROVE  /\ Minds(w, OpponentLeft(w, m, c), m, {c})
         /\ ~w[m].removed /\ Bored(w, m) => Bored(OpponentLeft(w, m, c), m)
<1>1. CASE ~(isOpponent(w, m, c) /\ c \in w[m].targets)
  BY <1>1, MindsSelf DEF OpponentLeft
<1>2. CASE isOpponent(w, m, c) /\ c \in w[m].targets
  <2> DEFINE u == UnRef(w, c)
             T == w[m].targets \ {c}
             v == [u EXCEPT ![m].targets = T]
             t == IdleIfAlone(v, m)
  <2>1. /\ u \in Worlds /\ Recounted(w, u) /\ u[m].targets = w[m].targets
        /\ \A d \in Creatures : u[d].refs = w[d].refs - Flag(d = c)
    BY UnRefCounts
  <2>2. T \in SUBSET Creatures
    BY FieldsTyped
  <2>3. OpponentLeft(w, m, c) = t
    BY <1>2, <2>1 DEF OpponentLeft
  <2>v. v = [u EXCEPT ![m].targets = T]
    OBVIOUS
  <2> HIDE DEF u
  <2>4. ASSUME NEW d \in Creatures
        PROVE  u[d].refs - Flag(d \in T) = w[d].refs - Flag(d \in w[m].targets)
    <3>1. w[d].refs \in Int
      BY FieldsTyped
    <3> QED
      BY <1>2, <2>1, <3>1 DEF Flag
  <2>5. w[m].targets \ {c} \subseteq T
    OBVIOUS
  <2> HIDE DEF T
  <2>6. Calm(w, v)
    BY <2>1, <2>2, <2>4, TargetsCalm
  <2> HIDE DEF v
  <2>7. Relisted(w, v, m, T)
    BY <2>1, <2>2, <2>v, ListMinds
  <2>8. Minds(w, v, m, {c}) /\ v[m].targets = T /\ v[m].idle = w[m].idle /\ v \in Worlds
    BY <2>5, <2>6, <2>7, RelistMinds DEF Minds
  <2>9. Minds(v, t, m, {c}) /\ (v[m].targets = {} /\ ~v[m].removed => Bored(t, m))
        /\ (v[m].targets # {} => t = v)
    BY <2>8, UpdateIdleMinds, MindsSelf DEF IdleIfAlone
  <2> HIDE DEF t
  <2>10. Minds(w, t, m, {c})
    BY <2>8, <2>9, MindsThen
  <2>11. ASSUME ~w[m].removed, Bored(w, m) PROVE Bored(t, m)
    <3>1. v[m].removed = w[m].removed /\ v[m].alive = w[m].alive /\ v[m].master = w[m].master
      BY <2>8 DEF Minds, SameFrame
    <3>2. CASE v[m].targets # {}
      <4>1. w[m].targets # {}
        BY <1>2
      <4> QED
        BY <2>8, <2>9, <2>11, <3>1, <3>2, <4>1 DEF Bored, isSummon
    <3> QED
      BY <2>9, <2>11, <3>1, <3>2
  <2> QED
    BY <2>3, <2>10, <2>11
<1> QED
  BY <1>1, <1>2

LEMMA OnLeaveMinds ==
  ASSUME NEW w \in Worlds, NEW m \in Creatures, NEW c \in Creatures
  PROVE  /\ Minds(w, OnLeave(w, m, c), m, {c})
         /\ ~w[m].removed /\ Bored(w, m) => Bored(OnLeave(w, m, c), m)
<1> DEFINE v == MasterLeft(w, m, c)
           u == FriendLeft(v, m, c)
           t == OpponentLeft(u, m, c)
<1>1. Minds(w, v, m, {}) /\ (~w[m].removed /\ Bored(w, m) => Bored(v, m)) /\ v \in Worlds
  BY MasterLeftMinds DEF Minds
<1>2. Minds(v, u, m, {}) /\ (Bored(v, m) => Bored(u, m)) /\ u \in Worlds
  <2> HIDE DEF v
  <2> QED
    BY <1>1, FriendLeftMinds DEF Minds
<1>3. Minds(u, t, m, {c}) /\ (~u[m].removed /\ Bored(u, m) => Bored(t, m))
  <2> HIDE DEF u
  <2> QED
    BY <1>2, OpponentLeftMinds
<1>4. t = OnLeave(w, m, c)
  BY DEF OnLeave
<1> HIDE DEF v, u, t
<1>5. u[m].removed = w[m].removed
  BY <1>1, <1>2 DEF Minds, SameFrame
<1>6. Minds(w, u, m, {c})
  <2>1. Minds(w, u, m, {})
    BY <1>1, <1>2, MindsThen
  <2> QED
    BY <2>1 DEF Minds
<1>7. Minds(w, t, m, {c})
  BY <1>3, <1>6, MindsThen
<1> QED
  BY <1>1, <1>2, <1>3, <1>4, <1>5, <1>7

(* Monster::onCreatureEnter: a player who comes is a target then. *)
LEMMA OnEnterMinds ==
  ASSUME NEW w \in Worlds, NEW m \in Creatures, NEW c \in Creatures
  PROVE  /\ Minds(w, OnEnter(w, m, c), m, {})
         /\ ~w[m].removed => Bored(OnEnter(w, m, c), m)
         /\ Knows(OnEnter(w, m, c), m, c) \/ c \notin PlayerIds
<1> DEFINE x == [w EXCEPT ![m].inRange = TRUE]
           v == IF w[m].master = c THEN UpdateIdle(x, m) ELSE w
           u == OnFound(v, m, c)
<1>1. x \in Worlds /\ SameFrame(w, x)
  BY OneFieldCalm DEF Calm
<1>2. \A y \in Creatures : SameMind(w, x, y)
  BY DEF SameMind, Worlds, Fields
<1>v. v = IF w[m].master = c THEN UpdateIdle(x, m) ELSE w
  OBVIOUS
<1>u. u = OnEnter(w, m, c)
  BY DEF OnEnter
<1> HIDE DEF x, v
<1>3. Minds(w, x, m, {})
  BY <1>1, <1>2, QuietMinds
<1>4. Minds(x, UpdateIdle(x, m), m, {})
  BY <1>1, UpdateIdleMinds
<1>5. Minds(w, UpdateIdle(x, m), m, {})
  BY <1>3, <1>4, MindsThen
<1>6. Minds(w, v, m, {}) /\ v \in Worlds
  BY <1>5, <1>v, MindsSelf DEF Minds
<1>7. /\ Minds(v, u, m, {}) /\ (~v[m].removed => Bored(u, m))
      /\ ~isSummon(v, m) => (c \in PlayerIds => c \in u[m].targets)
  BY <1>6, OnFoundMinds
<1> HIDE DEF u
<1>8. Minds(w, u, m, {})
  BY <1>6, <1>7, MindsThen
<1>9. v[m].removed = w[m].removed /\ (isSummon(v, m) <=> isSummon(u, m))
  BY <1>6, <1>7 DEF Minds, SameFrame, isSummon
<1> QED
  BY <1>7, <1>8, <1>9, <1>u DEF Knows
-----------------------------------------------------------------------------
(* What changes nothing that others see: whoever has something to do stays in a
   vector, whoever aims at one it sees goes on, and of the players that a monster
   knows it forgets none but the pairs in N. *)
Tends(w, v, N) ==
  /\ v \in Worlds /\ SameScene(w, v)
  /\ \A x \in Creatures :
       /\ Heard(w, x) => Heard(v, x)
       /\ Placed(w, x) /\ Bored(w, x) => Bored(v, x)
       /\ x \in PlayerIds => v[x].idle = w[x].idle
       /\ \A e : Aims(w, x, e) => Aims(v, x, e)
       /\ \A p \in PlayerIds : <<x, p>> \notin N /\ Knows(w, x, p) => Knows(v, x, p)

LEMMA TendsSelf == ASSUME NEW w \in Worlds, NEW N PROVE Tends(w, w, N)
  BY DEF Tends, SameScene

(* Such steps compose. *)
LEMMA TendsThen ==
  ASSUME NEW w \in Worlds, NEW v, NEW u, NEW N, Tends(w, v, N), Tends(v, u, N)
  PROVE  Tends(w, u, N)
<1>1. u \in Worlds /\ SameScene(w, u)
  BY DEF Tends, SameScene
<1>2. \A x \in Creatures : Placed(v, x) = Placed(w, x)
  BY DEF Tends, SameScene, Placed
<1>3. ASSUME NEW x \in Creatures
      PROVE  /\ Heard(w, x) => Heard(u, x)
             /\ Placed(w, x) /\ Bored(w, x) => Bored(u, x)
             /\ x \in PlayerIds => u[x].idle = w[x].idle
             /\ \A e : Aims(w, x, e) => Aims(u, x, e)
             /\ \A p \in PlayerIds : <<x, p>> \notin N /\ Knows(w, x, p) => Knows(u, x, p)
  <2> HIDE DEF Heard, Bored, Aims, Knows, Placed
  <2>1. /\ Heard(w, x) => Heard(u, x)
        /\ Placed(w, x) /\ Bored(w, x) => Bored(u, x)
        /\ x \in PlayerIds => u[x].idle = w[x].idle
    BY <1>2 DEF Tends
  <2>2. \A e : Aims(w, x, e) => Aims(u, x, e)
    BY DEF Tends
  <2>3. \A p \in PlayerIds : <<x, p>> \notin N /\ Knows(w, x, p) => Knows(u, x, p)
    BY DEF Tends
  <2> QED
    BY <2>1, <2>2, <2>3
<1> QED
  BY <1>1, <1>3 DEF Tends

(* What they keep. *)
LEMMA TendsKeep ==
  ASSUME NEW w \in Worlds, NEW v, NEW N, Tends(w, v, N), NEW x \in Creatures
  PROVE  /\ Stirred(w, x) => Stirred(v, x)
         /\ \A e : Keen(w, x, e) /\ (\A p \in PlayerIds \ {e} : <<x, p>> \notin N) => Keen(v, x, e)
<1>0. /\ w[x].master \in Creatures \cup {NoCreature} /\ NoCreature \notin Creatures
  BY FieldsTyped, CreatureAssumption DEF Creatures
<1>1. \A d \in Creatures : Placed(v, d) = Placed(w, d)
  BY DEF Tends, Placed, SameScene
<1>2. ASSUME Stirred(w, x) PROVE Stirred(v, x)
  <2> SUFFICES ASSUME Placed(v, x) PROVE Stirred(v, x)
    BY DEF Stirred
  <2>1. /\ Heard(w, x) /\ Bored(w, x) /\ Serves(w, x) /\ (x \in PlayerIds => ~w[x].idle)
    BY <1>1, <1>2 DEF Stirred
  <2>2. Heard(v, x) /\ Bored(v, x) /\ (x \in PlayerIds => ~v[x].idle)
    BY <1>1, <2>1 DEF Tends
  <2>3. Serves(v, x)
    BY <1>0, <1>1, <2>1 DEF Serves, Tends, SameScene, isSummon
  <2> QED
    BY <2>2, <2>3 DEF Stirred
<1>3. ASSUME NEW e, Keen(w, x, e), \A p \in PlayerIds \ {e} : <<x, p>> \notin N PROVE Keen(v, x, e)
  BY <1>1, <1>3 DEF Keen, Tends
<1> QED
  BY <1>2, <1>3

(* Where no mind changes, nothing does. *)
LEMMA ScenesTend ==
  ASSUME NEW w \in Worlds, NEW v \in Worlds, SameScene(w, v), NEW N,
         \A x \in Creatures : SameMind(w, v, x)
  PROVE  Tends(w, v, N)
<1>1. \A x, d \in Creatures : Placed(v, d) = Placed(w, d) /\ Sees(v, x, d) = Sees(w, x, d)
  BY DEF Placed, Sees, SameScene
<1>2. ASSUME NEW x \in Creatures
      PROVE  /\ Heard(w, x) => Heard(v, x)
             /\ Placed(w, x) /\ Bored(w, x) => Bored(v, x)
             /\ x \in PlayerIds => v[x].idle = w[x].idle
  BY DEF Heard, Bored, SameMind, SameScene, isSummon
<1>3. ASSUME NEW x \in Creatures, NEW e, Aims(w, x, e) PROVE Aims(v, x, e)
  <2>1. w[x].attacked \in Creatures \cup {NoCreature} /\ v[x].attacked = w[x].attacked
    BY FieldsTyped DEF SameMind
  <2> QED
    BY <1>1, <1>3, <2>1 DEF Aims
<1>4. ASSUME NEW x \in Creatures, NEW p \in PlayerIds, Knows(w, x, p) PROVE Knows(v, x, p)
  <2>1. p \in Creatures
    BY DEF Creatures
  <2> QED
    BY <1>1, <1>4, <2>1 DEF Knows, SameMind, SameScene, isSummon
<1> QED
  BY <1>2, <1>3, <1>4 DEF Tends

(* A step of one monster's mind. *)
LEMMA MindsTend ==
  ASSUME NEW w \in Worlds, NEW v, NEW m \in MonsterIds, NEW E, Minds(w, v, m, E), NEW N,
         \A p \in E : <<m, p>> \in N, Placed(w, m) /\ Bored(w, m) => Bored(v, m)
  PROVE  Tends(w, v, N)
<1>0. m \in Creatures /\ m \notin PlayerIds
  BY CreatureAssumption DEF Creatures
<1>s. v \in Worlds /\ SameScene(w, v)
  BY DEF Minds, SameFrame, SameScene
<1>1. \A x, d \in Creatures : Placed(v, d) = Placed(w, d) /\ Sees(v, x, d) = Sees(w, x, d)
  BY <1>s DEF Placed, Sees, SameScene
<1>2. ASSUME NEW x \in Creatures
      PROVE  /\ Heard(w, x) => Heard(v, x)
             /\ Placed(w, x) /\ Bored(w, x) => Bored(v, x)
             /\ x \in PlayerIds => v[x].idle = w[x].idle
  <2>1. CASE x = m
    BY <1>0, <2>1 DEF Minds
  <2>2. CASE x # m
    <3>1. SameMind(w, v, x)
      BY <2>2 DEF Minds
    <3> QED
      BY <1>s, <3>1 DEF Heard, Bored, SameMind, SameScene, isSummon
  <2> QED
    BY <2>1, <2>2
<1>3. ASSUME NEW x \in Creatures, NEW e, Aims(w, x, e) PROVE Aims(v, x, e)
  <2>1. w[x].attacked \in Creatures \cup {NoCreature} /\ v[x].attacked = w[x].attacked
    BY FieldsTyped DEF SameMind, Minds
  <2> QED
    BY <1>1, <1>3, <2>1 DEF Aims
<1>4. ASSUME NEW x \in Creatures, NEW p \in PlayerIds, <<x, p>> \notin N, Knows(w, x, p)
      PROVE  Knows(v, x, p)
  <2> SUFFICES ASSUME x \in MonsterIds, v[x].alive, ~isSummon(v, x), Sees(v, x, p), v[p].alive
               PROVE  p \in v[x].targets
    BY DEF Knows
  <2>1. p \in Creatures
    BY DEF Creatures
  <2>2. w[x].alive /\ ~isSummon(w, x) /\ Sees(w, x, p) /\ w[p].alive
    BY <1>1, <1>s, <2>1 DEF SameScene, isSummon
  <2>3. p \in w[x].targets /\ w[p].at = w[x].at
    BY <1>4, <2>2 DEF Knows, Sees
  <2>4. CASE x = m
    BY <1>4, <2>2, <2>3, <2>4 DEF Minds
  <2>5. CASE x # m
    BY <2>3, <2>5 DEF Minds, SameMind
  <2> QED
    BY <2>4, <2>5
<1> QED
  BY <1>s, <1>2, <1>3, <1>4 DEF Tends

(* An order to attack d: whoever gets it attacks d if it is at its place, and
   nobody otherwise. *)
Orders(w, v, d) ==
  /\ Aimed(w, v)
  /\ \A x \in Creatures : v[x].attacked \in {w[x].attacked, NoCreature}
                          \/ (v[x].attacked = d /\ w[d].at = w[x].at)

LEMMA OrdersThen ==
  ASSUME NEW w \in Worlds, NEW v, NEW u, NEW d \in Creatures \cup {NoCreature},
         Orders(w, v, d), Orders(v, u, d)
  PROVE  Orders(w, u, d)
<1>1. Aimed(w, u)
  BY AimedThen DEF Orders
<1>2. SameFrame(w, v)
  BY AimedFields DEF Orders
<1>3. NoCreature \notin Creatures
  BY CreatureAssumption DEF Creatures
<1>4. ASSUME NEW x \in Creatures
      PROVE  u[x].attacked \in {w[x].attacked, NoCreature} \/ (u[x].attacked = d /\ w[d].at = w[x].at)
  <2>1. CASE d = NoCreature
    BY <2>1 DEF Orders
  <2>2. CASE d \in Creatures
    <3>1. v[x].at = w[x].at /\ v[d].at = w[d].at
      BY <1>2, <2>2 DEF SameFrame
    <3> QED
      BY <3>1 DEF Orders
  <2> QED
    BY <2>1, <2>2
<1> QED
  BY <1>1, <1>4 DEF Orders

LEMMA SetAttackedAloneOrders ==
  ASSUME NEW w \in Worlds, NEW c \in Creatures, NEW d \in Creatures \cup {NoCreature}
  PROVE  /\ Orders(w, SetAttackedAlone(w, c, d), d)
         /\ d = NoCreature => SetAttackedAlone(w, c, d)[c].attacked = NoCreature
<1> DEFINE v == SetAttackedAlone(w, c, d)
<1>1. Aimed(w, v)
  BY SetAttackedAloneAims
<1>2. v[c].attacked = (IF d = NoCreature \/ w[d].at = w[c].at THEN d ELSE NoCreature)
  <2>1. w[c] \in Fields
    BY DEF Worlds
  <2> QED
    BY <2>1 DEF SetAttackedAlone, Worlds, Fields
<1>3. \A x \in Creatures \ {c} : v[x] = w[x]
  BY DEF SetAttackedAlone, Worlds
<1> HIDE DEF v
<1>4. \A x \in Creatures : v[x].attacked \in {w[x].attacked, NoCreature}
                           \/ (v[x].attacked = d /\ w[d].at = w[x].at)
  BY <1>2, <1>3
<1> QED
  BY <1>1, <1>2, <1>4 DEF Orders, v

LEMMA OrderAllOrders ==
  ASSUME NEW w \in Worlds, NEW d \in Creatures \cup {NoCreature}, NEW S \in SUBSET Creatures
  PROVE  Orders(w, OrderAll(w, d, S), d)
<1> DEFINE G == {q \in (SUBSET S) \X Worlds : Orders(w, q[2], d)}
<1>1. <<{}, w>> \in G
  BY AimedSelf DEF Orders
<1>2. ASSUME NEW s \in SUBSET S, NEW v \in Worlds, s # {}, <<s \ {Pick(s)}, v>> \in G
      PROVE  <<s, SetAttackedAlone(v, Pick(s), d)>> \in G
  <2>1. Pick(s) \in Creatures
    BY <1>2 DEF Pick
  <2>2. Orders(v, SetAttackedAlone(v, Pick(s), d), d)
    BY <2>1, SetAttackedAloneOrders
  <2>3. Orders(w, SetAttackedAlone(v, Pick(s), d), d)
    BY <1>2, <2>2, OrdersThen
  <2>4. SetAttackedAlone(v, Pick(s), d) \in Worlds
    BY <2>2 DEF Orders, Aimed
  <2> QED
    BY <2>3, <2>4
<1>3. G \in SUBSET ((SUBSET S) \X Worlds)
  OBVIOUS
<1>4. <<S, OrderAll(w, d, S)>> \in G
  <2> HIDE DEF G
  <2> QED
    BY <1>1, <1>2, <1>3, OrderAllFold
<1> QED
  BY <1>4

LEMMA SetAttackedOrders ==
  ASSUME NEW w \in Worlds, NEW c \in Creatures, NEW d \in Creatures \cup {NoCreature}
  PROVE  /\ Orders(w, SetAttacked(w, c, d), d)
         /\ d = NoCreature => SetAttacked(w, c, d)[c].attacked = NoCreature
<1> DEFINE v == SetAttackedAlone(w, c, d)
           u == OrderAll(v, d, w[c].summons)
<1>1. Orders(w, v, d) /\ v \in Worlds /\ (d = NoCreature => v[c].attacked = NoCreature)
  BY SetAttackedAloneOrders DEF Orders, Aimed
<1>2. w[c].summons \in SUBSET Creatures
  BY FieldsTyped
<1>3. SetAttacked(w, c, d) \in {v, u}
  BY DEF SetAttacked, OrderAll
<1>4. Orders(v, u, d)
  <2> HIDE DEF v
  <2> QED
    BY <1>1, <1>2, OrderAllOrders
<1> HIDE DEF v, u
<1>5. d = NoCreature => u[c].attacked = NoCreature
  BY <1>1, <1>4 DEF Orders
<1> QED
  BY <1>1, <1>3, <1>4, <1>5, OrdersThen

(* An order to attack somebody in the world leaves all else alone, and whoever
   attacks another then sees it. *)
LEMMA OrdersTend ==
  ASSUME NEW w \in Worlds, NEW v, NEW d, d = NoCreature \/ Placed(w, d), Orders(w, v, d), NEW N
  PROVE  Tends(w, v, N)
<1>1. v \in Worlds /\ SameFrame(w, v)
  BY AimedFields DEF Orders
<1>2. SameScene(w, v)
  BY <1>1 DEF SameFrame, SameScene
<1>3. \A x, y \in Creatures : Placed(v, y) = Placed(w, y) /\ Sees(v, x, y) = Sees(w, x, y)
  BY <1>2 DEF Placed, Sees, SameScene
<1>4. ASSUME NEW x \in Creatures
      PROVE  /\ v[x].idle = w[x].idle /\ v[x].checked = w[x].checked /\ v[x].vec = w[x].vec
             /\ v[x].targets = w[x].targets
  <2>1. w[x] \in Fields /\ v[x] = [w[x] EXCEPT !.attacked = v[x].attacked]
    BY DEF Worlds, Orders, Aimed
  <2> QED
    BY <2>1 DEF Fields
<1>5. ASSUME NEW x \in Creatures
      PROVE  /\ Heard(w, x) => Heard(v, x)
             /\ Placed(w, x) /\ Bored(w, x) => Bored(v, x)
             /\ x \in PlayerIds => v[x].idle = w[x].idle
  BY <1>2, <1>4 DEF Heard, Bored, SameScene, isSummon
<1>6. ASSUME NEW x \in Creatures, NEW e, Aims(w, x, e) PROVE Aims(v, x, e)
  <2>1. w[x].attacked \in Creatures \cup {NoCreature} /\ v[x].attacked \in Creatures \cup {NoCreature}
    BY <1>1, FieldsTyped
  <2>2. CASE v[x].attacked \in {w[x].attacked, NoCreature}
    BY <1>3, <1>6, <2>1, <2>2 DEF Aims
  <2>3. CASE v[x].attacked = d /\ w[d].at = w[x].at /\ d # NoCreature
    <3>1. Sees(w, x, d) /\ d \in Creatures
      BY <2>1, <2>3 DEF Sees
    <3> QED
      BY <1>3, <2>3, <3>1 DEF Aims
  <2> QED
    BY <2>2, <2>3 DEF Orders
<1>7. ASSUME NEW x \in Creatures, NEW p \in PlayerIds, Knows(w, x, p) PROVE Knows(v, x, p)
  <2>1. p \in Creatures
    BY DEF Creatures
  <2> QED
    BY <1>2, <1>3, <1>4, <1>7, <2>1 DEF Knows, SameScene, isSummon
<1> QED
  BY <1>1, <1>2, <1>5, <1>6, <1>7 DEF Tends

(* Nobody attacks another than before. *)
Cools(w, v) == \A x \in Creatures : v[x].attacked \in {w[x].attacked, NoCreature}

LEMMA SetAttackedTends ==
  ASSUME NEW w \in Worlds, NEW c \in Creatures, NEW d \in Creatures \cup {NoCreature},
         d = NoCreature \/ Placed(w, d), NEW N
  PROVE  /\ Tends(w, SetAttacked(w, c, d), N)
         /\ d = NoCreature => Cools(w, SetAttacked(w, c, d)) /\ SetAttacked(w, c, d)[c].attacked = NoCreature
<1>1. Orders(w, SetAttacked(w, c, d), d) /\ (d = NoCreature => SetAttacked(w, c, d)[c].attacked = NoCreature)
  BY SetAttackedOrders
<1> QED
  BY <1>1, OrdersTend DEF Orders, Cools

LEMMA ForgetTends ==
  ASSUME NEW w \in Worlds, NEW c \in Creatures, NEW d \in Creatures, NEW N
  PROVE  /\ Tends(w, Forget(w, c, d), N) /\ Cools(w, Forget(w, c, d))
         /\ Forget(w, c, d)[c].attacked # d
<1>1. NoCreature \notin Creatures
  BY CreatureAssumption DEF Creatures
<1> QED
  BY <1>1, SetAttackedTends, TendsSelf DEF Forget, Cools

LEMMA SelectTargetTends ==
  ASSUME NEW w \in Worlds, NEW m \in Creatures, NEW d, NEW keen, NEW N
  PROVE  Tends(w, SelectTarget(w, m, d, keen), N)
<1>1. w[m].targets \in SUBSET Creatures
  BY FieldsTyped
<1> QED
  BY <1>1, SetAttackedTends, TendsSelf DEF SelectTarget, Sees

LEMMA LoseSightTends ==
  ASSUME NEW w \in Worlds, NEW c \in Creatures, NEW N
  PROVE  Tends(w, LoseSight(w, c), N) /\ Aims(LoseSight(w, c), c, NoCreature)
<1>1. CASE w[c].attacked # NoCreature /\ ~Sees(w, c, w[c].attacked)
  BY <1>1, SetAttackedTends DEF LoseSight, Aims
<1>2. CASE ~(w[c].attacked # NoCreature /\ ~Sees(w, c, w[c].attacked))
  BY <1>2, TendsSelf DEF LoseSight, Aims
<1> QED
  BY <1>1, <1>2

(* The minds of monsters that sit and think, or see another move. *)
LEMMA ThinkTends ==
  ASSUME NEW w \in Worlds, NEW m \in Creatures, NEW keen, NEW N
  PROVE  Tends(w, Think(w, m, keen), N)
<1> DEFINE v == UpdateIdle(w, m)
<1>1. CASE m \in PlayerIds
  BY <1>1, TendsSelf DEF Think
<1>2. CASE m \in MonsterIds
  <2>1. m \notin PlayerIds
    BY <1>2, CreatureAssumption
  <2>2. Minds(w, v, m, {}) /\ (Placed(w, m) => Bored(v, m))
    BY UpdateIdleMinds DEF Placed
  <2>3. Tends(w, v, N)
    <3> HIDE DEF v
    <3> QED
      BY <1>2, <2>2, MindsTend
  <2>4. Think(w, m, keen) = v \/ \E d : Think(w, m, keen) = SelectTarget(v, m, d, keen)
    BY <2>1 DEF Think, Hunt
  <2>5. \A d : Tends(v, SelectTarget(v, m, d, keen), N)
    <3>1. v \in Worlds
      BY <2>3 DEF Tends
    <3> HIDE DEF v
    <3> QED
      BY <3>1, SelectTargetTends
  <2> HIDE DEF v
  <2> QED
    BY <2>3, <2>4, <2>5, TendsThen
<1> QED
  BY <1>1, <1>2 DEF Creatures

LEMMA NearMasterTends ==
  ASSUME NEW w \in Worlds, NEW m \in Creatures, NEW b \in BOOLEAN, NEW N
  PROVE  Tends(w, [w EXCEPT ![m].inRange = b], N)
<1> DEFINE v == [w EXCEPT ![m].inRange = b]
<1>1. v \in Worlds /\ SameFrame(w, v)
  BY OneFieldCalm DEF Calm
<1>2. \A x \in Creatures : SameMind(w, v, x)
  BY DEF SameMind, Worlds, Fields
<1> HIDE DEF v
<1>3. SameScene(w, v)
  BY <1>1 DEF SameFrame, SameScene
<1>4. Tends(w, v, N)
  BY <1>1, <1>2, <1>3, ScenesTend
<1> QED
  BY <1>4 DEF v

(* A monster that looks around knows all living players it sees. *)
LEMMA LookAroundTends ==
  ASSUME NEW w \in Worlds, NEW m \in MonsterIds, NEW N
  PROVE  LET v == UpdateIdle(UpdateTargetList(w, m), m)
         IN  Tends(w, v, N) /\ (Placed(w, m) => Bored(v, m)) /\ \A p \in PlayerIds : Knows(v, m, p)
<1> DEFINE u == UpdateTargetList(w, m)
           v == UpdateIdle(u, m)
<1>0. m \in Creatures /\ m \notin PlayerIds
  BY CreatureAssumption DEF Creatures
<1>1. Minds(w, u, m, {}) /\ u \in Worlds /\ \A p \in PlayerIds \ {m} : Knows(u, m, p)
  BY <1>0, UpdateTargetListMinds DEF Minds
<1>2. Placed(w, m) => ~u[m].removed
  BY <1>0, <1>1 DEF Minds, SameFrame, Placed
<1> HIDE DEF u
<1>3. Minds(u, v, m, {}) /\ (~u[m].removed => Bored(v, m))
  BY <1>0, <1>1, UpdateIdleMinds
<1> HIDE DEF v
<1>4. Minds(w, v, m, {})
  BY <1>0, <1>1, <1>3, MindsThen
<1>5. Tends(w, v, N)
  BY <1>2, <1>3, <1>4, MindsTend
<1>p. Placed(u, m) => ~u[m].removed
  BY DEF Placed
<1>6. Tends(u, v, {})
  BY <1>1, <1>3, <1>p, MindsTend
<1>7. \A p \in PlayerIds : Knows(v, m, p)
  BY <1>0, <1>1, <1>6 DEF Tends
<1> QED
  BY <1>2, <1>3, <1>5, <1>7 DEF u, v

LEMMA OnMoveTends ==
  ASSUME NEW w \in Worlds, NEW c \in Creatures, NEW N
  PROVE  Tends(w, OnMove(w, c), N) /\ \A p \in PlayerIds : Knows(OnMove(w, c), c, p)
<1>1. CASE c \in PlayerIds
  BY <1>1, CreatureAssumption, TendsSelf DEF OnMove, Knows
<1>2. CASE c \in MonsterIds
  <2> DEFINE v == NearMaster(w, c)
             t == UpdateIdle(UpdateTargetList(v, c), c)
  <2>1. c \notin PlayerIds
    BY <1>2, CreatureAssumption
  <2>2. Tends(w, v, N) /\ v \in Worlds
    <3> DEFINE b == w[w[c].master].at = w[c].at
               x == [w EXCEPT ![c].inRange = b]
    <3>1. b \in BOOLEAN
      OBVIOUS
    <3>2. v \in {w, x}
      BY DEF NearMaster
    <3> HIDE DEF b, v
    <3>3. Tends(w, x, N)
      BY <3>1, NearMasterTends
    <3> HIDE DEF x
    <3>4. Tends(w, v, N)
      BY <3>2, <3>3, TendsSelf
    <3> QED
      BY <3>4 DEF Tends
  <2> HIDE DEF v
  <2>4. Tends(v, t, N) /\ \A p \in PlayerIds : Knows(t, c, p)
    BY <1>2, <2>2, LookAroundTends
  <2>5. OnMove(w, c) = t
    BY <2>1 DEF OnMove, v
  <2> HIDE DEF t
  <2> QED
    BY <2>2, <2>4, <2>5, TendsThen
<1> QED
  BY <1>1, <1>2 DEF Creatures

LEMMA OnEnterTends ==
  ASSUME NEW w \in Worlds, NEW m \in MonsterIds, NEW c \in Creatures, NEW N
  PROVE  /\ Tends(w, OnEnter(w, m, c), N)
         /\ c \in PlayerIds => Knows(OnEnter(w, m, c), m, c)
<1>0. m \in Creatures /\ (Placed(w, m) => ~w[m].removed)
  BY DEF Creatures, Placed
<1>1. /\ Minds(w, OnEnter(w, m, c), m, {}) /\ (Placed(w, m) => Bored(OnEnter(w, m, c), m))
      /\ Knows(OnEnter(w, m, c), m, c) \/ c \notin PlayerIds
  BY <1>0, OnEnterMinds
<1> QED
  BY <1>1, MindsTend

LEMMA OnLeaveTends ==
  ASSUME NEW w \in Worlds, NEW m \in MonsterIds, NEW c \in Creatures, NEW N,
         <<m, c>> \in N \/ ~Sees(w, m, c)
  PROVE  Tends(w, OnLeave(w, m, c), N) /\ OnLeave(w, m, c)[m].attacked = w[m].attacked
         /\ Cools(w, OnLeave(w, m, c))
<1> DEFINE v == OnLeave(w, m, c)
<1>0. m \in Creatures /\ (Placed(w, m) => ~w[m].removed)
  BY DEF Creatures, Placed
<1>1. Minds(w, v, m, {c}) /\ (Placed(w, m) /\ Bored(w, m) => Bored(v, m))
  BY <1>0, OnLeaveMinds
<1> HIDE DEF v
<1>2. ASSUME NEW M, <<m, c>> \in M PROVE Tends(w, v, M)
  <2> DEFINE E == {c}
  <2>1. Minds(w, v, m, E) /\ \A p \in E : <<m, p>> \in M
    BY <1>1, <1>2
  <2>2. Placed(w, m) /\ Bored(w, m) => Bored(v, m)
    BY <1>1
  <2> HIDE DEF E
  <2> QED
    BY <2>1, <2>2, MindsTend
<1>3. ASSUME ~Sees(w, m, c) PROVE Tends(w, v, N)
  <2>1. Tends(w, v, {<<m, c>>})
    BY <1>2
  <2>2. Knows(v, m, c)
    BY <1>0, <1>3, <2>1 DEF Knows, Sees, Placed, Tends, SameScene
  <2>3. \A x \in Creatures, p \in PlayerIds : <<x, p>> \in {<<m, c>>} => Knows(v, x, p)
    BY <2>2
  <2> QED
    BY <2>1, <2>3 DEF Tends
<1>4. v[m].attacked = w[m].attacked /\ Cools(w, v)
  BY <1>1 DEF Minds, SameMind, Cools
<1> QED
  BY <1>2, <1>3, <1>4 DEF v

LEMMA MeetTends ==
  ASSUME NEW w \in Worlds, NEW m \in MonsterIds, NEW c \in Creatures, Placed(w, c), NEW N
  PROVE  /\ Tends(w, Meet(w, m, c), N)
         /\ Aims(w, m, c) => Aims(Meet(w, m, c), m, NoCreature)
         /\ c \in PlayerIds => Knows(Meet(w, m, c), m, c)
<1>0. m \in Creatures
  BY DEF Creatures
<1>1. CASE w[m].at = w[c].at
  <2> DEFINE v == OnEnter(w, m, c)
  <2>1. Tends(w, v, N) /\ (c \in PlayerIds => Knows(v, m, c))
    BY OnEnterTends
  <2>2. Meet(w, m, c) = v
    BY <1>1 DEF Meet
  <2> HIDE DEF v
  <2>3. Aims(w, m, c) => Aims(w, m, NoCreature)
    BY <1>1 DEF Aims, Sees
  <2> QED
    BY <1>0, <2>1, <2>2, <2>3 DEF Tends
<1>2. CASE w[m].at # w[c].at
  <2> DEFINE u == Forget(w, m, c)
             v == OnLeave(u, m, c)
  <2>1. Tends(w, u, N) /\ u[m].attacked # c /\ u \in Worlds
    <3>1. Tends(w, u, N) /\ u[m].attacked # c
      BY <1>0, ForgetTends
    <3> QED
      BY <3>1 DEF Tends
  <2>2. ~Sees(u, m, c)
    BY <1>0, <1>2, <2>1 DEF Tends, SameScene, Placed, Sees
  <2> HIDE DEF u
  <2>3. Tends(u, v, N) /\ v[m].attacked = u[m].attacked
    BY <2>1, <2>2, OnLeaveTends
  <2>4. Meet(w, m, c) = v
    BY <1>2 DEF Meet, u
  <2> HIDE DEF v
  <2>5. Tends(w, v, N)
    BY <2>1, <2>3, TendsThen
  <2>6. Aims(w, m, c) => Aims(v, m, NoCreature)
    <3>1. Aims(w, m, c) => Aims(v, m, c)
      BY <1>0, <2>5 DEF Tends
    <3> QED
      BY <2>1, <2>3, <3>1 DEF Aims
  <2>7. Knows(v, m, c)
    BY <1>0, <2>2, <2>3 DEF Knows, Sees, Placed, Tends, SameScene
  <2> QED
    BY <2>4, <2>5, <2>6, <2>7
<1> QED
  BY <1>1, <1>2

LEMMA OnOtherMovesTends ==
  ASSUME NEW w \in Worlds, NEW d \in Creatures, NEW c \in Creatures, Placed(w, c),
         NEW keen, NEW N
  PROVE  LET v == OnOtherMoves(w, d, c, keen)
         IN  /\ Tends(w, v, N)
             /\ Aims(w, d, c) => Aims(v, d, NoCreature)
             /\ c \in PlayerIds => Knows(v, d, c)
<1>1. CASE d \in PlayerIds
  <2> DEFINE v == OnOtherMoves(w, d, c, keen)
  <2>1. v = IF w[d].at = w[c].at THEN w ELSE Forget(w, d, c)
    BY <1>1 DEF OnOtherMoves
  <2>2. Tends(w, v, N) /\ (v[d].attacked # c \/ w[d].at = w[c].at)
    BY <2>1, ForgetTends, TendsSelf
  <2> HIDE DEF v
  <2>3. ASSUME Aims(w, d, c) PROVE Aims(v, d, NoCreature)
    <3>1. Aims(v, d, c)
      BY <2>2, <2>3 DEF Tends
    <3>2. Placed(v, c) /\ v[d].at = w[d].at /\ v[c].at = w[c].at
      BY <2>2 DEF Tends, SameScene, Placed
    <3> QED
      BY <2>2, <3>1, <3>2 DEF Aims, Sees
  <2>4. Knows(v, d, c)
    BY <1>1, CreatureAssumption DEF Knows
  <2> QED
    BY <2>2, <2>3, <2>4 DEF v
<1>2. CASE d \in MonsterIds
  <2> DEFINE v == Meet(w, d, c)
             u == NearMoved(v, d, c)
             t == UpdateIdle(u, d)
             r == Notice(t, d, c, keen)
  <2>0. d \notin PlayerIds
    BY <1>2, CreatureAssumption
  <2>1. /\ Tends(w, v, N) /\ v \in Worlds /\ (Aims(w, d, c) => Aims(v, d, NoCreature))
        /\ c \in PlayerIds => Knows(v, d, c)
    BY <1>2, MeetTends DEF Tends
  <2> HIDE DEF v
  <2>2. \A M : Tends(v, u, M)
    BY <2>1, NearMasterTends, TendsSelf DEF NearMoved
  <2>3. u \in Worlds
    BY <2>2 DEF Tends
  <2> HIDE DEF u
  <2>4. \A M : Tends(u, t, M)
    <3>1. Minds(u, t, d, {}) /\ (Placed(u, d) => Bored(t, d))
      BY <2>3, UpdateIdleMinds DEF Placed
    <3> QED
      BY <1>2, <2>3, <3>1, MindsTend
  <2>5. t \in Worlds
    BY <2>4 DEF Tends
  <2> HIDE DEF t
  <2>6. \A M : Tends(t, r, M)
    BY <2>5, SelectTargetTends, TendsSelf DEF Notice
  <2>7. OnOtherMoves(w, d, c, keen) = r
    BY <2>0 DEF OnOtherMoves, v, u, t
  <2> HIDE DEF r
  <2>8. \A M : Tends(v, r, M)
    BY <2>1, <2>2, <2>3, <2>4, <2>5, <2>6, TendsThen
  <2>9. Tends(w, r, N)
    BY <2>1, <2>8, TendsThen
  <2>10. Tends(v, r, {})
    BY <2>8
  <2>11. /\ Aims(v, d, NoCreature) => Aims(r, d, NoCreature)
         /\ c \in PlayerIds /\ Knows(v, d, c) => Knows(r, d, c)
    BY <2>10 DEF Tends
  <2> QED
    BY <2>1, <2>7, <2>9, <2>11
<1> QED
  BY <1>1, <1>2 DEF Creatures

(* Whoever sees c leave knows it no more and does not attack it; c itself, which
   is still there, knows nobody. *)
Farewells(c) == {q \in Creatures \X Creatures : c \in {q[1], q[2]}}

LEMMA SeesLeaveTends ==
  ASSUME NEW w \in Worlds, NEW d \in Creatures, NEW c \in Creatures
  PROVE  LET v == SeesLeave(w, d, c)
         IN  Tends(w, v, Farewells(c)) /\ Cools(w, v) /\ v[d].attacked # c
<1> DEFINE N == Farewells(c)
           u == Forget(w, d, c)
           v == SeesLeave(w, d, c)
<1>1. \A p \in Creatures : <<c, p>> \in N /\ <<p, c>> \in N
  BY DEF Farewells
<1> HIDE DEF N
<1>2. Tends(w, u, N) /\ Cools(w, u) /\ u[d].attacked # c /\ u \in Worlds
  <2>1. Tends(w, u, N) /\ Cools(w, u) /\ u[d].attacked # c
    BY ForgetTends
  <2> QED
    BY <2>1 DEF Tends
<1>4. v = OnDisappear(u, d, c)
  BY DEF SeesLeave
<1> HIDE DEF u, v
<1>5. ASSUME d \in PlayerIds PROVE Tends(w, v, Farewells(c)) /\ Cools(w, v) /\ v[d].attacked # c
  <2>1. v = u
    BY <1>4, <1>5 DEF OnDisappear
  <2> QED
    BY <1>2, <2>1 DEF N
<1>6. ASSUME d \in MonsterIds /\ d = c PROVE Tends(w, v, Farewells(c)) /\ Cools(w, v) /\ v[d].attacked # c
  <2> DEFINE t == SetIdle(u, c, TRUE)
  <2>1. Minds(u, t, c, Creatures) /\ (Placed(u, c) => Bored(t, c))
    <3>1. u[c].targets \in SUBSET Creatures /\ TRUE \in BOOLEAN
      BY <1>2, FieldsTyped
    <3> QED
      BY <1>2, <3>1, SetIdleMinds DEF Placed
  <2>2. v = t
    BY <1>4, <1>6, CreatureAssumption DEF OnDisappear
  <2> HIDE DEF t
  <2>3. Tends(u, t, N)
    BY <1>1, <1>2, <1>6, <2>1, MindsTend
  <2>4. Cools(u, t) /\ t[d].attacked = u[d].attacked
    BY <1>6, <2>1 DEF Minds, SameMind, Cools
  <2>5. Tends(w, v, N)
    BY <1>2, <2>2, <2>3, TendsThen
  <2> QED
    BY <1>2, <2>2, <2>4, <2>5 DEF Cools, N
<1>7. ASSUME d \in MonsterIds /\ d # c PROVE Tends(w, v, Farewells(c)) /\ Cools(w, v) /\ v[d].attacked # c
  <2> DEFINE t == OnLeave(u, d, c)
  <2>1. Tends(u, t, N) /\ Cools(u, t) /\ t[d].attacked = u[d].attacked
    BY <1>1, <1>2, <1>7, OnLeaveTends
  <2>2. v = t
    BY <1>4, <1>7, CreatureAssumption DEF OnDisappear
  <2> HIDE DEF t
  <2>5. Tends(w, v, N)
    BY <1>2, <2>1, <2>2, TendsThen
  <2> QED
    BY <1>2, <2>1, <2>2, <2>5 DEF Cools, N
<1>8. Tends(w, v, Farewells(c)) /\ Cools(w, v) /\ v[d].attacked # c
  BY <1>5, <1>6, <1>7 DEF Creatures
<1> QED
  BY <1>8 DEF v

LEMMA SeeAllTends ==
  ASSUME NEW w \in Worlds, NEW c \in Creatures, NEW S \in SUBSET Creatures
  PROVE  LET v == SeeAll(w, c, S)
         IN  Tends(w, v, Farewells(c)) /\ Cools(w, v) /\ \A d \in S : v[d].attacked # c
<1>0. NoCreature # c
  BY CreatureAssumption DEF Creatures
<1> DEFINE N == Farewells(c)
           G == {q \in (SUBSET S) \X Worlds :
                   Tends(w, q[2], N) /\ Cools(w, q[2]) /\ \A d \in q[1] : q[2][d].attacked # c}
<1>1. <<{}, w>> \in G
  BY TendsSelf DEF Cools
<1>2. ASSUME NEW s \in SUBSET S, NEW v \in Worlds, s # {}, <<s \ {Pick(s)}, v>> \in G
      PROVE  <<s, SeesLeave(v, Pick(s), c)>> \in G
  <2> DEFINE p == Pick(s)
             u == SeesLeave(v, p, c)
  <2>1. p \in s /\ p \in Creatures
    BY <1>2 DEF Pick
  <2>2. Tends(w, v, N) /\ Cools(w, v) /\ \A d \in s \ {p} : v[d].attacked # c
    BY <1>2
  <2> HIDE DEF p
  <2>4. Tends(v, u, N) /\ Cools(v, u) /\ u[p].attacked # c
    BY <2>1, SeesLeaveTends
  <2> HIDE DEF u, N
  <2>5. Tends(w, u, N) /\ Cools(w, u) /\ u \in Worlds
    <3>1. Tends(w, u, N)
      BY <2>2, <2>4, TendsThen
    <3>2. Cools(w, u)
      BY <2>2, <2>4 DEF Cools
    <3> QED
      BY <3>1, <3>2 DEF Tends
  <2>6. \A d \in s : u[d].attacked # c
    BY <1>0, <2>2, <2>4 DEF Cools
  <2>7. <<s, u>> \in G
    BY <2>5, <2>6 DEF N
  <2> QED
    BY <2>7 DEF u, p
<1>3. G \in SUBSET ((SUBSET S) \X Worlds)
  OBVIOUS
<1>4. <<S, SeeAll(w, c, S)>> \in G
  <2> HIDE DEF G
  <2> QED
    BY <1>1, <1>2, <1>3, SeeAllFold
<1> QED
  BY <1>4

(* A creature that stays as it is, alone: it may lose summons, and what it sees
   and serves may change. *)
Untouched(w, v, x) ==
  /\ SameMind(w, v, x) /\ v[x].at = w[x].at /\ v[x].removed = w[x].removed
  /\ v[x].alive = w[x].alive /\ v[x].master = w[x].master /\ v[x].summons \subseteq w[x].summons

LEMMA UntouchedStirred ==
  ASSUME NEW w, NEW v, NEW x, Untouched(w, v, x), Stirred(w, x),
         isSummon(w, x) /\ Placed(w, w[x].master) /\ x \in w[w[x].master].summons
           => Placed(v, w[x].master) /\ x \in v[w[x].master].summons
  PROVE  Stirred(v, x)
<1> SUFFICES ASSUME Placed(v, x) PROVE Stirred(v, x)
  BY DEF Stirred
<1>1. Heard(w, x) /\ Bored(w, x) /\ Serves(w, x) /\ (x \in PlayerIds => ~w[x].idle)
  BY DEF Stirred, Placed, Untouched
<1>2. Heard(v, x) /\ Bored(v, x) /\ (x \in PlayerIds => ~v[x].idle)
  BY <1>1 DEF Heard, Bored, Untouched, SameMind, isSummon
<1>3. Serves(v, x)
  BY <1>1 DEF Serves, Untouched, isSummon
<1> QED
  BY <1>2, <1>3 DEF Stirred

LEMMA UntouchedKeen ==
  ASSUME NEW w \in Worlds, NEW v, NEW x \in Creatures, NEW e, Untouched(w, v, x), Keen(w, x, e),
         \A d \in Creatures \ {e} : Placed(w, x) /\ w[x].attacked = d /\ Sees(w, x, d) => Sees(v, x, d),
         \A p \in PlayerIds \ {e} : Placed(w, x) /\ Sees(v, x, p) /\ v[p].alive => Sees(w, x, p) /\ w[p].alive
  PROVE  Keen(v, x, e)
<1> SUFFICES ASSUME Placed(v, x) PROVE Keen(v, x, e)
  BY DEF Keen
<1>0. Placed(w, x)
  BY DEF Placed, Untouched
<1>1. Aims(w, x, e) /\ \A p \in PlayerIds \ {e} : Knows(w, x, p)
  BY <1>0 DEF Keen
<1>2. v[x].attacked = w[x].attacked /\ w[x].attacked \in Creatures \cup {NoCreature}
  BY FieldsTyped DEF Untouched, SameMind
<1>3. Aims(v, x, e)
  BY <1>0, <1>1, <1>2 DEF Aims
<1>4. ASSUME NEW p \in PlayerIds \ {e} PROVE Knows(v, x, p)
  BY <1>0, <1>1 DEF Knows, Untouched, SameMind, isSummon
<1> QED
  BY <1>3, <1>4 DEF Keen

(* What leaves everybody fit for its place in the world, and the minds of all but
   those in S. *)
Fares(w, v, S) ==
  /\ v \in Worlds
  /\ \A x \in Creatures :
       /\ Stirred(w, x) => Stirred(v, x)
       /\ \A e : Keen(w, x, e) => Keen(v, x, e)
       /\ x \notin S => (Heard(w, x) => Heard(v, x)) /\ \A e : Aims(w, x, e) => Aims(v, x, e)

LEMMA FaresSelf == ASSUME NEW w \in Worlds, NEW S PROVE Fares(w, w, S)
  BY DEF Fares

LEMMA FaresThen ==
  ASSUME NEW w, NEW v, NEW u, NEW S, Fares(w, v, S), Fares(v, u, S)
  PROVE  Fares(w, u, S)
<1> QED
  BY DEF Fares

LEMMA FaresMore ==
  ASSUME NEW w, NEW v, NEW S, NEW T, S \subseteq T, Fares(w, v, S)
  PROVE  Fares(w, v, T)
<1> QED
  BY DEF Fares

(* A change of minds that others do not see is such a step. *)
LEMMA TendsFares ==
  ASSUME NEW w \in Worlds, NEW v, Tends(w, v, {}), NEW S
  PROVE  Fares(w, v, S)
<1>1. \A x \in Creatures : /\ Stirred(w, x) => Stirred(v, x)
                           /\ \A e : Keen(w, x, e) => Keen(v, x, e)
  <2> TAKE x \in Creatures
  <2>1. /\ Stirred(w, x) => Stirred(v, x)
        /\ \A e : Keen(w, x, e) /\ (\A p \in PlayerIds \ {e} : <<x, p>> \notin {}) => Keen(v, x, e)
    BY TendsKeep
  <2> QED
    BY <2>1
<1> QED
  BY <1>1 DEF Fares, Tends

(* Monster::changeHealth: who dies is awake, and is checked if it is in the world. *)
LEMMA KillFares ==
  ASSUME NEW w \in Worlds, NEW c \in Creatures
  PROVE  Fares(w, Kill(w, c), {c}) /\ ~Kill(w, c)[c].alive
<1> DEFINE t == IF c \in MonsterIds THEN SetIdle(w, c, FALSE) ELSE w
           r == [t[c] EXCEPT !.alive = FALSE]
           v == [t EXCEPT ![c] = r]
<1>1. Kill(w, c) = v
  BY DEF Kill
<1>2. Tends(w, t, {}) /\ (Placed(w, c) /\ Stirred(w, c) => t[c].checked /\ t[c].vec # -1)
  <2>1. CASE c \in MonsterIds
    <3> DEFINE a == SetIdle(w, c, FALSE)
    <3>1. FALSE \in BOOLEAN /\ t = a
      BY <2>1
    <3>2. /\ Minds(w, a, c, {}) /\ (~w[c].removed => Bored(a, c))
          /\ ~w[c].removed => (a[c].alive => a[c].checked /\ a[c].vec # -1)
      BY SetIdleMinds, <3>1
    <3> HIDE DEF a, t
    <3>3. Tends(w, a, {})
      BY <2>1, <3>2, MindsTend DEF Placed
    <3>4. ASSUME Placed(w, c), Stirred(w, c) PROVE a[c].checked /\ a[c].vec # -1
      <4>1. Heard(w, c)
        BY <3>4 DEF Stirred
      <4>2. Heard(a, c)
        BY <3>2, <4>1 DEF Minds
      <4> QED
        BY <3>2, <3>4, <4>2 DEF Heard, Placed
    <3> QED
      BY <3>1, <3>3, <3>4
  <2>2. CASE c \notin MonsterIds
    <3>1. t = w /\ c \in PlayerIds
      BY <2>2 DEF Creatures
    <3> HIDE DEF t
    <3>2. Tends(w, w, {})
      BY TendsSelf
    <3>3. Placed(w, c) /\ Stirred(w, c) => w[c].checked /\ w[c].vec # -1
      BY <3>1 DEF Stirred, Heard
    <3> QED
      BY <3>1, <3>2, <3>3
  <2> QED
    BY <2>1, <2>2
<1> HIDE DEF t
<1>3. t \in Worlds /\ SameScene(w, t)
  BY <1>2 DEF Tends
<1>4. t[c] \in Fields /\ FALSE \in BOOLEAN
  BY <1>3 DEF Worlds
<1>5. r \in Fields
  BY <1>4, OneField
<1>6. /\ r.at = t[c].at /\ r.removed = t[c].removed /\ r.summons = t[c].summons
      /\ r.master = t[c].master /\ r.vec = t[c].vec /\ r.targets = t[c].targets
      /\ r.attacked = t[c].attacked /\ r.checked = t[c].checked /\ r.idle = t[c].idle /\ r.alive = FALSE
  BY <1>4 DEF Fields
<1> HIDE DEF r
<1>7. v \in Worlds /\ v[c] = r /\ \A k \in Creatures \ {c} : v[k] = t[k]
  BY <1>3, <1>5, Put
<1> HIDE DEF v
<1>8. /\ \A x \in Creatures : SameMind(t, v, x) /\ v[x].at = t[x].at /\ v[x].removed = t[x].removed
                              /\ v[x].master = t[x].master /\ v[x].summons = t[x].summons
                              /\ v[x].alive = (IF x = c THEN FALSE ELSE t[x].alive)
  BY <1>6, <1>7 DEF SameMind
<1>9. \A x, d \in Creatures : Placed(v, d) = Placed(t, d) /\ Sees(v, x, d) = Sees(t, x, d)
  BY <1>8 DEF Placed, Sees
<1>10. Fares(w, t, {c})
  BY <1>2, TendsFares
<1>11. ASSUME NEW x \in Creatures, x # c
       PROVE  /\ Stirred(t, x) => Stirred(v, x)
              /\ \A e : Keen(t, x, e) => Keen(v, x, e)
              /\ Heard(t, x) => Heard(v, x)
              /\ \A e : Aims(t, x, e) => Aims(v, x, e)
  <2>0. t[x].master \in Creatures \cup {NoCreature} /\ t[x].attacked \in Creatures \cup {NoCreature}
    BY <1>3, FieldsTyped
  <2>1. Untouched(t, v, x)
    BY <1>8, <1>11 DEF Untouched
  <2>2. isSummon(t, x) /\ Placed(t, t[x].master) /\ x \in t[t[x].master].summons
           => Placed(v, t[x].master) /\ x \in v[t[x].master].summons
    BY <1>8, <1>9, <2>0 DEF isSummon
  <2>3. Stirred(t, x) => Stirred(v, x)
    BY <2>1, <2>2, UntouchedStirred
  <2>4. ASSUME NEW e, Keen(t, x, e) PROVE Keen(v, x, e)
    <3>1. \A d \in Creatures \ {e} : Placed(t, x) /\ t[x].attacked = d /\ Sees(t, x, d) => Sees(v, x, d)
      BY <1>9
    <3>2. \A p \in PlayerIds \ {e} : Placed(t, x) /\ Sees(v, x, p) /\ v[p].alive => Sees(t, x, p) /\ t[p].alive
      BY <1>8, <1>9 DEF Creatures
    <3> QED
      BY <1>3, <2>1, <2>4, <3>1, <3>2, UntouchedKeen
  <2>5. Heard(t, x) => Heard(v, x)
    BY <2>1 DEF Heard, Untouched, SameMind
  <2>6. ASSUME NEW e, Aims(t, x, e) PROVE Aims(v, x, e)
    BY <1>8, <1>9, <2>0, <2>6 DEF Aims, SameMind
  <2> QED
    BY <2>3, <2>4, <2>5, <2>6
<1>12. ASSUME Stirred(w, c) PROVE Stirred(v, c)
  <2> SUFFICES ASSUME Placed(v, c) PROVE Stirred(v, c)
    BY DEF Stirred
  <2>0. t[c].master \in Creatures \cup {NoCreature}
    BY <1>3, FieldsTyped
  <2>1. Placed(w, c) /\ Placed(t, c)
    BY <1>3, <1>9 DEF SameScene, Placed
  <2>2. Stirred(t, c)
    BY <1>10, <1>12 DEF Fares
  <2>3. Serves(t, c) /\ (c \in PlayerIds => ~t[c].idle)
    BY <2>1, <2>2 DEF Stirred
  <2>4. Serves(v, c)
    BY <1>8, <1>9, <2>0, <2>3 DEF Serves, isSummon
  <2>5. Heard(v, c) /\ Bored(v, c) /\ (c \in PlayerIds => ~v[c].idle)
    BY <1>2, <1>8, <1>12, <2>1, <2>3 DEF Heard, Bored, SameMind
  <2> QED
    BY <2>4, <2>5 DEF Stirred
<1>13. ASSUME NEW e, Keen(w, c, e) PROVE Keen(v, c, e)
  <2> SUFFICES ASSUME Placed(v, c) PROVE Keen(v, c, e)
    BY DEF Keen
  <2>0. t[c].attacked \in Creatures \cup {NoCreature}
    BY <1>3, FieldsTyped
  <2>1. Keen(t, c, e) /\ Placed(t, c)
    BY <1>9, <1>10, <1>13 DEF Fares
  <2>2. Aims(v, c, e)
    BY <1>8, <1>9, <2>0, <2>1 DEF Keen, Aims, SameMind
  <2>3. \A p : Knows(v, c, p)
    BY <1>8 DEF Knows
  <2> QED
    BY <2>2, <2>3 DEF Keen
<1>14. Fares(w, v, {c})
  <2>1. ASSUME NEW x \in Creatures, x # c
        PROVE  /\ Stirred(w, x) => Stirred(v, x)
               /\ \A e : Keen(w, x, e) => Keen(v, x, e)
               /\ (Heard(w, x) => Heard(v, x)) /\ \A e : Aims(w, x, e) => Aims(v, x, e)
    BY <1>10, <1>11, <2>1 DEF Fares
  <2> QED
    BY <1>7, <1>12, <1>13, <2>1 DEF Fares
<1> QED
  BY <1>1, <1>8, <1>14

(* What lets s go leaves the others fit for their places, and s too if it is dead
   or out of the world. *)
LooseIs(w, v, s) ==
  /\ v \in Worlds
  /\ \A k \in Creatures :
       /\ SameMind(w, v, k) /\ v[k].at = w[k].at /\ v[k].removed = w[k].removed
       /\ v[k].alive = w[k].alive /\ v[k].summons \subseteq w[k].summons
       /\ w[k].summons \ {s} \subseteq v[k].summons
       /\ v[k].master = (IF k = s THEN NoCreature ELSE w[k].master)
Others(w, v, s) ==
  /\ v \in Worlds
  /\ \A x \in Creatures :
       /\ x # s => (Stirred(w, x) => Stirred(v, x)) /\ \A e : Keen(w, x, e) => Keen(v, x, e)
       /\ (Heard(w, x) => Heard(v, x)) /\ \A e : Aims(w, x, e) => Aims(v, x, e)

LEMMA LooseFares ==
  ASSUME NEW w \in Worlds, NEW v, NEW s \in Creatures, LooseIs(w, v, s)
  PROVE  Others(w, v, s) /\ (~w[s].alive \/ ~Placed(w, s) => Fares(w, v, {}))
<1>1. \A x, d \in Creatures : Placed(v, d) = Placed(w, d) /\ Sees(v, x, d) = Sees(w, x, d)
  BY DEF LooseIs, Placed, Sees
<1>2. ASSUME NEW x \in Creatures
      PROVE  /\ Heard(w, x) => Heard(v, x)
             /\ \A e : Aims(w, x, e) => Aims(v, x, e)
  <2>1. w[x].attacked \in Creatures \cup {NoCreature}
    BY FieldsTyped
  <2> QED
    BY <1>1, <2>1 DEF LooseIs, SameMind, Heard, Aims
<1>3. ASSUME NEW x \in Creatures, x # s
      PROVE  /\ Stirred(w, x) => Stirred(v, x)
             /\ \A e : Keen(w, x, e) => Keen(v, x, e)
  <2>0. w[x].master \in Creatures \cup {NoCreature}
    BY FieldsTyped
  <2>1. Untouched(w, v, x)
    BY <1>3 DEF LooseIs, Untouched
  <2>2. isSummon(w, x) /\ Placed(w, w[x].master) /\ x \in w[w[x].master].summons
           => Placed(v, w[x].master) /\ x \in v[w[x].master].summons
    <3> SUFFICES ASSUME isSummon(w, x), Placed(w, w[x].master), x \in w[w[x].master].summons
                 PROVE  Placed(v, w[x].master) /\ x \in v[w[x].master].summons
      OBVIOUS
    <3>1. w[x].master \in Creatures
      BY <2>0 DEF isSummon
    <3> QED
      BY <1>1, <1>3, <3>1 DEF LooseIs
  <2>3. Stirred(w, x) => Stirred(v, x)
    BY <2>1, <2>2, UntouchedStirred
  <2>4. ASSUME NEW e, Keen(w, x, e) PROVE Keen(v, x, e)
    <3>1. \A d \in Creatures \ {e} : Placed(w, x) /\ w[x].attacked = d /\ Sees(w, x, d) => Sees(v, x, d)
      BY <1>1
    <3>2. \A p \in PlayerIds \ {e} : Placed(w, x) /\ Sees(v, x, p) /\ v[p].alive => Sees(w, x, p) /\ w[p].alive
      BY <1>1 DEF Creatures, LooseIs
    <3> QED
      BY <2>1, <2>4, <3>1, <3>2, UntouchedKeen
  <2> QED
    BY <2>3, <2>4
<1>4. ASSUME ~w[s].alive \/ ~Placed(w, s)
      PROVE  /\ Stirred(w, s) => Stirred(v, s)
             /\ \A e : Keen(w, s, e) => Keen(v, s, e)
  <2>1. CASE ~Placed(w, s)
    BY <1>1, <2>1 DEF Stirred, Keen
  <2>2. CASE ~w[s].alive
    <3>1. ~v[s].alive /\ ~isSummon(v, s) /\ v[s].idle = w[s].idle
      BY <2>2 DEF LooseIs, isSummon, SameMind
    <3>2. \A p : Knows(v, s, p)
      BY <3>1 DEF Knows
    <3>3. Bored(v, s) /\ Serves(v, s)
      BY <3>1 DEF Bored, Serves
    <3> QED
      BY <1>1, <1>2, <3>1, <3>2, <3>3 DEF Stirred, Keen
  <2> QED
    BY <1>4, <2>1, <2>2
<1>5. v \in Worlds
  BY DEF LooseIs
<1>6. Others(w, v, s)
  BY <1>2, <1>3, <1>5 DEF Others
<1>7. ASSUME ~w[s].alive \/ ~Placed(w, s) PROVE Fares(w, v, {})
  <2>1. ASSUME NEW x \in Creatures
        PROVE  /\ Stirred(w, x) => Stirred(v, x)
               /\ \A e : Keen(w, x, e) => Keen(v, x, e)
    <3>1. CASE x = s
      BY <1>4, <1>7, <3>1
    <3>2. CASE x # s
      BY <1>3, <3>2
    <3> QED
      BY <3>1, <3>2
  <2> QED
    BY <1>2, <1>5, <2>1 DEF Fares
<1> QED
  BY <1>6, <1>7

(* LetGo, and Creature::removeSummon, which does it for one master. *)
LEMMA LetGoIs ==
  ASSUME NEW w \in Worlds, NEW s \in Creatures
  PROVE  LooseIs(w, LetGo(w, s), s) /\ \A k \in Creatures : LetGo(w, s)[k].summons = w[k].summons
<1> DEFINE u == UnRef(w, s)
           r == [u[s] EXCEPT !.master = NoCreature]
           v == [u EXCEPT ![s] = r]
<1>0. LetGo(w, s) = v
  BY DEF LetGo
<1>1. u \in Worlds /\ LessRefs(w, {s}, u)
  BY UnRefIs
<1> HIDE DEF u
<1>2. u[s] \in Fields
  BY <1>1 DEF Worlds
<1>3. r \in Fields
  BY <1>2, OneField
<1>4. /\ r.idle = u[s].idle /\ r.attacked = u[s].attacked /\ r.checked = u[s].checked
      /\ r.vec = u[s].vec /\ r.targets = u[s].targets
  BY <1>2 DEF Fields
<1> HIDE DEF r
<1>5. v \in Worlds /\ v[s] = r /\ \A c \in Creatures \ {s} : v[c] = u[c]
  BY <1>1, <1>3, Put
<1>6. \A k \in Creatures : SameMind(w, u, k)
  <2> TAKE k \in Creatures
  <2>1. w[k] \in Fields /\ u[k] = [w[k] EXCEPT !.refs = w[k].refs - Flag(k \in {s})]
    BY <1>1 DEF LessRefs, Worlds
  <2> QED
    BY <2>1 DEF Fields, SameMind
<1> HIDE DEF v
<1>7. \A k \in Creatures : SameMind(w, v, k)
  BY <1>4, <1>5, <1>6 DEF SameMind
<1>8. \A k \in Creatures :
           /\ v[k].at = w[k].at /\ v[k].removed = w[k].removed /\ v[k].alive = w[k].alive
           /\ v[k].summons = w[k].summons
           /\ v[k].master = (IF k = s THEN NoCreature ELSE w[k].master)
  BY <1>0, LetGoDoes
<1> QED
  BY <1>0, <1>5, <1>7, <1>8 DEF LooseIs

LEMMA RemoveSummonIs ==
  ASSUME NEW w \in Worlds, NEW c \in Creatures, NEW s \in Creatures, s \in w[c].summons
  PROVE  LET v == RemoveSummon(w, c, s)
         IN  /\ LooseIs(w, v, s)
             /\ \A k \in Creatures : v[k].summons = (IF k = c THEN w[c].summons \ {s} ELSE w[k].summons)
<1> DEFINE x == LetGo(w, s)
           u == UnRef(w, s)
           T == w[c].summons \ {s}
           r == [x[c] EXCEPT !.summons = T]
           v == [x EXCEPT ![c] = r]
<1>1. LooseIs(w, x, s) /\ \A k \in Creatures : x[k].summons = w[k].summons
  BY LetGoIs
<1>2. u \in Worlds /\ u[c].summons = w[c].summons
  <2>1. u \in Worlds /\ LessRefs(w, {s}, u)
    BY UnRefIs
  <2>2. w[c] \in Fields /\ u[c] = [w[c] EXCEPT !.refs = w[c].refs - Flag(c \in {s})]
    BY <2>1 DEF LessRefs, Worlds
  <2> QED
    BY <2>1, <2>2 DEF Fields
<1>3. RemoveSummon(w, c, s) = v
  <2>1. RemoveSummon(w, c, s) = [u EXCEPT ![c].summons = T, ![s].master = NoCreature]
    BY <1>2 DEF RemoveSummon
  <2>2. x = [u EXCEPT ![s].master = NoCreature]
    BY DEF LetGo
  <2> HIDE DEF u, x, T
  <2>3. [u EXCEPT ![c].summons = T, ![s].master = NoCreature]
          = [u EXCEPT ![s].master = NoCreature, ![c].summons = T]
    <3>1. u[c] \in Fields
      BY <1>2 DEF Worlds
    <3>2. [u[c] EXCEPT !.summons = T, !.master = NoCreature]
                   = [u[c] EXCEPT !.master = NoCreature, !.summons = T]
      BY <3>1 DEF Fields
    <3> QED
      BY <1>2, <3>2 DEF Worlds
  <2> QED
    BY <2>1, <2>2, <2>3
<1> HIDE DEF x, u
<1>4. x \in Worlds
  BY <1>1 DEF LooseIs
<1>5. x[c] \in Fields /\ T \in SUBSET Creatures
  <2>1. w[c].summons \in SUBSET Creatures
    BY FieldsTyped
  <2> QED
    BY <1>4, <2>1 DEF Worlds
<1>6. r \in Fields
  BY <1>5, OneField
<1>7. /\ r.at = x[c].at /\ r.removed = x[c].removed /\ r.alive = x[c].alive /\ r.master = x[c].master
      /\ r.idle = x[c].idle /\ r.attacked = x[c].attacked /\ r.checked = x[c].checked
      /\ r.vec = x[c].vec /\ r.targets = x[c].targets /\ r.summons = T
  BY <1>5 DEF Fields
<1> HIDE DEF r
<1>8. v \in Worlds /\ v[c] = r /\ \A k \in Creatures \ {c} : v[k] = x[k]
  BY <1>4, <1>6, Put
<1> HIDE DEF v
<1>9. \A k \in Creatures : v[k].summons = (IF k = c THEN w[c].summons \ {s} ELSE w[k].summons)
  BY <1>1, <1>7, <1>8 DEF T
<1>10. ASSUME NEW k \in Creatures
       PROVE  /\ SameMind(w, v, k) /\ v[k].at = w[k].at /\ v[k].removed = w[k].removed
              /\ v[k].alive = w[k].alive /\ v[k].master = (IF k = s THEN NoCreature ELSE w[k].master)
  <2>1. CASE k = c
    BY <1>1, <1>7, <1>8, <2>1 DEF LooseIs, SameMind
  <2>2. CASE k # c
    BY <1>1, <1>8, <2>2 DEF LooseIs, SameMind
  <2> QED
    BY <2>1, <2>2
<1>11. LooseIs(w, v, s)
  BY <1>8, <1>9, <1>10 DEF LooseIs
<1> QED
  BY <1>3, <1>9, <1>11

(* A summon that its master destroys dies before it is let go. *)
LEMMA DestroyedFares ==
  ASSUME NEW w \in Worlds, NEW s \in Creatures
  PROVE  Fares(w, Destroyed(w, s), {s})
<1> DEFINE v == SetAttacked(w, s, NoCreature)
           u == Kill(v, s)
           t == LetGo(u, s)
<1>1. Fares(w, v, {s}) /\ v \in Worlds
  <2>1. Tends(w, v, {})
    BY SetAttackedTends
  <2> HIDE DEF v
  <2> QED
    BY <2>1, TendsFares DEF Fares
<1>2. Fares(v, u, {s}) /\ ~u[s].alive /\ u \in Worlds
  <2> HIDE DEF v
  <2>1. Fares(v, u, {s}) /\ ~u[s].alive
    BY <1>1, KillFares
  <2> QED
    BY <2>1 DEF Fares
<1>3. Fares(u, t, {s})
  <2> HIDE DEF u
  <2>1. LooseIs(u, t, s)
    BY <1>2, LetGoIs
  <2> HIDE DEF t
  <2>2. Fares(u, t, {})
    BY <1>2, <2>1, LooseFares
  <2> QED
    BY <2>2, FaresMore
<1>4. Destroyed(w, s) = t
  BY DEF Destroyed
<1> HIDE DEF v, u, t
<1>5. Fares(w, t, {s})
  <2>1. Fares(w, u, {s})
    BY <1>1, <1>2, FaresThen
  <2> QED
    BY <1>3, <2>1, FaresThen
<1> QED
  BY <1>4, <1>5

LEMMA DestroyAllFares ==
  ASSUME NEW w \in Worlds, NEW S \in SUBSET Creatures
  PROVE  Fares(w, DestroyAll(w, S), S)
<1> DEFINE G == {q \in (SUBSET S) \X Worlds : Fares(w, q[2], q[1])}
<1>1. G \in SUBSET ((SUBSET S) \X Worlds) /\ <<{}, w>> \in G
  BY FaresSelf
<1>2. ASSUME NEW s \in SUBSET S, NEW v \in Worlds, s # {}, <<s \ {Pick(s)}, v>> \in G
      PROVE  <<s, Destroyed(v, Pick(s))>> \in G
  <2>1. Pick(s) \in s /\ Pick(s) \in Creatures
    BY <1>2 DEF Pick
  <2> DEFINE u == Destroyed(v, Pick(s))
  <2>2. Fares(w, v, s \ {Pick(s)})
    BY <1>2
  <2>3. Fares(v, u, {Pick(s)})
    BY <2>1, DestroyedFares
  <2> HIDE DEF u
  <2>4. Fares(w, v, s) /\ Fares(v, u, s)
    <3>1. s \ {Pick(s)} \subseteq s /\ {Pick(s)} \subseteq s
      BY <2>1
    <3> QED
      BY <2>2, <2>3, <3>1, FaresMore
  <2>5. Fares(w, u, s) /\ u \in Worlds
    <3>1. Fares(w, u, s)
      BY <2>4, FaresThen
    <3> QED
      BY <3>1 DEF Fares
  <2> QED
    BY <2>5 DEF u
<1> HIDE DEF G
<1>3. <<S, DestroyAll(w, S)>> \in G
  BY <1>1, <1>2, DestroyAllFold
<1> QED
  BY <1>3 DEF G

(* Creature::destroySummons: nobody serves c then. *)
LEMMA DestroySummonsFares ==
  ASSUME NEW w \in Worlds, NEW c \in Creatures
  PROVE  LET v == DestroySummons(w, c)
         IN  /\ Fares(w, v, w[c].summons)
             /\ \A k \in Creatures :
                  /\ v[k].at = w[k].at /\ v[k].removed = w[k].removed
                  /\ k \notin w[c].summons => v[k].alive = w[k].alive /\ v[k].master = w[k].master
                  /\ v[k].summons = (IF k = c THEN {} ELSE w[k].summons)
<1> DEFINE S == w[c].summons
           x == DestroyAll(w, S)
           r == [x[c] EXCEPT !.summons = {}]
           v == [x EXCEPT ![c] = r]
<1>0. S \in SUBSET Creatures
  BY FieldsTyped
<1>1. Fares(w, x, S) /\ Loosed(w, S, x)
  <2> HIDE DEF S
  <2> QED
    BY <1>0, DestroyAllFares, DestroyAllLoosed
<1>2. DestroySummons(w, c) = v
  BY DEF DestroySummons, DestroyAll
<1> HIDE DEF x
<1>3. x \in Worlds /\ x[c] \in Fields
  BY <1>1 DEF Loosed, Worlds
<1>4. r \in Fields
  <2>1. {} \in SUBSET Creatures
    OBVIOUS
  <2> QED
    BY <1>3, <2>1, OneField
<1>5. /\ r.at = x[c].at /\ r.removed = x[c].removed /\ r.alive = x[c].alive /\ r.master = x[c].master
      /\ r.idle = x[c].idle /\ r.attacked = x[c].attacked /\ r.checked = x[c].checked
      /\ r.vec = x[c].vec /\ r.targets = x[c].targets /\ r.summons = {}
  BY <1>3 DEF Fields
<1> HIDE DEF r
<1>6. v \in Worlds /\ v[c] = r /\ \A k \in Creatures \ {c} : v[k] = x[k]
  BY <1>3, <1>4, Put
<1> HIDE DEF v
<1>7. \A k \in Creatures : Untouched(x, v, k)
  <2> TAKE k \in Creatures
  <2>1. CASE k = c
    BY <1>5, <1>6, <2>1 DEF Untouched, SameMind
  <2>2. CASE k # c
    BY <1>6, <2>2 DEF Untouched, SameMind
  <2> QED
    BY <2>1, <2>2
<1>8. \A k, d \in Creatures : Placed(v, d) = Placed(x, d) /\ Sees(v, k, d) = Sees(x, k, d)
  BY <1>7 DEF Untouched, Placed, Sees
<1>9. \A k \in Creatures :
        /\ x[k].summons = w[k].summons /\ x[k].at = w[k].at /\ x[k].removed = w[k].removed
        /\ k \notin S => x[k].alive = w[k].alive
        /\ x[k].master = IF k \in S THEN NoCreature ELSE w[k].master
  BY <1>1 DEF Loosed
<1>10. ASSUME NEW k \in Creatures
       PROVE  /\ Stirred(x, k) => Stirred(v, k)
              /\ \A e : Keen(x, k, e) => Keen(v, k, e)
              /\ (Heard(x, k) => Heard(v, k)) /\ \A e : Aims(x, k, e) => Aims(v, k, e)
  <2>0. /\ x[k].master \in Creatures \cup {NoCreature} /\ x[k].attacked \in Creatures \cup {NoCreature}
    BY <1>3, FieldsTyped
  <2>1. Untouched(x, v, k)
    BY <1>7
  <2>2. isSummon(x, k) /\ Placed(x, x[k].master) /\ k \in x[x[k].master].summons
           => Placed(v, x[k].master) /\ k \in v[x[k].master].summons
    <3> SUFFICES ASSUME isSummon(x, k), Placed(x, x[k].master), k \in x[x[k].master].summons
                 PROVE  Placed(v, x[k].master) /\ k \in v[x[k].master].summons
      OBVIOUS
    <3>1. x[k].master \in Creatures
      BY <2>0 DEF isSummon
    <3>2. x[k].master # c
      BY <1>9 DEF isSummon
    <3> QED
      BY <1>6, <1>8, <3>1, <3>2
  <2>3. Stirred(x, k) => Stirred(v, k)
    BY <2>1, <2>2, UntouchedStirred
  <2>4. ASSUME NEW e, Keen(x, k, e) PROVE Keen(v, k, e)
    <3>1. \A d \in Creatures \ {e} : Placed(x, k) /\ x[k].attacked = d /\ Sees(x, k, d) => Sees(v, k, d)
      BY <1>8
    <3>2. \A p \in PlayerIds \ {e} : Placed(x, k) /\ Sees(v, k, p) /\ v[p].alive => Sees(x, k, p) /\ x[p].alive
      BY <1>7, <1>8 DEF Creatures, Untouched
    <3> QED
      BY <1>3, <2>1, <2>4, <3>1, <3>2, UntouchedKeen
  <2>5. (Heard(x, k) => Heard(v, k)) /\ \A e : Aims(x, k, e) => Aims(v, k, e)
    BY <1>8, <2>0, <2>1 DEF Heard, Aims, Untouched, SameMind
  <2> QED
    BY <2>3, <2>4, <2>5
<1>11. Fares(w, v, S)
  <2>1. Fares(x, v, S)
    BY <1>6, <1>10 DEF Fares
  <2> QED
    BY <1>1, <2>1, FaresThen
<1>12. \A k \in Creatures :
                  /\ v[k].at = w[k].at /\ v[k].removed = w[k].removed
                  /\ k \notin S => v[k].alive = w[k].alive /\ v[k].master = w[k].master
                  /\ v[k].summons = (IF k = c THEN {} ELSE w[k].summons)
  <2> TAKE k \in Creatures
  <2>1. CASE k = c
    BY <1>5, <1>6, <1>9, <2>1
  <2>2. CASE k # c
    BY <1>6, <1>9, <2>2
  <2> QED
    BY <2>1, <2>2
<1> QED
  BY <1>2, <1>11, <1>12

(* Those in S leave the world: the others stay fit for it but for the summons of
   the gone, and attack whom they see. *)
Gone(w, v, S) ==
  /\ v \in Worlds
  /\ \A x \in Creatures :
       /\ v[x].at = w[x].at /\ v[x].alive = w[x].alive /\ (Placed(v, x) <=> Placed(w, x) /\ x \notin S)
       /\ x \notin S => v[x].master = w[x].master
       /\ v[x].summons \subseteq w[x].summons /\ w[x].summons \ S \subseteq v[x].summons
       /\ x \notin S /\ w[x].master \notin S /\ Stirred(w, x) => Stirred(v, x)
       /\ \A e : Keen(w, x, e) => Keen(v, x, e)

LEMMA GoneSelf ==
  ASSUME NEW w \in Worlds, NEW S, \A x \in S : ~Placed(w, x)
  PROVE  Gone(w, w, S)
<1> QED
  BY DEF Gone

LEMMA GoneThen ==
  ASSUME NEW w \in Worlds, NEW v, NEW u, NEW S, NEW T, Gone(w, v, S), Gone(v, u, T)
  PROVE  Gone(w, u, S \cup T)
<1> QED
  BY DEF Gone

(* What happens to c once all have seen it go. *)
Takes(u, v, c) ==
  /\ v \in Worlds /\ v[c].removed
  /\ \A x \in Creatures :
       /\ v[x].at = u[x].at /\ v[x].alive = u[x].alive
       /\ v[x].summons \subseteq u[x].summons /\ u[x].summons \ {c} \subseteq v[x].summons
       /\ x # c => SameMind(u, v, x) /\ v[x].removed = u[x].removed /\ v[x].master = u[x].master

LEMMA TakesThen ==
  ASSUME NEW w, NEW v, NEW u, NEW c, Takes(w, v, c), Takes(v, u, c)
  PROVE  Takes(w, u, c)
<1> QED
  BY DEF Takes, SameMind

LEMMA TakesOne ==
  ASSUME NEW w \in Worlds, NEW c \in Creatures, NEW r \in Fields,
         r.at = w[c].at, r.alive = w[c].alive, r.summons = w[c].summons, r.removed
  PROVE  Takes(w, [w EXCEPT ![c] = r], c)
<1> DEFINE v == [w EXCEPT ![c] = r]
<1>1. v \in Worlds /\ v[c] = r /\ \A k \in Creatures \ {c} : v[k] = w[k]
  BY Put
<1> HIDE DEF v
<1>2. Takes(w, v, c)
  <2>1. ASSUME NEW x \in Creatures
        PROVE  /\ v[x].at = w[x].at /\ v[x].alive = w[x].alive /\ v[x].summons = w[x].summons
               /\ x # c => SameMind(w, v, x) /\ v[x].removed = w[x].removed /\ v[x].master = w[x].master
    <3>1. CASE x = c
      BY <1>1, <3>1
    <3>2. CASE x # c
      BY <1>1, <3>2 DEF SameMind
    <3> QED
      BY <3>1, <3>2
  <2> QED
    BY <1>1, <2>1 DEF Takes
<1> QED
  BY <1>2 DEF v

LEMMA RemoveAloneTakes ==
  ASSUME NEW w \in Worlds, NEW c \in Creatures, ~w[c].removed
  PROVE  Takes(SeeAll(w, c, At(w, w[c].at)), RemoveAlone(w, c), c)
<1> DEFINE u == SeeAll(w, c, At(w, w[c].at))
           t == [u EXCEPT ![c].removed = TRUE]
           m == LeaveMaster(t, c)
           n == [m EXCEPT ![c].released = @ + 1]
           v == RemoveCheck(n, c)
<1>0. RemoveAlone(w, c) = v
  BY DEF RemoveAlone, SeeAll
<1>1. u \in Worlds
  <2>1. At(w, w[c].at) \in SUBSET Creatures
    BY DEF At
  <2> QED
    BY <2>1, SeeAllCalm DEF Calm
<1> HIDE DEF u
<1>2. Takes(u, t, c) /\ t \in Worlds
  <2> DEFINE r == [u[c] EXCEPT !.removed = TRUE]
  <2>1. u[c] \in Fields /\ TRUE \in BOOLEAN
    BY <1>1 DEF Worlds
  <2>2. r \in Fields
    BY <2>1, OneField
  <2>3. r.at = u[c].at /\ r.alive = u[c].alive /\ r.summons = u[c].summons /\ r.removed
    BY <2>1 DEF Fields
  <2>4. t = [u EXCEPT ![c] = r]
    OBVIOUS
  <2> HIDE DEF r
  <2>5. Takes(u, [u EXCEPT ![c] = r], c)
    BY <1>1, <2>2, <2>3, TakesOne
  <2> QED
    BY <2>4, <2>5 DEF Takes
<1> HIDE DEF t
<1>3. Takes(t, m, c) /\ m \in Worlds
  <2>0. t[c].removed
    BY <1>2 DEF Takes
  <2>1. CASE m = t
    BY <1>2, <2>0, <2>1 DEF Takes, SameMind
  <2>2. CASE m # t
    <3> DEFINE M == t[c].master
    <3>1. M # NoCreature /\ m = RemoveSummon(t, M, c) /\ c \in t[M].summons
      BY <2>2 DEF LeaveMaster, RemoveSummon
    <3>2. M \in Creatures
      BY <1>2, <3>1, FieldsTyped
    <3> HIDE DEF M
    <3>3. LooseIs(t, m, c)
      <4> DEFINE y == RemoveSummon(t, M, c)
      <4>1. LooseIs(t, y, c)
        BY <1>2, <3>1, <3>2, RemoveSummonIs
      <4> HIDE DEF y, m
      <4>2. m = y
        BY <3>1 DEF y
      <4> QED
        BY <4>1, <4>2
    <3> HIDE DEF m
    <3> QED
      BY <2>0, <3>3 DEF Takes, LooseIs
  <2> QED
    BY <2>1, <2>2
<1> HIDE DEF m
<1>4. Takes(m, n, c) /\ n \in Worlds
  <2> DEFINE r == [m[c] EXCEPT !.released = m[c].released + 1]
  <2>1. m[c] \in Fields /\ m[c].released + 1 \in Nat
    BY <1>3 DEF Worlds, Fields
  <2>2. r \in Fields
    BY <2>1, OneField
  <2>3. r.at = m[c].at /\ r.alive = m[c].alive /\ r.summons = m[c].summons /\ r.removed
    BY <1>3, <2>1 DEF Fields, Takes
  <2>4. n = [m EXCEPT ![c] = r]
    BY <1>3 DEF Worlds
  <2> HIDE DEF r
  <2>5. Takes(m, [m EXCEPT ![c] = r], c)
    BY <1>3, <2>2, <2>3, TakesOne
  <2> QED
    BY <2>4, <2>5 DEF Takes
<1> HIDE DEF n
<1>5. Takes(n, v, c)
  <2> DEFINE r == [n[c] EXCEPT !.checked = FALSE]
  <2>1. n[c] \in Fields /\ FALSE \in BOOLEAN
    BY <1>4 DEF Worlds
  <2>2. r \in Fields
    BY <2>1, OneField
  <2>3. r.at = n[c].at /\ r.alive = n[c].alive /\ r.summons = n[c].summons /\ r.removed
    BY <1>4, <2>1 DEF Fields, Takes
  <2>4. v = [n EXCEPT ![c] = r] \/ v = n
    BY DEF RemoveCheck
  <2> HIDE DEF r
  <2>5. Takes(n, [n EXCEPT ![c] = r], c)
    BY <1>4, <2>2, <2>3, TakesOne
  <2>6. Takes(n, n, c)
    BY <1>4 DEF Takes, SameMind
  <2> QED
    BY <2>4, <2>5, <2>6
<1> HIDE DEF v
<1>6. Takes(u, v, c)
  <2>1. Takes(u, m, c)
    BY <1>2, <1>3, TakesThen
  <2>2. Takes(u, n, c)
    BY <1>4, <2>1, TakesThen
  <2> QED
    BY <1>5, <2>2, TakesThen
<1> QED
  BY <1>0, <1>6 DEF u

(* Game::removeCreature, of one creature and of several. *)
LEMMA RemoveAloneGone ==
  ASSUME NEW w \in Worlds, NEW c \in Creatures
  PROVE  Gone(w, RemoveAlone(w, c), {c})
<1>1. CASE w[c].removed
  <2>1. RemoveAlone(w, c) = w
    BY <1>1 DEF RemoveAlone
  <2>2. \A x \in {c} : ~Placed(w, x)
    BY <1>1 DEF Placed
  <2>3. Gone(w, w, {c})
    BY <2>2, GoneSelf
  <2> QED
    BY <2>1, <2>3
<1>2. CASE ~w[c].removed
  <2> DEFINE S == At(w, w[c].at)
             u == SeeAll(w, c, S)
             v == RemoveAlone(w, c)
  <2>1. S \in SUBSET Creatures
    BY DEF At
  <2>2. Tends(w, u, Farewells(c)) /\ Cools(w, u) /\ \A d \in S : u[d].attacked # c
    <3> HIDE DEF S
    <3> QED
      BY <2>1, SeeAllTends
  <2>3. Takes(u, v, c)
    BY <1>2, RemoveAloneTakes
  <2> HIDE DEF u, v
  <2>4. u \in Worlds /\ v \in Worlds /\ SameScene(w, u)
    BY <2>2, <2>3 DEF Tends, Takes
  <2>5. \A x \in Creatures : /\ Placed(u, x) = Placed(w, x)
                             /\ (Placed(v, x) <=> Placed(u, x) /\ x # c)
    BY <2>3, <2>4 DEF Takes, SameScene, Placed
  <2>6. \A x, d \in Creatures : Sees(u, x, d) = Sees(w, x, d) /\ (Sees(v, x, d) <=> Sees(u, x, d) /\ d # c)
    BY <2>3, <2>4, <2>5 DEF Takes, SameScene, Sees
  <2>7. \A x \in Creatures \ {c} : Untouched(u, v, x)
    BY <2>3 DEF Takes, Untouched
  <2>8. ASSUME NEW x \in Creatures, x # c, w[x].master # c, Stirred(w, x)
        PROVE  Stirred(v, x)
    <3>0. u[x].master \in Creatures \cup {NoCreature} /\ u[x].master # c
      BY <2>4, <2>8, FieldsTyped DEF SameScene
    <3>1. Stirred(u, x)
      BY <2>2, <2>8, TendsKeep
    <3>2. Untouched(u, v, x)
      BY <2>7, <2>8
    <3>3. isSummon(u, x) /\ Placed(u, u[x].master) /\ x \in u[u[x].master].summons
           => Placed(v, u[x].master) /\ x \in v[u[x].master].summons
      <4> SUFFICES ASSUME isSummon(u, x), Placed(u, u[x].master), x \in u[u[x].master].summons
                   PROVE  Placed(v, u[x].master) /\ x \in v[u[x].master].summons
        OBVIOUS
      <4>1. u[x].master \in Creatures \ {c}
        BY <3>0 DEF isSummon
      <4> QED
        BY <2>3, <2>5, <2>8, <4>1 DEF Takes
    <3> QED
      BY <3>1, <3>2, <3>3, UntouchedStirred
  <2>9. ASSUME NEW x \in Creatures, NEW e, Keen(w, x, e)
        PROVE  Keen(v, x, e)
    <3> SUFFICES ASSUME Placed(v, x) PROVE Keen(v, x, e)
      BY DEF Keen
    <3>1. x # c /\ Placed(w, x) /\ Placed(u, x)
      BY <2>5
    <3>2. Untouched(u, v, x) /\ v[x].attacked = u[x].attacked
      BY <2>7, <3>1 DEF Untouched, SameMind
    <3>3. u[x].attacked \in Creatures \cup {NoCreature}
      BY <2>4, FieldsTyped
    <3>4. Aims(u, x, e)
      BY <2>2, <2>9, <3>1 DEF Keen, Tends
    <3>5. Aims(v, x, e)
      <4>1. CASE u[x].attacked \in {NoCreature, e}
        BY <3>2, <4>1 DEF Aims
      <4>2. CASE u[x].attacked \notin {NoCreature, e}
        <5>1. u[x].attacked \in Creatures /\ Sees(u, x, u[x].attacked)
          BY <3>3, <3>4, <4>2 DEF Aims
        <5>2. u[x].attacked # c
          <6> SUFFICES ASSUME u[x].attacked = c PROVE FALSE
            OBVIOUS
          <6>1. Sees(w, x, c)
            BY <2>6, <5>1
          <6>2. x \in S
            BY <3>1, <6>1 DEF At, Sees
          <6> QED
            BY <2>2, <6>2
        <5>3. Sees(v, x, u[x].attacked)
          BY <2>6, <5>1, <5>2
        <5> QED
          BY <3>2, <5>3 DEF Aims
      <4> QED
        BY <4>1, <4>2
    <3>6. ASSUME NEW p \in PlayerIds \ {e} PROVE Knows(v, x, p)
      <4>0. p \in Creatures
        BY DEF Creatures
      <4>1. CASE p = c
        <5>1. ~Sees(v, x, p)
          BY <2>6, <4>0, <4>1
        <5> QED
          BY <5>1 DEF Knows
      <4>2. CASE p # c
        <5>1. <<x, p>> \notin Farewells(c)
          BY <3>1, <4>2 DEF Farewells
        <5>2. Knows(w, x, p)
          BY <2>9, <3>1 DEF Keen
        <5>3. Knows(u, x, p)
          BY <2>2, <5>1, <5>2 DEF Tends
        <5>4. v[p].alive = u[p].alive /\ (Sees(v, x, p) => Sees(u, x, p))
          BY <2>3, <2>6, <4>0 DEF Takes
        <5> QED
          BY <3>2, <5>3, <5>4 DEF Knows, Untouched, SameMind, isSummon
      <4> QED
        BY <4>1, <4>2
    <3> QED
      BY <3>5, <3>6 DEF Keen
  <2>10. ASSUME NEW x \in Creatures
         PROVE  /\ v[x].at = w[x].at /\ v[x].alive = w[x].alive /\ (Placed(v, x) <=> Placed(w, x) /\ x # c)
                /\ x # c => v[x].master = w[x].master
                /\ v[x].summons \subseteq w[x].summons /\ w[x].summons \ {c} \subseteq v[x].summons
    BY <2>3, <2>4, <2>5 DEF Takes, SameScene
  <2>11. Gone(w, v, {c})
    BY <2>4, <2>8, <2>9, <2>10 DEF Gone
  <2> QED
    BY <2>11 DEF v
<1> QED
  BY <1>1, <1>2

LEMMA RemoveAllGone ==
  ASSUME NEW w \in Worlds, NEW S \in SUBSET Creatures
  PROVE  Gone(w, ForAll(RemoveAlone, w, S), S)
<1> DEFINE G == {q \in (SUBSET S) \X Worlds : Gone(w, q[2], q[1])}
<1>1. G \in SUBSET ((SUBSET S) \X Worlds) /\ <<{}, w>> \in G
  <2>1. Gone(w, w, {})
    BY GoneSelf
  <2> QED
    BY <2>1
<1>2. ASSUME NEW s \in SUBSET S, NEW v \in Worlds, s # {}, <<s \ {Pick(s)}, v>> \in G
      PROVE  <<s, RemoveAlone(v, Pick(s))>> \in G
  <2>1. Pick(s) \in s /\ Pick(s) \in Creatures
    BY <1>2 DEF Pick
  <2> DEFINE u == RemoveAlone(v, Pick(s))
  <2>2. Gone(w, v, s \ {Pick(s)})
    BY <1>2
  <2>3. Gone(v, u, {Pick(s)})
    BY <2>1, RemoveAloneGone
  <2> HIDE DEF u
  <2>4. Gone(w, u, (s \ {Pick(s)}) \cup {Pick(s)}) /\ u \in Worlds
    <3>1. Gone(w, u, (s \ {Pick(s)}) \cup {Pick(s)})
      BY <2>2, <2>3, GoneThen
    <3> QED
      BY <3>1 DEF Gone
  <2>5. (s \ {Pick(s)}) \cup {Pick(s)} = s
    BY <2>1
  <2> QED
    BY <2>4, <2>5 DEF u
<1> HIDE DEF G
<1>3. <<S, ForAll(RemoveAlone, w, S)>> \in G
  BY <1>1, <1>2, RemoveAllFold
<1> QED
  BY <1>3 DEF G

(* If the summons of c go, and c itself only with all of them, those that stay
   still serve who stays. *)
AllStirred(w) == \A x \in Creatures : Stirred(w, x)

LEMMA GoneStirred ==
  ASSUME NEW w \in Worlds, NEW v, NEW c \in Creatures, NEW S \in SUBSET Creatures,
         AllStirred(w), Bound(w), Gone(w, v, S), S \subseteq {c} \cup w[c].summons,
         c \in S => w[c].summons \ {c} \subseteq S
  PROVE  AllStirred(v)
<1> SUFFICES ASSUME NEW x \in Creatures, Placed(v, x) PROVE Stirred(v, x)
  BY DEF AllStirred, Stirred
<1>1. Placed(w, x) /\ x \notin S
  BY DEF Gone
<1>2. Serves(w, x) /\ w[x].master \in Creatures \cup {NoCreature}
  BY <1>1, FieldsTyped DEF AllStirred, Stirred
<1>3. w[x].master \notin S
  <2> SUFFICES ASSUME w[x].master \in S PROVE FALSE
    OBVIOUS
  <2> DEFINE M == w[x].master
  <2>1. M \in Creatures /\ isSummon(w, x)
    BY <1>2, CreatureAssumption DEF isSummon, Creatures
  <2>2. Placed(w, M) /\ x \in w[M].summons
    BY <1>2, <2>1 DEF Serves
  <2>3. CASE M = c
    BY <1>1, <2>2, <2>3
  <2>4. CASE M # c
    <3>1. M \in w[c].summons
      BY <2>4
    <3>2. w[M].master = c
      BY <3>1 DEF Bound
    <3>3. Serves(w, M)
      BY <2>1, <2>2 DEF AllStirred, Stirred
    <3>4. w[M].summons = {}
      BY <3>2, <3>3, CreatureAssumption DEF Serves, isSummon, Creatures
    <3> QED
      BY <2>2, <3>4
  <2> QED
    BY <2>3, <2>4
<1> QED
  BY <1>1, <1>3 DEF AllStirred, Gone

(* Between two handlers. *)
Minded(w) == w \in Worlds /\ AllStirred(w) /\ \A x \in Creatures : Keen(w, x, NoCreature)

LEMMA FaresMinded ==
  ASSUME NEW w, NEW v, NEW S, Minded(w), Fares(w, v, S)
  PROVE  Minded(v)
<1> QED
  BY DEF Minded, Fares, AllStirred

LEMMA TendsMinded ==
  ASSUME NEW w, NEW v, Minded(w), Tends(w, v, {})
  PROVE  Minded(v)
<1>1. Fares(w, v, {})
  BY TendsFares DEF Minded
<1> QED
  BY <1>1, FaresMinded

LEMMA RemoveCreatureMinded ==
  ASSUME NEW w, Minded(w), Bound(w), NEW c \in Creatures
  PROVE  Minded(RemoveCreature(w, c))
<1> DEFINE u == RemoveAlone(w, c)
           S == u[c].summons
           v == RemoveSummons(u, c)
<1>1. w \in Worlds
  BY DEF Minded
<1>2. RemoveCreature(w, c) = v
  BY DEF RemoveCreature
<1>3. Gone(w, u, {c}) /\ u \in Worlds
  <2>1. Gone(w, u, {c})
    BY <1>1, RemoveAloneGone
  <2> QED
    BY <2>1 DEF Gone
<1>4. v = ForAll(RemoveAlone, u, S)
  BY DEF RemoveSummons
<1> HIDE DEF u, v
<1>5. S \in SUBSET Creatures /\ S \subseteq w[c].summons /\ w[c].summons \ {c} \subseteq S
  BY <1>3, FieldsTyped DEF Gone
<1> HIDE DEF S
<1>6. Gone(u, v, S)
  BY <1>3, <1>4, <1>5, RemoveAllGone
<1>7. Gone(w, v, {c} \cup S) /\ v \in Worlds
  <2>1. Gone(w, v, {c} \cup S)
    BY <1>1, <1>3, <1>6, GoneThen
  <2> QED
    BY <2>1 DEF Gone
<1>8. AllStirred(v)
  <2>1. {c} \cup S \in SUBSET Creatures /\ {c} \cup S \subseteq {c} \cup w[c].summons
        /\ w[c].summons \ {c} \subseteq {c} \cup S
    BY <1>5
  <2> QED
    BY <1>1, <1>7, <2>1, GoneStirred DEF Minded
<1> QED
  BY <1>2, <1>7, <1>8 DEF Minded, Gone

(* Summons too far behind their master go; their master stays. *)
LEMMA LeaveBehindStirs ==
  ASSUME NEW w \in Worlds, AllStirred(w), Bound(w), NEW c \in Creatures
  PROVE  LET v == LeaveBehind(w, c)
         IN  /\ v \in Worlds /\ AllStirred(v) /\ (Placed(w, c) => Placed(v, c))
             /\ \A x \in Creatures : v[x].at = w[x].at /\ \A e : Keen(w, x, e) => Keen(v, x, e)
<1> DEFINE S == {s \in w[c].summons : w[s].at # w[c].at}
           v == ForAll(RemoveAlone, w, S)
<1>1. LeaveBehind(w, c) = v
  BY DEF LeaveBehind
<1>2. S \in SUBSET Creatures /\ S \subseteq {c} \cup w[c].summons /\ c \notin S
  BY FieldsTyped
<1> HIDE DEF S
<1>3. Gone(w, v, S)
  BY <1>2, RemoveAllGone
<1> HIDE DEF v
<1>4. AllStirred(v)
  BY <1>2, <1>3, GoneStirred
<1> QED
  BY <1>1, <1>2, <1>3, <1>4 DEF Gone

(* Who is dead forgets without harm. *)
LEMMA ClearListsTends ==
  ASSUME NEW w \in Worlds, NEW c \in Creatures, ~w[c].alive
  PROVE  Tends(w, ClearLists(w, c), {})
<1> DEFINE v == ClearLists(w, c)
<1>1. Relisted(w, v, c, {})
  BY ClearListsMind
<1>2. v \in Worlds /\ SameScene(w, v)
  <2>1. Calm(w, v)
    BY ClearListsCalm
  <2> QED
    BY <2>1 DEF Calm, SameFrame, SameScene
<1> HIDE DEF v
<1>3. \A x, d \in Creatures : Placed(v, d) = Placed(w, d) /\ Sees(v, x, d) = Sees(w, x, d)
  BY <1>2 DEF Placed, Sees, SameScene
<1>4. ASSUME NEW x \in Creatures
      PROVE  /\ Heard(w, x) => Heard(v, x)
             /\ Placed(w, x) /\ Bored(w, x) => Bored(v, x)
             /\ x \in PlayerIds => v[x].idle = w[x].idle
  BY <1>1, <1>2 DEF Heard, Bored, Relisted, SameScene, isSummon
<1>5. ASSUME NEW x \in Creatures, NEW e, Aims(w, x, e) PROVE Aims(v, x, e)
  <2>1. w[x].attacked \in Creatures \cup {NoCreature} /\ v[x].attacked = w[x].attacked
    BY <1>1, FieldsTyped DEF Relisted
  <2> QED
    BY <1>3, <1>5, <2>1 DEF Aims
<1>6. ASSUME NEW x \in Creatures, NEW p \in PlayerIds, Knows(w, x, p) PROVE Knows(v, x, p)
  <2>1. p \in Creatures
    BY DEF Creatures
  <2>2. CASE x = c
    BY <1>2, <2>2 DEF Knows, SameScene
  <2>3. CASE x # c
    BY <1>1, <1>2, <1>3, <1>6, <2>1, <2>3 DEF Knows, Relisted, SameScene, isSummon
  <2> QED
    BY <2>2, <2>3
<1>7. Tends(w, v, {})
  BY <1>2, <1>4, <1>5, <1>6 DEF Tends
<1> QED
  BY <1>7 DEF v

(* Creature::onDeath, with the removal it ends in. *)
LEMMA GiveUpMinded ==
  ASSUME NEW w, Minded(w), NEW c \in Creatures, ~w[c].alive, c \notin w[c].summons
  PROVE  Minded(GiveUp(w, c))
<1>1. CASE c \in PlayerIds
  BY <1>1 DEF GiveUp
<1>2. CASE c \notin PlayerIds
  <2> DEFINE v == DestroySummons(w, c)
             u == ClearLists(v, c)
             t == SetAttacked(u, c, NoCreature)
  <2>0. w \in Worlds
    BY DEF Minded
  <2>1. Fares(w, v, w[c].summons) /\ v[c].alive = w[c].alive
    BY <2>0, DestroySummonsFares
  <2>2. GiveUp(w, c) = t
    BY <1>2 DEF GiveUp
  <2> HIDE DEF v
  <2>3. Minded(v) /\ v \in Worlds /\ ~v[c].alive
    <3>1. Minded(v)
      BY <2>1, FaresMinded
    <3> QED
      BY <2>1, <3>1 DEF Minded
  <2>4. Minded(u)
    BY <2>3, ClearListsTends, TendsMinded
  <2> HIDE DEF u
  <2>5. u \in Worlds
    BY <2>4 DEF Minded
  <2>6. Tends(u, t, {})
    BY <2>5, SetAttackedTends
  <2> HIDE DEF t
  <2>7. Minded(t)
    BY <2>4, <2>6, TendsMinded
  <2> QED
    BY <2>2, <2>7
<1> QED
  BY <1>1, <1>2

LEMMA DieMinded ==
  ASSUME NEW w, Minded(w), Fit(w), NEW c \in Creatures, ~w[c].alive
  PROVE  Minded(Die(w, c))
<1> DEFINE v == IF w[c].master # NoCreature THEN RemoveSummon(w, w[c].master, c) ELSE w
           u == GiveUp(v, c)
<1>0. w \in Worlds
  BY DEF Minded
<1>1. w[c].master \in Creatures \cup {NoCreature}
  BY <1>0, FieldsTyped
<1>2. Keeps(w, v)
  BY <1>0, <1>1, RemoveSummonKeeps, KeepsSelf
<1>3. Die(w, c) = RemoveCreature(u, c)
  BY DEF Die
<1>4. Minded(v) /\ ~v[c].alive /\ c \notin v[c].summons
  <2>1. CASE w[c].master # NoCreature /\ c \in w[w[c].master].summons
    <3> DEFINE M == w[c].master
               y == RemoveSummon(w, M, c)
    <3>1. v = y /\ M \in Creatures /\ c \in w[M].summons
      BY <1>1, <2>1
    <3> HIDE DEF M
    <3>2. /\ LooseIs(w, y, c)
          /\ \A k \in Creatures : y[k].summons = (IF k = M THEN w[M].summons \ {c} ELSE w[k].summons)
      BY <1>0, <3>1, RemoveSummonIs
    <3> HIDE DEF y, v
    <3>3. Fares(w, y, {})
      BY <1>0, <3>2, LooseFares
    <3>4. c \in w[c].summons => M = c
      BY <1>0 DEF Fit, Bound, M
    <3> QED
      BY <3>1, <3>2, <3>3, <3>4, FaresMinded DEF LooseIs
  <2>2. CASE w[c].master = NoCreature \/ c \notin w[w[c].master].summons
    <3>1. v = w
      BY <2>2 DEF RemoveSummon
    <3>2. c \in w[c].summons => w[c].master = c
      BY DEF Fit, Bound
    <3> QED
      BY <2>2, <3>1, <3>2, CreatureAssumption DEF Creatures
  <2> QED
    BY <2>1, <2>2
<1> HIDE DEF v
<1>5. Minded(u)
  BY <1>4, GiveUpMinded
<1>6. Keeps(w, u)
  <2>1. v \in Worlds
    BY <1>4 DEF Minded
  <2> QED
    BY <1>2, <2>1, GiveUpKeeps, KeepsThen
<1> HIDE DEF u
<1>7. Bound(u)
  BY <1>6 DEF Keeps, Fit
<1> QED
  BY <1>3, <1>5, <1>7, RemoveCreatureMinded

(* The visits of one vector: who is no longer checked has nothing to do. *)
LEMMA UnlistedTends ==
  ASSUME NEW w \in Worlds, NEW c \in Creatures, ~w[c].checked
  PROVE  Tends(w, Unlisted(w, c), {})
<1> DEFINE r == [w[c] EXCEPT !.vec = -1, !.released = @ + 1, !.listed = FALSE]
           v == [w EXCEPT ![c] = r]
<1>1. w[c] \in Fields /\ w[c].released + 1 \in Nat
  BY DEF Worlds, Fields
<1>2. Unlisted(w, c) = v
  BY DEF Unlisted, Worlds
<1>3. r \in Fields
  BY <1>1 DEF Fields
<1>4. /\ r.at = w[c].at /\ r.removed = w[c].removed /\ r.alive = w[c].alive
      /\ r.master = w[c].master /\ r.summons = w[c].summons
      /\ r.idle = w[c].idle /\ r.attacked = w[c].attacked /\ r.checked = w[c].checked
      /\ r.targets = w[c].targets
  BY <1>1 DEF Fields
<1> HIDE DEF r
<1>5. v \in Worlds /\ v[c] = r /\ \A k \in Creatures \ {c} : v[k] = w[k]
  BY <1>3, Put
<1> HIDE DEF v
<1>6. SameScene(w, v)
  <2>1. ASSUME NEW x \in Creatures
        PROVE  /\ v[x].at = w[x].at /\ v[x].removed = w[x].removed /\ v[x].alive = w[x].alive
               /\ v[x].master = w[x].master /\ v[x].summons = w[x].summons
    BY <1>4, <1>5
  <2> QED
    BY <2>1 DEF SameScene
<1>7. \A x \in Creatures :
        /\ v[x].idle = w[x].idle /\ v[x].attacked = w[x].attacked /\ v[x].targets = w[x].targets
        /\ v[x].checked = w[x].checked /\ (x # c => v[x].vec = w[x].vec)
  BY <1>4, <1>5
<1>8. \A x, d \in Creatures : Placed(v, d) = Placed(w, d) /\ Sees(v, x, d) = Sees(w, x, d)
  BY <1>6 DEF Placed, Sees, SameScene
<1>9. ASSUME NEW x \in Creatures
      PROVE  /\ Heard(w, x) => Heard(v, x)
             /\ Placed(w, x) /\ Bored(w, x) => Bored(v, x)
             /\ x \in PlayerIds => v[x].idle = w[x].idle
  BY <1>6, <1>7 DEF Heard, Bored, SameScene, isSummon
<1>10. ASSUME NEW x \in Creatures, NEW e, Aims(w, x, e) PROVE Aims(v, x, e)
  <2>1. w[x].attacked \in Creatures \cup {NoCreature}
    BY FieldsTyped
  <2> QED
    BY <1>7, <1>8, <1>10, <2>1 DEF Aims
<1>11. ASSUME NEW x \in Creatures, NEW p \in PlayerIds, Knows(w, x, p) PROVE Knows(v, x, p)
  <2>1. p \in Creatures
    BY DEF Creatures
  <2> QED
    BY <1>6, <1>7, <1>8, <1>11, <2>1 DEF Knows, SameScene, isSummon
<1>12. Tends(w, v, {})
  BY <1>5, <1>6, <1>9, <1>10, <1>11 DEF Tends
<1> QED
  BY <1>2, <1>12

LEMMA VisitMinded ==
  ASSUME NEW w, Minded(w), Sound(w), NEW c \in Creatures, NEW keen
  PROVE  Minded(Visit(w, c, keen))
<1>0. w \in Worlds /\ Fit(w)
  BY DEF Sound
<1>1. CASE ~w[c].checked
  <2>1. Tends(w, Unlisted(w, c), {})
    BY <1>0, <1>1, UnlistedTends
  <2> QED
    BY <1>1, <2>1, TendsMinded DEF Visit
<1>2. CASE w[c].checked /\ w[c].alive
  <2>1. Tends(w, Think(w, c, keen), {})
    BY <1>0, ThinkTends
  <2> QED
    BY <1>2, <2>1, TendsMinded DEF Visit
<1>3. CASE w[c].checked /\ ~w[c].alive
  BY <1>0, <1>3, DieMinded DEF Visit
<1> QED
  BY <1>1, <1>2, <1>3

LEMMA VisitAllMinded ==
  ASSUME NEW w, Minded(w), Sound(w), NEW keen, NEW S \in SUBSET Creatures, \A c \in S : w[c].listed
  PROVE  Minded(VisitAll(w, keen, S))
<1> DEFINE G == {q \in (SUBSET S) \X Worlds :
                   Sound(q[2]) /\ Minded(q[2]) /\ \A c \in S \ q[1] : q[2][c].listed}
<1>0. w \in Worlds
  BY DEF Sound
<1>1. <<{}, w>> \in G
  BY <1>0
<1>2. ASSUME NEW s \in SUBSET S, NEW v \in Worlds, s # {}, <<s \ {Pick(s)}, v>> \in G
      PROVE  <<s, Visit(v, Pick(s), keen)>> \in G
  <2> DEFINE p == Pick(s)
             u == Visit(v, p, keen)
  <2>1. p \in s /\ p \in S /\ p \in Creatures
    BY <1>2 DEF Pick
  <2>2. Sound(v) /\ Minded(v) /\ \A c \in S \ (s \ {p}) : v[c].listed
    BY <1>2
  <2> HIDE DEF p
  <2>3. v[p].listed
    BY <2>1, <2>2
  <2>4. Sound(u) /\ \A k \in Creatures \ {p} : u[k].listed = v[k].listed
    BY <2>1, <2>2, <2>3, VisitSound
  <2>5. Minded(u)
    BY <2>1, <2>2, VisitMinded
  <2> HIDE DEF u
  <2>6. u \in Worlds
    BY <2>4 DEF Sound
  <2>7. \A c \in S \ s : u[c].listed
    BY <2>1, <2>2, <2>4
  <2>8. <<s, u>> \in G
    BY <2>4, <2>5, <2>6, <2>7
  <2> QED
    BY <2>8 DEF u, p
<1>3. G \in SUBSET ((SUBSET S) \X Worlds)
  OBVIOUS
<1>4. <<S, VisitAll(w, keen, S)>> \in G
  <2> HIDE DEF G
  <2> QED
    BY <1>0, <1>1, <1>2, <1>3, VisitAllFold
<1> QED
  BY <1>4

(* What a round does to the vectors and to the memory of who was removed. *)
LEMMA FiledMinded ==
  ASSUME NEW w, Minded(w)
  PROVE  Minded(Filed(w))
<1> DEFINE v == Filed(w)
<1>0. w \in Worlds
  BY DEF Minded
<1>1. ASSUME NEW k \in Creatures
      PROVE  /\ v[k] \in Fields
             /\ v[k].at = w[k].at /\ v[k].removed = w[k].removed /\ v[k].alive = w[k].alive
             /\ v[k].master = w[k].master /\ v[k].summons = w[k].summons
             /\ v[k].idle = w[k].idle /\ v[k].attacked = w[k].attacked /\ v[k].checked = w[k].checked
             /\ v[k].vec = w[k].vec /\ v[k].targets = w[k].targets
  <2>1. w[k] \in Fields
    BY <1>0 DEF Worlds
  <2>2. v[k] = [w[k] EXCEPT !.listed = @ \/ w[k].queued, !.queued = FALSE]
    BY DEF Filed
  <2> HIDE DEF v
  <2>3. w[k].listed \/ w[k].queued \in BOOLEAN
    BY <2>1 DEF Fields
  <2> QED
    BY <2>1, <2>2, <2>3 DEF Fields
<1>2. v \in Worlds
  BY <1>1 DEF Filed, Worlds
<1> HIDE DEF v
<1>3. SameScene(w, v) /\ \A x \in Creatures : SameMind(w, v, x)
  BY <1>1 DEF SameScene, SameMind
<1>4. Minded(v)
  BY <1>0, <1>2, <1>3, ScenesTend, TendsMinded
<1> QED
  BY <1>4 DEF v

LEMMA CleanupMinded ==
  ASSUME NEW w, Minded(w)
  PROVE  Minded(Cleanup(w))
<1> DEFINE v == Cleanup(w)
<1>0. w \in Worlds
  BY DEF Minded
<1>1. ASSUME NEW k \in Creatures
      PROVE  /\ v[k] \in Fields
             /\ v[k].at = w[k].at /\ v[k].removed = w[k].removed /\ v[k].alive = w[k].alive
             /\ v[k].master = w[k].master /\ v[k].summons = w[k].summons
             /\ v[k].idle = w[k].idle /\ v[k].attacked = w[k].attacked /\ v[k].checked = w[k].checked
             /\ v[k].vec = w[k].vec /\ v[k].targets = w[k].targets
  <2>1. w[k] \in Fields
    BY <1>0 DEF Worlds
  <2> DEFINE n == w[k].refs - w[k].released
             q == [w[k] EXCEPT !.refs = n]
  <2>2. v[k] = [w[k] EXCEPT !.refs = @ - w[k].released, !.released = 0]
    BY DEF Cleanup
  <2>3. n \in Int /\ 0 \in Nat
    BY <2>1 DEF Fields
  <2>4. v[k] = [q EXCEPT !.released = 0]
    BY <2>1, <2>2 DEF Fields
  <2> HIDE DEF v, n
  <2>5. /\ q \in Fields /\ q.at = w[k].at /\ q.removed = w[k].removed /\ q.alive = w[k].alive
        /\ q.master = w[k].master /\ q.summons = w[k].summons
        /\ q.idle = w[k].idle /\ q.attacked = w[k].attacked /\ q.checked = w[k].checked
        /\ q.vec = w[k].vec /\ q.targets = w[k].targets
    <3>1. q \in Fields
      BY <2>1, <2>3, OneField
    <3> QED
      BY <2>1, <3>1 DEF Fields
  <2> HIDE DEF q
  <2>6. v[k] \in Fields
    BY <2>3, <2>4, <2>5, OneField
  <2> QED
    BY <2>4, <2>5, <2>6 DEF Fields
<1>2. v \in Worlds
  BY <1>1 DEF Cleanup, Worlds
<1> HIDE DEF v
<1>3. SameScene(w, v) /\ \A x \in Creatures : SameMind(w, v, x)
  BY <1>1 DEF SameScene, SameMind
<1>4. Minded(v)
  BY <1>0, <1>2, <1>3, ScenesTend, TendsMinded
<1> QED
  BY <1>4 DEF v

(* addCreatureCheck. *)
LEMMA AddCheckTends ==
  ASSUME NEW w \in Worlds, NEW c \in Creatures
  PROVE  Tends(w, AddCheck(w, c), {}) /\ (~w[c].removed => Heard(AddCheck(w, c), c))
<1> DEFINE v == AddCheck(w, c)
<1>1. /\ \A x \in Creatures \ {c} : SameMind(w, v, x)
      /\ v[c].idle = w[c].idle /\ v[c].attacked = w[c].attacked /\ v[c].targets = w[c].targets
      /\ ~w[c].removed => v[c].checked /\ v[c].vec # -1
      /\ w[c].removed => v = w
  BY AddCheckMind
<1>2. v \in Worlds /\ SameScene(w, v)
  <2>1. Calm(w, v)
    BY AddCheckCalm
  <2> QED
    BY <2>1 DEF Calm, SameFrame, SameScene
<1> HIDE DEF v
<1>3. CASE w[c].removed
  BY <1>1, <1>3, TendsSelf DEF v
<1>4. CASE ~w[c].removed
  <2>1. \A x, d \in Creatures : Placed(v, d) = Placed(w, d) /\ Sees(v, x, d) = Sees(w, x, d)
    BY <1>2 DEF Placed, Sees, SameScene
  <2>2. ASSUME NEW x \in Creatures
        PROVE  /\ v[x].idle = w[x].idle /\ v[x].attacked = w[x].attacked /\ v[x].targets = w[x].targets
               /\ Heard(w, x) => Heard(v, x)
    <3>1. CASE x = c
      BY <1>1, <1>4, <3>1 DEF Heard
    <3>2. CASE x # c
      BY <1>1, <1>2, <3>2 DEF Heard, SameMind, SameScene
    <3> QED
      BY <3>1, <3>2
  <2>3. ASSUME NEW x \in Creatures, Placed(w, x) /\ Bored(w, x) PROVE Bored(v, x)
    BY <1>2, <2>2, <2>3 DEF Bored, SameScene, isSummon
  <2>4. ASSUME NEW x \in Creatures, NEW e, Aims(w, x, e) PROVE Aims(v, x, e)
    <3>1. w[x].attacked \in Creatures \cup {NoCreature}
      BY FieldsTyped
    <3> QED
      BY <2>1, <2>2, <2>4, <3>1 DEF Aims
  <2>5. ASSUME NEW x \in Creatures, NEW p \in PlayerIds, Knows(w, x, p) PROVE Knows(v, x, p)
    <3>1. p \in Creatures
      BY DEF Creatures
    <3> QED
      BY <1>2, <2>1, <2>2, <2>5, <3>1 DEF Knows, SameScene, isSummon
  <2>6. Tends(w, v, {})
    BY <1>2, <2>2, <2>3, <2>4, <2>5 DEF Tends
  <2>7. Heard(v, c)
    BY <1>1, <1>4 DEF Heard
  <2> QED
    BY <2>6, <2>7 DEF v
<1> QED
  BY <1>3, <1>4

(* Whoever sees c come knows it then, and c knows all it sees. *)
LEMMA LooksAtTends ==
  ASSUME NEW w \in Worlds, NEW d \in Creatures, NEW c \in Creatures, NEW p
  PROVE  LET v == LooksAt(w, d, c, p)
         IN  Tends(w, v, {}) /\ \A q \in PlayerIds : q = c \/ d = c => Knows(v, d, q)
<1> DEFINE v == LooksAt(w, d, c, p)
<1>1. CASE d \in PlayerIds
  <2>1. v = w
    BY <1>1 DEF LooksAt
  <2>2. \A q \in PlayerIds : Knows(w, d, q)
    BY <1>1, CreatureAssumption DEF Knows
  <2> HIDE DEF v
  <2> QED
    BY <2>1, <2>2, TendsSelf DEF v
<1>2. CASE d \notin PlayerIds /\ d # c
  <2>1. v = OnEnter(w, d, c) /\ d \in MonsterIds
    BY <1>2 DEF LooksAt, Creatures
  <2> HIDE DEF v
  <2>2. Tends(w, v, {}) /\ (c \in PlayerIds => Knows(v, d, c))
    BY <2>1, OnEnterTends
  <2> QED
    BY <1>2, <2>2 DEF v
<1>3. CASE d \notin PlayerIds /\ d = c
  <2> DEFINE b == w[w[c].master].at = p
             x == [w EXCEPT ![c].inRange = b]
             y == IF isSummon(w, c) THEN x ELSE w
             t == UpdateIdle(UpdateTargetList(y, c), c)
  <2>1. v = t /\ c \in MonsterIds
    BY <1>3 DEF LooksAt, Creatures
  <2>2. y \in {w, x} /\ b \in BOOLEAN
    OBVIOUS
  <2> HIDE DEF b, y
  <2>3. Tends(w, x, {})
    BY <2>2, NearMasterTends
  <2> HIDE DEF x
  <2>4. Tends(w, y, {}) /\ y \in Worlds
    <3>1. Tends(w, y, {})
      BY <2>2, <2>3, TendsSelf
    <3> QED
      BY <3>1 DEF Tends
  <2>5. Tends(y, t, {}) /\ \A q \in PlayerIds : Knows(t, c, q)
    BY <2>1, <2>4, LookAroundTends
  <2> HIDE DEF t, v
  <2>6. Tends(w, t, {})
    BY <2>4, <2>5, TendsThen
  <2> QED
    BY <1>3, <2>1, <2>5, <2>6 DEF v
<1> QED
  BY <1>1, <1>2, <1>3

LEMMA LookAllTends ==
  ASSUME NEW w \in Worlds, NEW c \in Creatures, NEW p, NEW S \in SUBSET Creatures
  PROVE  LET v == LookAll(w, c, p, S)
         IN  Tends(w, v, {}) /\ \A d \in S, q \in PlayerIds : q = c \/ d = c => Knows(v, d, q)
<1> DEFINE Met(s, v) == \A d \in s, q \in PlayerIds : q = c \/ d = c => Knows(v, d, q)
           G == {q \in (SUBSET S) \X Worlds : Tends(w, q[2], {}) /\ Met(q[1], q[2])}
<1>1. G \in SUBSET ((SUBSET S) \X Worlds) /\ <<{}, w>> \in G
  <2>1. Tends(w, w, {})
    BY TendsSelf
  <2> QED
    BY <2>1
<1>2. ASSUME NEW s \in SUBSET S, NEW v \in Worlds, s # {}, <<s \ {Pick(s)}, v>> \in G
      PROVE  <<s, LooksAt(v, Pick(s), c, p)>> \in G
  <2> DEFINE d == Pick(s)
             u == LooksAt(v, d, c, p)
  <2>1. d \in s /\ d \in Creatures
    BY <1>2 DEF Pick
  <2>2. Tends(w, v, {}) /\ Met(s \ {d}, v)
    BY <1>2
  <2> HIDE DEF d
  <2>3. Tends(v, u, {}) /\ \A q \in PlayerIds : q = c \/ d = c => Knows(u, d, q)
    BY <2>1, LooksAtTends
  <2> HIDE DEF u
  <2>4. Tends(w, u, {})
    BY <2>2, <2>3, TendsThen
  <2>5. ASSUME NEW e \in s, NEW q \in PlayerIds, q = c \/ e = c PROVE Knows(u, e, q)
    <3>1. CASE e = d
      BY <2>3, <2>5, <3>1
    <3>2. CASE e # d
      <4>1. e \in Creatures /\ Knows(v, e, q)
        BY <2>2, <2>5, <3>2
      <4> QED
        BY <2>3, <4>1 DEF Tends
    <3> QED
      BY <3>1, <3>2
  <2>6. u \in Worlds
    BY <2>3 DEF Tends
  <2>7. <<s, u>> \in G
    BY <2>4, <2>5, <2>6
  <2> QED
    BY <2>7 DEF u, d
<1> HIDE DEF G
<1>3. <<S, LookAll(w, c, p, S)>> \in G
  BY <1>1, <1>2, LookAllFold
<1> QED
  BY <1>3 DEF G

(* Game::placeCreature: who sees whom come. *)
LEMMA PlaceMinded ==
  ASSUME NEW w \in Worlds, NEW c \in Creatures, NEW p \in Tiles, w[c].at = NoTile, ~w[c].removed,
         w[c].attacked = NoCreature, ~w[c].idle, Serves(w, c),
         \A x \in Creatures \ {c} : Stirred(w, x) /\ Keen(w, x, NoCreature)
  PROVE  Minded(Place(w, c, p))
<1> DEFINE v == Arrived(w, c, p)
           S == At(v, p)
           u == LookAll(v, c, p, S)
           z == AddCheck(u, c)
<1>1. Place(w, c, p) = z
  BY DEF Place, Arrived, LookAll
<1>2. v \in Worlds /\ v[c] = Come(w[c], p) /\ \A k \in Creatures \ {c} : v[k] = w[k]
  BY ArrivedIs
<1> HIDE DEF v
<1>3. /\ v[c].at = p /\ ~v[c].removed /\ v[c].alive = w[c].alive /\ v[c].master = w[c].master
      /\ v[c].summons = w[c].summons /\ v[c].attacked = NoCreature /\ ~v[c].idle
  <2>1. w[c] \in Fields
    BY DEF Worlds
  <2> QED
    BY <1>2, <2>1 DEF Come, Fields
<1>4. ~Placed(w, c) /\ Placed(v, c) /\ \A x \in Creatures \ {c} : Placed(v, x) = Placed(w, x)
  BY <1>2, <1>3, CreatureAssumption DEF Placed
<1>5. \A x \in Creatures \ {c} : Untouched(w, v, x)
  BY <1>2 DEF Untouched, SameMind
<1>6. \A x, d \in Creatures \ {c} : Sees(v, x, d) = Sees(w, x, d)
  BY <1>2, <1>4 DEF Sees
<1>7. ASSUME NEW x \in Creatures \ {c}
      PROVE  /\ Stirred(v, x)
             /\ Placed(v, x) => Aims(v, x, NoCreature)
             /\ Placed(v, x) => \A q \in PlayerIds \ {c} : Knows(v, x, q)
  <2>0. w[x].master \in Creatures \cup {NoCreature} /\ w[x].attacked \in Creatures \cup {NoCreature}
    BY FieldsTyped
  <2>1. isSummon(w, x) /\ Placed(w, w[x].master) /\ x \in w[w[x].master].summons
           => Placed(v, w[x].master) /\ x \in v[w[x].master].summons
    <3> SUFFICES ASSUME isSummon(w, x), Placed(w, w[x].master), x \in w[w[x].master].summons
                 PROVE  Placed(v, w[x].master) /\ x \in v[w[x].master].summons
      OBVIOUS
    <3>1. w[x].master \in Creatures \ {c}
      BY <1>4, <2>0 DEF isSummon
    <3> QED
      BY <1>2, <1>4, <3>1
  <2>2. Stirred(v, x)
    BY <1>5, <2>1, UntouchedStirred
  <2>3. ASSUME Placed(v, x)
        PROVE  /\ Aims(v, x, NoCreature)
               /\ \A q \in PlayerIds \ {c} : Knows(v, x, q)
    <3>1. Keen(w, x, NoCreature) /\ Placed(w, x) /\ v[x] = w[x]
      BY <1>2, <1>4, <2>3
    <3>2. Aims(v, x, NoCreature)
      <4>1. CASE w[x].attacked = NoCreature
        BY <3>1, <4>1 DEF Aims
      <4>2. CASE w[x].attacked # NoCreature
        <5>1. Sees(w, x, w[x].attacked)
          BY <3>1, <4>2 DEF Keen, Aims
        <5>2. w[x].attacked \in Creatures \ {c}
          BY <1>4, <2>0, <4>2, <5>1 DEF Sees
        <5>3. Sees(v, x, v[x].attacked)
          BY <1>6, <3>1, <5>1, <5>2
        <5> QED
          BY <5>3 DEF Aims
      <4> QED
        BY <4>1, <4>2
    <3>3. ASSUME NEW q \in PlayerIds \ {c} PROVE Knows(v, x, q)
      <4>1. q \in Creatures \ {c} /\ q # NoCreature
        BY CreatureAssumption DEF Creatures
      <4>2. Knows(w, x, q)
        BY <3>1, <4>1 DEF Keen
      <4> QED
        BY <1>2, <1>6, <3>1, <4>1, <4>2 DEF Knows, isSummon
    <3> QED
      BY <3>2, <3>3
  <2> QED
    BY <2>2, <2>3
<1>8. S \in SUBSET Creatures
  BY DEF At
<1>9. c \in S /\ \A x \in Creatures : Sees(v, x, c) /\ Placed(v, x) => x \in S
  BY <1>3, <1>4 DEF At, Sees
<1> HIDE DEF S
<1>10. Tends(v, u, {}) /\ \A d \in S, q \in PlayerIds : q = c \/ d = c => Knows(u, d, q)
  BY <1>2, <1>8, LookAllTends
<1> HIDE DEF u
<1>11. u \in Worlds /\ SameScene(v, u)
  BY <1>10 DEF Tends
<1>12. \A x \in Creatures : Placed(u, x) = Placed(v, x)
  BY <1>11 DEF SameScene, Placed
<1>13. \A x \in Creatures : Keen(u, x, NoCreature)
  <2> SUFFICES ASSUME NEW x \in Creatures, Placed(u, x) PROVE Keen(u, x, NoCreature)
    BY DEF Keen
  <2>0. Placed(v, x)
    BY <1>12
  <2>1. Aims(u, x, NoCreature)
    <3>1. Aims(v, x, NoCreature)
      BY <1>3, <1>7, <2>0 DEF Aims
    <3> QED
      BY <1>10, <3>1 DEF Tends
  <2>2. ASSUME NEW q \in PlayerIds PROVE Knows(u, x, q)
    <3>1. CASE x = c
      BY <1>9, <1>10, <3>1
    <3>2. CASE x # c /\ q # c
      <4>1. Knows(v, x, q)
        BY <1>7, <2>0, <3>2
      <4> QED
        BY <1>10, <4>1 DEF Tends
    <3>3. CASE x # c /\ q = c
      <4>1. CASE x \in S
        BY <1>10, <3>3, <4>1
      <4>2. CASE x \notin S
        <5>1. Knows(v, x, q)
          BY <1>9, <2>0, <3>3, <4>2 DEF Knows
        <5> QED
          BY <1>10, <5>1 DEF Tends
      <4> QED
        BY <4>1, <4>2
    <3> QED
      BY <3>1, <3>2, <3>3
  <2> QED
    BY <2>1, <2>2 DEF Keen
<1>14. \A x \in Creatures \ {c} : Stirred(u, x)
  BY <1>2, <1>7, <1>10, TendsKeep
<1>15. Bored(u, c) /\ Serves(u, c) /\ (c \in PlayerIds => ~u[c].idle)
  <2>0. w[c].master \in Creatures \cup {NoCreature}
    BY FieldsTyped
  <2>1. Bored(v, c)
    BY <1>3 DEF Bored
  <2>2. Serves(v, c)
    <3> SUFFICES ASSUME isSummon(v, c) PROVE /\ c \in MonsterIds /\ v[c].summons = {}
                                              /\ Placed(v, v[c].master) /\ c \in v[v[c].master].summons
      BY DEF Serves
    <3>1. isSummon(w, c) /\ v[c].master = w[c].master
      BY <1>3 DEF isSummon
    <3>2. c \in MonsterIds /\ w[c].summons = {} /\ Placed(w, w[c].master) /\ c \in w[w[c].master].summons
      BY <3>1 DEF Serves
    <3>3. w[c].master \in Creatures \ {c}
      BY <1>4, <2>0, <3>1, <3>2 DEF isSummon
    <3> QED
      BY <1>2, <1>3, <1>4, <3>1, <3>2, <3>3
  <2>3. Serves(u, c)
    <3>1. v[c].master \in Creatures \cup {NoCreature}
      BY <1>3, <2>0
    <3> QED
      BY <1>11, <1>12, <2>2, <3>1 DEF Serves, SameScene, isSummon
  <2>4. Bored(u, c) /\ (c \in PlayerIds => ~u[c].idle)
    BY <1>3, <1>4, <1>10, <2>1 DEF Tends
  <2> QED
    BY <2>3, <2>4
<1>16. Tends(u, z, {}) /\ Heard(z, c)
  <2>1. ~u[c].removed
    BY <1>3, <1>11 DEF SameScene
  <2> QED
    BY <1>11, <2>1, AddCheckTends
<1> HIDE DEF z
<1>17. Stirred(z, c)
  <2>0. u[c].master \in Creatures \cup {NoCreature} /\ Placed(u, c)
    BY <1>4, <1>11, <1>12, FieldsTyped
  <2>1. SameScene(u, z) /\ Bored(z, c) /\ (c \in PlayerIds => ~z[c].idle)
    BY <1>15, <1>16, <2>0 DEF Tends
  <2>2. \A x \in Creatures : Placed(z, x) = Placed(u, x)
    BY <2>1 DEF SameScene, Placed
  <2>3. Serves(z, c)
    BY <1>15, <2>0, <2>1, <2>2 DEF Serves, SameScene, isSummon
  <2> QED
    BY <1>16, <2>1, <2>3 DEF Stirred
<1>18. Fares(u, z, {}) /\ z \in Worlds
  <2>1. Fares(u, z, {})
    BY <1>11, <1>16, TendsFares
  <2> QED
    BY <2>1 DEF Fares
<1>19. Minded(z)
  BY <1>13, <1>14, <1>17, <1>18 DEF Minded, AllStirred, Fares
<1> QED
  BY <1>1, <1>19

(* A creature that enters. *)
LEMMA EnterMinded ==
  ASSUME NEW w, Minded(w), NEW c \in Creatures, NEW p \in Tiles, w[c] = Unborn
  PROVE  Minded(Place(w, c, p))
<1>1. /\ w[c].at = NoTile /\ ~w[c].removed /\ w[c].attacked = NoCreature /\ ~w[c].idle
      /\ w[c].master = NoCreature
  BY DEF Unborn
<1>2. Serves(w, c)
  BY <1>1 DEF Serves, isSummon
<1>3. w \in Worlds /\ \A x \in Creatures \ {c} : Stirred(w, x) /\ Keen(w, x, NoCreature)
  BY DEF Minded, AllStirred
<1> QED
  BY <1>1, <1>2, <1>3, PlaceMinded

(* Another summon makes no difference to who is not one. *)
LEMMA AddSummonOthers ==
  ASSUME NEW w \in Worlds, NEW c \in Creatures, NEW s \in Creatures, c # s, ~isSummon(w, c)
  PROVE  \A x \in Creatures \ {s} :
           /\ Stirred(w, x) => Stirred(AddSummon(w, c, s), x)
           /\ \A e : Keen(w, x, e) => Keen(AddSummon(w, c, s), x, e)
<1> DEFINE v == AddSummon(w, c, s)
<1>1. v \in Worlds /\ v[c] = Joined(w[c], s) /\ v[s] = Owned(w[s], c)
      /\ \A k \in Creatures \ {c, s} : v[k] = w[k]
  BY AddSummonIs
<1> HIDE DEF v
<1>2. w[c] \in Fields /\ w[s] \in Fields
  BY DEF Worlds
<1>3. \A x \in Creatures :
        /\ v[x].at = w[x].at /\ v[x].removed = w[x].removed /\ v[x].alive = w[x].alive
        /\ SameMind(w, v, x)
        /\ x # s => v[x].master = w[x].master
        /\ v[x].summons = (IF x = c THEN w[c].summons \cup {s} ELSE w[x].summons)
  <2> TAKE x \in Creatures
  <2>1. CASE x = c
    BY <1>1, <1>2, <2>1 DEF Joined, Fields, SameMind
  <2>2. CASE x = s
    BY <1>1, <1>2, <2>2 DEF Owned, Fields, SameMind
  <2>3. CASE x \notin {c, s}
    BY <1>1, <2>3 DEF SameMind
  <2> QED
    BY <2>1, <2>2, <2>3
<1>4. \A x, d \in Creatures : Placed(v, d) = Placed(w, d) /\ Sees(v, x, d) = Sees(w, x, d)
  BY <1>3 DEF Placed, Sees
<1>5. ASSUME NEW x \in Creatures \ {s}, Stirred(w, x) PROVE Stirred(v, x)
  <2> SUFFICES ASSUME Placed(v, x) PROVE Stirred(v, x)
    BY DEF Stirred
  <2>0. w[x].master \in Creatures \cup {NoCreature}
    BY FieldsTyped
  <2>1. Heard(w, x) /\ Bored(w, x) /\ Serves(w, x) /\ (x \in PlayerIds => ~w[x].idle)
    BY <1>4, <1>5 DEF Stirred
  <2>2. Heard(v, x) /\ Bored(v, x) /\ (x \in PlayerIds => ~v[x].idle)
    BY <1>3, <2>1 DEF Heard, Bored, SameMind, isSummon
  <2>3. Serves(v, x)
    <3>1. CASE x = c
      BY <1>3, <3>1 DEF Serves, isSummon
    <3>2. CASE x # c
      BY <1>3, <1>4, <2>0, <2>1, <3>2 DEF Serves, isSummon
    <3> QED
      BY <3>1, <3>2
  <2> QED
    BY <2>2, <2>3 DEF Stirred
<1>6. ASSUME NEW x \in Creatures \ {s}, NEW e, Keen(w, x, e) PROVE Keen(v, x, e)
  <2> SUFFICES ASSUME Placed(v, x) PROVE Keen(v, x, e)
    BY DEF Keen
  <2>0. w[x].attacked \in Creatures \cup {NoCreature}
    BY FieldsTyped
  <2>1. Aims(v, x, e)
    BY <1>3, <1>4, <1>6, <2>0 DEF Keen, Aims, SameMind
  <2>2. ASSUME NEW q \in PlayerIds \ {e} PROVE Knows(v, x, q)
    <3>1. q \in Creatures
      BY DEF Creatures
    <3>2. Knows(w, x, q)
      BY <1>4, <1>6 DEF Keen
    <3> QED
      BY <1>3, <1>4, <3>1, <3>2 DEF Knows, SameMind, isSummon
  <2> QED
    BY <2>1, <2>2 DEF Keen
<1> QED
  BY <1>5, <1>6 DEF v

(* Game::placeSummon. *)
LEMMA SummonMinded ==
  ASSUME NEW w, Minded(w), NEW c \in Creatures, NEW m \in MonsterIds, NEW p \in Tiles,
         Placed(w, c), ~isSummon(w, c), w[m] = Unborn, c # m
  PROVE  Minded(Place(AddSummon(w, c, m), m, p))
<1> DEFINE v == AddSummon(w, c, m)
<1>0. w \in Worlds /\ m \in Creatures /\ Unborn \in Fields
  BY UnbornTyped DEF Minded, Creatures
<1>1. v \in Worlds /\ v[c] = Joined(w[c], m) /\ v[m] = Owned(w[m], c)
  BY <1>0, AddSummonIs
<1>2. \A x \in Creatures \ {m} : Stirred(v, x) /\ Keen(v, x, NoCreature)
  BY <1>0, AddSummonOthers DEF Minded, AllStirred
<1> HIDE DEF v
<1>3. /\ v[m].at = NoTile /\ ~v[m].removed /\ v[m].attacked = NoCreature /\ ~v[m].idle
      /\ v[m].master = c /\ v[m].summons = {}
  <2>1. v[m] = [Unborn EXCEPT !.refs = Unborn.refs + 1, !.master = c]
    BY <1>1 DEF Owned
  <2> QED
    BY <2>1 DEF Unborn
<1>4. v[c].at = w[c].at /\ v[c].removed = w[c].removed /\ m \in v[c].summons
  <2>1. w[c] \in Fields
    BY <1>0 DEF Worlds
  <2> QED
    BY <1>1, <2>1 DEF Joined, Fields
<1>5. Serves(v, m)
  BY <1>3, <1>4 DEF Serves, Placed
<1>6. Minded(Place(v, m, p))
  BY <1>0, <1>1, <1>2, <1>3, <1>5, PlaceMinded
<1> QED
  BY <1>6 DEF v

(* Those who see a monster convinced look around. *)
LEMMA TurnsTends ==
  ASSUME NEW w \in Worlds, NEW d \in Creatures, NEW c, NEW m
  PROVE  Tends(w, Turns(w, d, c, m), {})
<1>1. CASE d \in PlayerIds
  BY <1>1, TendsSelf DEF Turns
<1>2. CASE d \notin PlayerIds
  <2> DEFINE v == UpdateIdle(UpdateTargetList(w, d), d)
  <2>1. d \in MonsterIds
    BY <1>2 DEF Creatures
  <2>2. Turns(w, d, c, m) \in {w, v}
    BY DEF Turns
  <2>3. Tends(w, v, {})
    BY <2>1, LookAroundTends
  <2> HIDE DEF v
  <2> QED
    BY <2>2, <2>3, TendsSelf
<1> QED
  BY <1>1, <1>2

LEMMA TurnAllTends ==
  ASSUME NEW w \in Worlds, NEW c, NEW m, NEW S \in SUBSET Creatures
  PROVE  Tends(w, TurnAll(w, c, m, S), {})
<1> DEFINE G == {q \in (SUBSET S) \X Worlds : Tends(w, q[2], {})}
<1>1. G \in SUBSET ((SUBSET S) \X Worlds) /\ <<{}, w>> \in G
  BY TendsSelf
<1>2. ASSUME NEW s \in SUBSET S, NEW v \in Worlds, s # {}, <<s \ {Pick(s)}, v>> \in G
      PROVE  <<s, Turns(v, Pick(s), c, m)>> \in G
  <2> DEFINE u == Turns(v, Pick(s), c, m)
  <2>1. Pick(s) \in Creatures
    BY <1>2 DEF Pick
  <2>2. Tends(v, u, {}) /\ Tends(w, v, {})
    BY <1>2, <2>1, TurnsTends
  <2> HIDE DEF u
  <2>3. Tends(w, u, {})
    BY <2>2, TendsThen
  <2>4. u \in Worlds
    BY <2>3 DEF Tends
  <2>5. <<s, u>> \in G
    BY <2>3, <2>4
  <2> QED
    BY <2>5 DEF u
<1> HIDE DEF G
<1>3. <<S, TurnAll(w, c, m, S)>> \in G
  BY <1>1, <1>2, TurnAllFold
<1> QED
  BY <1>3 DEF G

(* Monster::convinceCreature: who is convinced has another master, whom it sees. *)
LEMMA ConvinceMinded ==
  ASSUME NEW w, Minded(w), Sound(w), NEW c \in PlayerIds, NEW m \in MonsterIds,
         Placed(w, c), Placed(w, m)
  PROVE  LET freed == IF isSummon(w, m) THEN RemoveSummon(w, w[m].master, m) ELSE w
         IN  Minded(AddSummon(DestroySummons(SetAttacked(freed, m, NoCreature), m), c, m))
<1> DEFINE freed == IF isSummon(w, m) THEN RemoveSummon(w, w[m].master, m) ELSE w
           b == SetAttacked(freed, m, NoCreature)
           S == b[m].summons
           d == DestroySummons(b, m)
           v == AddSummon(d, c, m)
<1>0. w \in Worlds /\ Fit(w) /\ c \in Creatures /\ m \in Creatures /\ c # m /\ m \notin PlayerIds
      /\ c \notin MonsterIds /\ c # NoCreature
  BY CreatureAssumption DEF Sound, Creatures
<1>1. \A x \in Creatures : Stirred(w, x) /\ Keen(w, x, NoCreature)
  BY DEF Minded, AllStirred
<1>2. /\ Others(w, freed, m) /\ freed[m].master = NoCreature
      /\ \A x \in Creatures : freed[x].at = w[x].at /\ freed[x].removed = w[x].removed
  <2>1. CASE isSummon(w, m)
    <3> DEFINE M == w[m].master
               y == RemoveSummon(w, M, m)
    <3>1. freed = y /\ M \in Creatures /\ m \in w[M].summons
      <4>1. Serves(w, m) /\ w[m].master \in Creatures \cup {NoCreature}
        BY <1>0, <1>1, FieldsTyped DEF Stirred
      <4> QED
        BY <2>1, <4>1 DEF Serves, isSummon
    <3> HIDE DEF M
    <3>2. LooseIs(w, y, m)
      BY <1>0, <3>1, RemoveSummonIs
    <3> HIDE DEF y
    <3>3. Others(w, y, m)
      BY <1>0, <3>2, LooseFares
    <3> HIDE DEF freed
    <3> QED
      BY <1>0, <3>1, <3>2, <3>3 DEF LooseIs
  <2>2. CASE ~isSummon(w, m)
    <3>1. freed = w
      BY <2>2
    <3> HIDE DEF freed
    <3> QED
      BY <1>0, <2>2, <3>1 DEF Others, isSummon
  <2> QED
    BY <2>1, <2>2
<1>3. Keeps(w, freed)
  <2>1. w[m].master \in Creatures \cup {NoCreature}
    BY <1>0, FieldsTyped
  <2> QED
    BY <1>0, <2>1, RemoveSummonKeeps, KeepsSelf DEF isSummon
<1> HIDE DEF freed
<1>4. freed \in Worlds /\ Fit(freed)
  BY <1>0, <1>3 DEF Keeps
<1>5. Tends(freed, b, {}) /\ Calm(freed, b)
  BY <1>0, <1>4, SetAttackedTends, SetAttackedCalm
<1>6. b \in Worlds /\ SameScene(freed, b) /\ Fit(b)
  <2>1. Keeps(freed, b)
    BY <1>4, <1>5, CalmKeeps
  <2> QED
    BY <1>4, <1>5, <2>1 DEF Tends, Keeps
<1> HIDE DEF b
<1>7. b[m].master = NoCreature /\ m \notin S /\ NoCreature \notin Creatures
  <2>1. b[m].master = NoCreature /\ NoCreature \notin Creatures
    BY <1>0, <1>2, <1>6, CreatureAssumption DEF SameScene, Creatures
  <2> QED
    BY <1>0, <1>6, <2>1 DEF Fit, Bound
<1>8. /\ Fares(b, d, S) /\ d[m].master = NoCreature /\ d[m].summons = {}
      /\ \A k \in Creatures : d[k].at = b[k].at /\ d[k].removed = b[k].removed
  BY <1>0, <1>6, <1>7, DestroySummonsFares
<1> HIDE DEF d, S
<1>9. d \in Worlds
  BY <1>8 DEF Fares
<1>10. \A x \in Creatures : Placed(d, x) = Placed(w, x)
  BY <1>2, <1>6, <1>8 DEF Placed, SameScene
<1>11. ASSUME NEW x \in Creatures \ {m} PROVE Stirred(d, x) /\ Keen(d, x, NoCreature)
  <2>1. Stirred(freed, x) /\ Keen(freed, x, NoCreature)
    BY <1>1, <1>2 DEF Others
  <2>2. Fares(freed, b, {})
    BY <1>4, <1>5, TendsFares
  <2>3. Stirred(b, x) /\ Keen(b, x, NoCreature)
    BY <2>1, <2>2 DEF Fares
  <2> QED
    BY <1>8, <2>3 DEF Fares
<1>12. Heard(d, m) /\ Aims(d, m, NoCreature)
  <2>1. Heard(w, m) /\ Aims(w, m, NoCreature)
    BY <1>0, <1>1 DEF Stirred, Keen
  <2>2. Heard(freed, m) /\ Aims(freed, m, NoCreature)
    BY <1>0, <1>2, <2>1 DEF Others
  <2>3. Heard(b, m) /\ Aims(b, m, NoCreature)
    BY <1>0, <1>5, <2>2 DEF Tends
  <2> QED
    BY <1>0, <1>7, <1>8, <2>3 DEF Fares
<1>13. ~isSummon(d, c)
  BY <1>0, <1>10, <1>11 DEF Stirred, Serves
<1>14. \A x \in Creatures \ {m} : Stirred(v, x) /\ Keen(v, x, NoCreature)
  BY <1>0, <1>9, <1>11, <1>13, AddSummonOthers
<1>15. v \in Worlds /\ v[c] = Joined(d[c], m) /\ v[m] = Owned(d[m], c)
       /\ \A k \in Creatures \ {c, m} : v[k] = d[k]
  BY <1>0, <1>9, AddSummonIs
<1> HIDE DEF v
<1>16. /\ v[m].idle = d[m].idle /\ v[m].alive = d[m].alive /\ v[m].checked = d[m].checked
       /\ v[m].vec = d[m].vec /\ v[m].attacked = d[m].attacked /\ v[m].master = c
       /\ v[m].summons = {} /\ m \in v[c].summons
  <2>1. d[c] \in Fields /\ d[m] \in Fields
    BY <1>0, <1>9 DEF Worlds
  <2> QED
    BY <1>8, <1>15, <2>1 DEF Joined, Owned, Fields
<1>17. \A x \in Creatures : v[x].at = d[x].at /\ v[x].removed = d[x].removed
  <2> TAKE x \in Creatures
  <2>1. d[x] \in Fields
    BY <1>9 DEF Worlds
  <2>2. CASE x = c
    BY <1>15, <2>1, <2>2 DEF Joined, Fields
  <2>3. CASE x = m
    BY <1>15, <2>1, <2>3 DEF Owned, Fields
  <2>4. CASE x \notin {c, m}
    BY <1>15, <2>4
  <2> QED
    BY <2>2, <2>3, <2>4
<1>18. \A x, y \in Creatures : Placed(v, x) = Placed(d, x) /\ Sees(v, x, y) = Sees(d, x, y)
  BY <1>17 DEF Placed, Sees
<1>19. Stirred(v, m)
  <2>1. Heard(v, m)
    BY <1>12, <1>16 DEF Heard
  <2>2. Bored(v, m)
    BY <1>0, <1>16 DEF Bored, isSummon
  <2>3. Serves(v, m)
    BY <1>0, <1>10, <1>16, <1>18 DEF Serves
  <2> QED
    BY <1>0, <2>1, <2>2, <2>3 DEF Stirred
<1>20. Keen(v, m, NoCreature)
  <2>0. d[m].attacked \in Creatures \cup {NoCreature}
    BY <1>0, <1>9, FieldsTyped
  <2>1. Aims(v, m, NoCreature)
    BY <1>0, <1>12, <1>16, <1>18, <2>0 DEF Aims
  <2>2. \A q : Knows(v, m, q)
    BY <1>0, <1>16 DEF Knows, isSummon
  <2> QED
    BY <2>1, <2>2 DEF Keen
<1>21. Minded(v)
  <2>1. \A x \in Creatures : Stirred(v, x) /\ Keen(v, x, NoCreature)
    BY <1>14, <1>19, <1>20
  <2> QED
    BY <1>15, <2>1 DEF Minded, AllStirred
<1> QED
  BY <1>21 DEF v, d, b, freed

(* Tile::moveCreature: who saw c go or come knows where it is then, and so does c. *)
LEMMA StepsMind ==
  ASSUME NEW w, Sound(w), AllStirred(w), NEW d \in Creatures, NEW c \in Creatures, Placed(w, c),
         NEW far \in BOOLEAN, NEW keen, d # c => Keen(w, d, c)
  PROVE  LET v == Steps(w, d, c, far, keen)
         IN  /\ v \in Worlds /\ AllStirred(v) /\ Placed(v, c) /\ Keen(v, d, NoCreature)
             /\ \A x \in Creatures : \A e : Keen(w, x, e) => Keen(v, x, e)
<1>0. w \in Worlds /\ Bound(w)
  BY DEF Sound, Fit
<1>1. CASE d # c
  <2> DEFINE v == OnOtherMoves(w, d, c, keen)
  <2>1. /\ Tends(w, v, {})
        /\ Aims(w, d, c) => Aims(v, d, NoCreature)
        /\ c \in PlayerIds => Knows(v, d, c)
    BY <1>0, OnOtherMovesTends
  <2>2. Steps(w, d, c, far, keen) = v
    BY <1>1 DEF Steps
  <2> HIDE DEF v
  <2>3. Fares(w, v, {})
    BY <1>0, <2>1, TendsFares
  <2>4. \A x \in Creatures : Placed(v, x) = Placed(w, x)
    BY <2>1 DEF Tends, SameScene, Placed
  <2>5. Keen(v, d, NoCreature)
    <3> SUFFICES ASSUME Placed(v, d) PROVE Keen(v, d, NoCreature)
      BY DEF Keen
    <3>1. Aims(w, d, c) /\ \A q \in PlayerIds \ {c} : Knows(w, d, q)
      BY <1>1, <2>4 DEF Keen
    <3>2. ASSUME NEW q \in PlayerIds PROVE Knows(v, d, q)
      BY <2>1, <3>1, <3>2 DEF Tends
    <3> QED
      BY <2>1, <3>1, <3>2 DEF Keen
  <2> QED
    BY <2>2, <2>3, <2>4, <2>5 DEF Fares, AllStirred
<1>2. CASE d = c
  <2> DEFINE z == LeaveBehind(w, c)
             a == IF far THEN z ELSE w
             b == LoseSight(a, c)
             v == OnMove(b, c)
  <2>1. Steps(w, d, c, far, keen) = v
    BY <1>2 DEF Steps
  <2>2. /\ a \in Worlds /\ AllStirred(a) /\ Placed(a, c)
        /\ \A x \in Creatures : \A e : Keen(w, x, e) => Keen(a, x, e)
    <3>1. /\ z \in Worlds /\ AllStirred(z) /\ Placed(z, c)
          /\ \A x \in Creatures : \A e : Keen(w, x, e) => Keen(z, x, e)
      BY <1>0, LeaveBehindStirs
    <3> HIDE DEF z
    <3> QED
      BY <1>0, <3>1
  <2> HIDE DEF a
  <2>3. Tends(a, b, {}) /\ Aims(b, c, NoCreature)
    BY <2>2, LoseSightTends
  <2> HIDE DEF b
  <2>4. b \in Worlds
    BY <2>3 DEF Tends
  <2>5. Tends(b, v, {}) /\ \A q \in PlayerIds : Knows(v, c, q)
    BY <2>4, OnMoveTends
  <2> HIDE DEF v
  <2>6. Tends(a, v, {})
    BY <2>2, <2>3, <2>5, TendsThen
  <2>7. Fares(a, v, {})
    BY <2>2, <2>6, TendsFares
  <2>8. Placed(v, c)
    BY <2>2, <2>6 DEF Tends, SameScene, Placed
  <2>9. Keen(v, c, NoCreature)
    <3>1. Aims(v, c, NoCreature)
      BY <2>3, <2>5 DEF Tends
    <3> QED
      BY <2>5, <3>1 DEF Keen
  <2> QED
    BY <1>2, <2>1, <2>2, <2>7, <2>8, <2>9 DEF Fares, AllStirred
<1> QED
  BY <1>1, <1>2

LEMMA StepAllMinded ==
  ASSUME NEW w, Sound(w), AllStirred(w), NEW c \in Creatures, Placed(w, c),
         NEW far \in BOOLEAN, NEW keen, NEW S \in SUBSET Creatures, c \in S,
         \A x \in Creatures \ {c} : Keen(w, x, c) /\ (x \notin S => Keen(w, x, NoCreature))
  PROVE  Minded(StepAll(w, c, far, keen, S))
<1> DEFINE Done(s, v) ==
             /\ \A x \in Creatures \ {c} : Keen(v, x, c)
             /\ \A x \in Creatures : x \in s \/ x \notin S => Keen(v, x, NoCreature)
           G == {q \in (SUBSET S) \X Worlds :
                   Sound(q[2]) /\ AllStirred(q[2]) /\ Placed(q[2], c) /\ Done(q[1], q[2])}
<1>1. w \in Worlds /\ G \in SUBSET ((SUBSET S) \X Worlds) /\ <<{}, w>> \in G
  BY DEF Sound
<1>2. ASSUME NEW s \in SUBSET S, NEW v \in Worlds, s # {}, <<s \ {Pick(s)}, v>> \in G
      PROVE  <<s, Steps(v, Pick(s), c, far, keen)>> \in G
  <2> DEFINE d == Pick(s)
             u == Steps(v, d, c, far, keen)
  <2>1. d \in s /\ d \in Creatures
    BY <1>2 DEF Pick
  <2>2. Sound(v) /\ AllStirred(v) /\ Placed(v, c) /\ Done(s \ {d}, v)
    BY <1>2
  <2> HIDE DEF d
  <2>3. /\ u \in Worlds /\ AllStirred(u) /\ Placed(u, c) /\ Keen(u, d, NoCreature)
        /\ \A x \in Creatures : \A e : Keen(v, x, e) => Keen(u, x, e)
    <3>1. d # c => Keen(v, d, c)
      BY <2>1, <2>2
    <3> QED
      BY <2>1, <2>2, <3>1, StepsMind
  <2>4. Sound(u)
    BY <2>1, <2>2, StepsSound
  <2> HIDE DEF u
  <2>5. Done(s, u)
    <3>1. \A x \in Creatures \ {c} : Keen(u, x, c)
      BY <2>2, <2>3
    <3>2. ASSUME NEW x \in Creatures, x \in s \/ x \notin S PROVE Keen(u, x, NoCreature)
      <4>1. CASE x = d
        BY <2>3, <4>1
      <4>2. CASE x # d
        BY <2>2, <2>3, <3>2, <4>2
      <4> QED
        BY <4>1, <4>2
    <3> QED
      BY <3>1, <3>2
  <2>6. <<s, u>> \in G
    BY <2>3, <2>4, <2>5
  <2> QED
    BY <2>6 DEF u, d
<1> HIDE DEF G
<1>3. <<S, StepAll(w, c, far, keen, S)>> \in G
  BY <1>1, <1>2, StepAllFold
<1> QED
  BY <1>3 DEF G, Minded

LEMMA WalkMinded ==
  ASSUME NEW w, Minded(w), Sound(w), NEW c \in Creatures, Placed(w, c), NEW p \in Tiles,
         NEW far \in BOOLEAN, NEW keen
  PROVE  LET v == [w EXCEPT ![c].at = p]
         IN  Minded(StepAll(v, c, far, keen, At(v, w[c].at) \cup At(v, p)))
<1> DEFINE v == [w EXCEPT ![c].at = p]
           S == At(v, w[c].at) \cup At(v, p)
<1>0. w \in Worlds /\ \A x \in Creatures : Stirred(w, x) /\ Keen(w, x, NoCreature)
  BY DEF Minded, AllStirred
<1>1. Sound(v) /\ v \in Worlds
  <2>1. Sound(v)
    BY MovedSound
  <2> QED
    BY <2>1 DEF Sound
<1>2. /\ \A k \in Creatures \ {c} : v[k] = w[k]
      /\ v[c].at = p /\ v[c].removed = w[c].removed /\ v[c].alive = w[c].alive
      /\ v[c].master = w[c].master /\ v[c].summons = w[c].summons
      /\ v[c].idle = w[c].idle /\ v[c].attacked = w[c].attacked /\ v[c].checked = w[c].checked
      /\ v[c].vec = w[c].vec /\ v[c].targets = w[c].targets
  BY <1>0 DEF Worlds, Fields
<1> HIDE DEF v
<1>3. \A x \in Creatures :
        /\ v[x].removed = w[x].removed /\ v[x].alive = w[x].alive /\ SameMind(w, v, x)
        /\ v[x].master = w[x].master /\ v[x].summons = w[x].summons
        /\ x # c => v[x].at = w[x].at
  <2> TAKE x \in Creatures
  <2>1. CASE x = c
    BY <1>2, <2>1 DEF SameMind
  <2>2. CASE x # c
    BY <1>2, <2>2 DEF SameMind
  <2> QED
    BY <2>1, <2>2
<1>4. \A x \in Creatures : Placed(v, x) = Placed(w, x)
  <2>1. p # NoTile /\ v[c].at = p
    BY <1>2, CreatureAssumption
  <2> QED
    BY <1>3, <2>1 DEF Placed
<1>5. \A x, d \in Creatures \ {c} : Sees(v, x, d) = Sees(w, x, d)
  BY <1>3, <1>4 DEF Sees
<1>6. AllStirred(v)
  <2> SUFFICES ASSUME NEW x \in Creatures, Placed(v, x) PROVE Stirred(v, x)
    BY DEF AllStirred, Stirred
  <2>0. w[x].master \in Creatures \cup {NoCreature}
    BY <1>0, FieldsTyped
  <2>1. Heard(w, x) /\ Bored(w, x) /\ Serves(w, x) /\ (x \in PlayerIds => ~w[x].idle)
    BY <1>0, <1>4 DEF Stirred
  <2>2. Heard(v, x) /\ Bored(v, x) /\ (x \in PlayerIds => ~v[x].idle)
    BY <1>3, <2>1 DEF Heard, Bored, SameMind, isSummon
  <2>3. Serves(v, x)
    BY <1>3, <1>4, <2>0, <2>1 DEF Serves, isSummon
  <2> QED
    BY <2>2, <2>3 DEF Stirred
<1>7. S \in SUBSET Creatures
  BY DEF At
<1>8. c \in S /\ \A x \in Creatures \ {c} : Placed(v, x) /\ w[x].at \in {w[c].at, p} => x \in S
  BY <1>2, <1>3, <1>4 DEF At
<1> HIDE DEF S
<1>9. ASSUME NEW x \in Creatures \ {c}, NEW e \in {c, NoCreature}, e = c \/ x \notin S
      PROVE  Keen(v, x, e)
  <2> SUFFICES ASSUME Placed(v, x) PROVE Keen(v, x, e)
    BY DEF Keen
  <2>0. w[x].attacked \in Creatures \cup {NoCreature} /\ v[x].attacked = w[x].attacked
    BY <1>0, <1>3, FieldsTyped DEF SameMind
  <2>1. Aims(w, x, NoCreature) /\ \A q \in PlayerIds \ {NoCreature} : Knows(w, x, q)
    BY <1>0, <1>4 DEF Keen
  <2>2. Aims(v, x, e)
    <3>1. CASE w[x].attacked = NoCreature
      BY <2>0, <3>1 DEF Aims
    <3>2. CASE w[x].attacked = c
      <4>1. CASE e = c
        BY <2>0, <3>2, <4>1 DEF Aims
      <4>2. CASE x \notin S
        <5>1. c # NoCreature
          BY CreatureAssumption DEF Creatures
        <5>2. Sees(w, x, c)
          BY <2>1, <3>2, <5>1 DEF Aims
        <5> QED
          BY <1>8, <4>2, <5>2 DEF Sees
      <4> QED
        BY <1>9, <4>1, <4>2
    <3>3. CASE w[x].attacked \in Creatures \ {c}
      <4>1. w[x].attacked # NoCreature
        BY <3>3, CreatureAssumption DEF Creatures
      <4>2. Sees(w, x, w[x].attacked)
        BY <2>1, <4>1 DEF Aims
      <4>3. Sees(v, x, v[x].attacked)
        BY <1>5, <2>0, <3>3, <4>2
      <4> QED
        BY <4>3 DEF Aims
    <3> QED
      BY <2>0, <3>1, <3>2, <3>3
  <2>3. ASSUME NEW q \in PlayerIds \ {e} PROVE Knows(v, x, q)
    <3>0. q \in Creatures /\ q # NoCreature
      BY CreatureAssumption DEF Creatures
    <3>1. CASE q # c
      <4>1. Knows(w, x, q)
        BY <2>1, <3>0
      <4> QED
        BY <1>3, <1>5, <3>0, <3>1, <4>1 DEF Knows, SameMind, isSummon
    <3>2. CASE q = c
      <4>1. x \notin S
        BY <1>9, <3>2
      <4>2. ~Sees(v, x, c)
        BY <1>2, <1>3, <1>8, <4>1 DEF Sees
      <4> QED
        BY <3>2, <4>2 DEF Knows
    <3> QED
      BY <3>1, <3>2
  <2> QED
    BY <2>2, <2>3 DEF Keen
<1>10. \A x \in Creatures \ {c} : Keen(v, x, c) /\ (x \notin S => Keen(v, x, NoCreature))
  BY <1>9
<1>11. Minded(StepAll(v, c, far, keen, S))
  BY <1>1, <1>4, <1>6, <1>7, <1>8, <1>10, StepAllMinded
<1> QED
  BY <1>11 DEF S, v

(* ~Creature: who is out of the world may forget, its summons lose a master they
   are not in the world to serve, and nobody in the world pointed at it. *)
LEMMA FreedFares ==
  ASSUME NEW w \in Worlds, NEW s \in Creatures, ~Placed(w, s)
  PROVE  Fares(w, Freed(w, s), {})
<1> DEFINE v == SetAttacked(w, s, NoCreature)
           u == LetGo(v, s)
<1>1. Tends(w, v, {})
  BY SetAttackedTends
<1>2. Freed(w, s) = u
  BY DEF Freed
<1> HIDE DEF v
<1>3. v \in Worlds /\ ~Placed(v, s)
  BY <1>1 DEF Tends, SameScene, Placed
<1>4. LooseIs(v, u, s)
  BY <1>3, LetGoIs
<1> HIDE DEF u
<1>5. Fares(v, u, {})
  BY <1>3, <1>4, LooseFares
<1>6. Fares(w, v, {})
  BY <1>1, TendsFares
<1> QED
  BY <1>2, <1>5, <1>6, FaresThen

LEMMA FreeAllFares ==
  ASSUME NEW w \in Worlds, NEW S \in SUBSET Creatures, \A s \in S : ~Placed(w, s)
  PROVE  Fares(w, FreeAll(w, S), {})
<1> DEFINE G == {q \in (SUBSET S) \X Worlds :
                   Fares(w, q[2], {}) /\ \A s \in S : ~Placed(q[2], s)}
<1>1. G \in SUBSET ((SUBSET S) \X Worlds) /\ <<{}, w>> \in G
  <2>1. Fares(w, w, {})
    BY FaresSelf
  <2> QED
    BY <2>1
<1>2. ASSUME NEW s \in SUBSET S, NEW v \in Worlds, s # {}, <<s \ {Pick(s)}, v>> \in G
      PROVE  <<s, Freed(v, Pick(s))>> \in G
  <2> DEFINE p == Pick(s)
             u == Freed(v, p)
  <2>1. p \in S /\ p \in Creatures
    BY <1>2 DEF Pick
  <2>2. Fares(w, v, {}) /\ \A k \in S : ~Placed(v, k)
    BY <1>2
  <2> HIDE DEF p
  <2>3. Fares(v, u, {}) /\ Parted(v, {p}, u)
    BY <2>1, <2>2, FreedFares, FreedParts
  <2> HIDE DEF u
  <2>4. Fares(w, u, {}) /\ u \in Worlds
    <3>1. Fares(w, u, {})
      BY <2>2, <2>3, FaresThen
    <3> QED
      BY <3>1 DEF Fares
  <2>5. \A k \in S : ~Placed(u, k)
    BY <2>2, <2>3 DEF Parted, Loosed, Placed
  <2>6. <<s, u>> \in G
    BY <2>4, <2>5
  <2> QED
    BY <2>6 DEF u, p
<1> HIDE DEF G
<1>3. <<S, FreeAll(w, S)>> \in G
  BY <1>1, <1>2, FreeAllFold
<1> QED
  BY <1>3 DEF G

(* Whatever becomes of one that is out of the world. *)
LEMMA AbsentMinded ==
  ASSUME NEW w, Minded(w), NEW v \in Worlds, NEW c \in Creatures, ~Placed(w, c), ~Placed(v, c),
         \A k \in Creatures \ {c} : /\ SameMind(w, v, k) /\ v[k].at = w[k].at /\ v[k].removed = w[k].removed
                                    /\ v[k].alive = w[k].alive /\ v[k].master = w[k].master
                                    /\ v[k].summons = w[k].summons
  PROVE  Minded(v)
<1>0. w \in Worlds
  BY DEF Minded
<1>1. \A k, d \in Creatures : Placed(v, d) = Placed(w, d) /\ (k # c => Sees(v, k, d) = Sees(w, k, d))
  <2> TAKE k, d \in Creatures
  <2>1. CASE d = c
    BY <2>1 DEF Sees, Placed
  <2>2. CASE d # c
    BY <2>2 DEF Sees, Placed
  <2> QED
    BY <2>1, <2>2
<1>2. ASSUME NEW k \in Creatures, Placed(v, k) PROVE Stirred(v, k) /\ Keen(v, k, NoCreature)
  <2>0. k # c /\ Placed(w, k) /\ w[k].master \in Creatures \cup {NoCreature}
    BY <1>0, <1>1, <1>2, FieldsTyped
  <2>1. Untouched(w, v, k) /\ Stirred(w, k) /\ Keen(w, k, NoCreature)
    BY <2>0 DEF Untouched, Minded, AllStirred
  <2>2. isSummon(w, k) /\ Placed(w, w[k].master) /\ k \in w[w[k].master].summons
           => Placed(v, w[k].master) /\ k \in v[w[k].master].summons
    <3> SUFFICES ASSUME isSummon(w, k), Placed(w, w[k].master), k \in w[w[k].master].summons
                 PROVE  Placed(v, w[k].master) /\ k \in v[w[k].master].summons
      OBVIOUS
    <3>1. w[k].master \in Creatures \ {c}
      BY <2>0 DEF isSummon
    <3> QED
      BY <1>1, <3>1
  <2>3. Stirred(v, k)
    BY <2>1, <2>2, UntouchedStirred
  <2>4. \A d \in Creatures \ {NoCreature} : Placed(w, k) /\ w[k].attacked = d /\ Sees(w, k, d) => Sees(v, k, d)
    BY <1>1, <2>0
  <2>5. \A p \in PlayerIds \ {NoCreature} :
           Placed(w, k) /\ Sees(v, k, p) /\ v[p].alive => Sees(w, k, p) /\ w[p].alive
    <3> SUFFICES ASSUME NEW p \in PlayerIds, Sees(v, k, p), v[p].alive PROVE Sees(w, k, p) /\ w[p].alive
      OBVIOUS
    <3>1. p \in Creatures /\ p # c
      BY DEF Creatures, Sees
    <3> QED
      BY <1>1, <2>0, <3>1
  <2>6. Keen(v, k, NoCreature)
    BY <1>0, <2>1, <2>4, <2>5, UntouchedKeen
  <2> QED
    BY <2>3, <2>6
<1> QED
  BY <1>2 DEF Minded, AllStirred, Stirred, Keen

LEMMA DeleteMinded ==
  ASSUME NEW w, Minded(w), Sound(w), NEW c \in Creatures, Unheld(w, c)
  PROVE  Minded(Delete(w, c))
<1> DEFINE x == ClearLists(w, c)
           S == w[c].summons
           y == FreeAll(x, S)
           v == [y EXCEPT ![c] = Unborn]
<1>1. w \in Worlds /\ S \in SUBSET Creatures /\ Bound(w) /\ ~Placed(w, c)
  BY FieldsTyped DEF Sound, Fit, Unheld
<1>2. Delete(w, c) = v
  BY DEF Delete, FreeAll
<1>3. Calm(w, x) /\ Relisted(w, x, c, {})
  BY <1>1, ClearListsCalm, ClearListsMind
<1>4. \A s \in S : ~Placed(w, s)
  <2> SUFFICES ASSUME NEW s \in S, Placed(w, s) PROVE FALSE
    OBVIOUS
  <2>1. s \in Creatures /\ w[s].master = c
    BY <1>1 DEF Bound
  <2>2. Serves(w, s)
    BY <2>1 DEF Minded, AllStirred, Stirred
  <2> QED
    BY <1>1, <2>1, <2>2, CreatureAssumption DEF Serves, isSummon, Creatures
<1> HIDE DEF x, S
<1>5. x \in Worlds /\ SameFrame(w, x)
  BY <1>3 DEF Calm
<1>6. \A k \in Creatures : Placed(x, k) = Placed(w, k)
  BY <1>5 DEF SameFrame, Placed
<1>7. Minded(x)
  <2>1. \A k \in Creatures \ {c} : /\ SameMind(w, x, k) /\ x[k].at = w[k].at /\ x[k].removed = w[k].removed
                                    /\ x[k].alive = w[k].alive /\ x[k].master = w[k].master
                                    /\ x[k].summons = w[k].summons
    BY <1>3, <1>5 DEF SameFrame, Relisted, SameMind
  <2> QED
    BY <1>1, <1>5, <1>6, <2>1, AbsentMinded
<1>8. Fares(x, y, {}) /\ Parted(x, S, y)
  BY <1>1, <1>4, <1>5, <1>6, FreeAllFares, FreeAllParts
<1> HIDE DEF y
<1>9. Minded(y) /\ y \in Worlds /\ ~Placed(y, c)
  <2>1. Minded(y)
    BY <1>7, <1>8, FaresMinded
  <2>2. Placed(y, c) = Placed(x, c)
    BY <1>8 DEF Parted, Loosed, Placed
  <2> QED
    BY <1>1, <1>6, <2>1, <2>2 DEF Minded
<1>10. v \in Worlds /\ v[c] = Unborn /\ \A k \in Creatures \ {c} : v[k] = y[k]
  BY <1>9, UnbornTyped, Put
<1> HIDE DEF v
<1>11. Minded(v)
  <2>1. ~Placed(v, c)
    BY <1>10 DEF Placed, Unborn
  <2>2. \A k \in Creatures \ {c} : /\ SameMind(y, v, k) /\ v[k].at = y[k].at /\ v[k].removed = y[k].removed
                                    /\ v[k].alive = y[k].alive /\ v[k].master = y[k].master
                                    /\ v[k].summons = y[k].summons
    BY <1>10 DEF SameMind
  <2> QED
    BY <1>9, <1>10, <2>1, <2>2, AbsentMinded
<1> QED
  BY <1>2, <1>11

LEMMA SweepMinded ==
  ASSUME NEW w, Minded(w), Sound(w)
  PROVE  Minded(Sweep(w))
<1> DEFINE S == Dead(w)
           G == {q \in (SUBSET S) \X Worlds :
                   Sound(q[2]) /\ Minded(q[2]) /\ \A c \in S : Unheld(q[2], c)}
<1>1. w \in Worlds /\ S \in SUBSET Creatures /\ \A c \in S : c \in Creatures /\ w[c].refs = 0
  BY DEF Sound, Dead
<1>2. Sweep(w) = ForAll(Delete, w, S)
  BY DEF Sweep
<1> HIDE DEF S
<1>3. \A c \in S : Unheld(w, c)
  BY <1>1, UnheldIs
<1>4. G \in SUBSET ((SUBSET S) \X Worlds) /\ <<{}, w>> \in G
  BY <1>1, <1>3
<1>5. ASSUME NEW s \in SUBSET S, NEW v \in Worlds, s # {}, <<s \ {Pick(s)}, v>> \in G
      PROVE  <<s, Delete(v, Pick(s))>> \in G
  <2> DEFINE p == Pick(s)
             u == Delete(v, p)
  <2>1. p \in S /\ p \in Creatures
    BY <1>1, <1>5 DEF Pick
  <2>2. Sound(v) /\ Minded(v) /\ \A c \in S : Unheld(v, c)
    BY <1>5
  <2> HIDE DEF p
  <2>3. /\ Sound(u) /\ \A k \in Creatures : Unheld(v, k) => Unheld(u, k)
        /\ Minded(u)
    BY <2>1, <2>2, DeleteSound, DeleteMinded
  <2> HIDE DEF u
  <2>4. u \in Worlds
    BY <2>3 DEF Sound
  <2>5. \A c \in S : Unheld(u, c)
    BY <1>1, <2>2, <2>3
  <2>6. <<s, u>> \in G
    BY <2>3, <2>4, <2>5
  <2> QED
    BY <2>6 DEF u, p
<1> HIDE DEF G
<1>6. <<S, ForAll(Delete, w, S)>> \in G
  BY <1>1, <1>4, <1>5, DeleteAllFold
<1> QED
  BY <1>2, <1>6 DEF G

LEMMA SettleMinded ==
  ASSUME NEW w, Minded(w), Sound(w)
  PROVE  Minded(Settle(w))
<1> DEFINE G == {q \in (SUBSET Creatures) \X Worlds : Sound(q[2]) /\ Minded(q[2])}
<1>0. w \in Worlds /\ Settle(w) = Rounds(w, Creatures)
  BY DEF Sound, Settle, Rounds
<1>1. <<{}, w>> \in G
  BY <1>0
<1>2. ASSUME NEW s \in SUBSET Creatures, NEW v \in Worlds, s # {}, <<s \ {Pick(s)}, v>> \in G
      PROVE  <<s, Sweep(v)>> \in G
  <2>1. Sound(Sweep(v)) /\ Minded(Sweep(v))
    BY <1>2, SweepSound, SweepMinded
  <2>2. Sweep(v) \in Worlds
    BY <2>1 DEF Sound
  <2> QED
    BY <2>1, <2>2
<1>3. G \in SUBSET ((SUBSET Creatures) \X Worlds) /\ Creatures \in SUBSET Creatures
  OBVIOUS
<1>4. <<Creatures, Rounds(w, Creatures)>> \in G
  <2> HIDE DEF G
  <2> QED
    BY <1>0, <1>1, <1>2, <1>3, RoundsFold
<1> QED
  BY <1>0, <1>4

(* A handler ends in the deletions it causes. *)
LEMMA StepMinded ==
  ASSUME NEW w, Sound(w), Minded(w), Step(w)
  PROVE  Minded(creature')
  BY SettleMinded DEF Step

LEMMA InitMinded == ASSUME CreatureInit PROVE Minded(creature)
<1>1. creature \in Worlds /\ \A c \in Creatures : creature[c].at = NoTile
  BY UnbornTyped DEF CreatureInit, Worlds, Unborn
<1> QED
  BY <1>1 DEF Minded, AllStirred, Stirred, Keen, Placed

(* Every handler leaves the creatures minded. *)
LEMMA CreatureNextMinded ==
  ASSUME Sound(creature), Minded(creature), CreatureNext
  PROVE  Minded(creature')
<1>0. creature \in Worlds /\ Fit(creature) /\ Bound(creature)
  BY DEF Sound, Fit
<1>p. PlayerIds \subseteq Creatures /\ MonsterIds \subseteq Creatures /\ PlayerIds \cap MonsterIds = {}
  BY CreatureAssumption DEF Creatures
<1>1. ASSUME NEW c \in Creatures, NEW p \in Tiles, Enter(c, p) PROVE Minded(creature')
  <2>1. creature[c] = Unborn /\ Step(Place(creature, c, p))
    BY <1>1 DEF Enter
  <2>2. Sound(Place(creature, c, p)) /\ Minded(Place(creature, c, p))
    BY <2>1, EnterSound, EnterMinded
  <2> QED
    BY <2>1, <2>2, StepMinded
<1>2. ASSUME NEW c \in Creatures, NEW p \in Tiles, NEW far \in BOOLEAN, NEW keen, Walk(c, p, far, keen)
      PROVE  Minded(creature')
  <2> DEFINE w == [creature EXCEPT ![c].at = p]
             S == At(w, creature[c].at) \cup At(w, p)
             v == StepAll(w, c, far, keen, S)
  <2>1. Placed(creature, c) /\ Step(v)
    BY <1>2 DEF Walk, StepAll
  <2>2. Minded(v)
    BY <2>1, WalkMinded
  <2>3. Sound(w)
    BY <2>1, MovedSound
  <2>4. S \in SUBSET Creatures
    BY DEF At
  <2> HIDE DEF w, S
  <2>5. Sound(v)
    BY <2>3, <2>4, StepAllSound
  <2> HIDE DEF v
  <2> QED
    BY <2>1, <2>2, <2>5, StepMinded
<1>3. ASSUME NEW c \in Creatures, Leave(c) PROVE Minded(creature')
  <2>1. creature[c].at # NoTile /\ Step(RemoveCreature(creature, c))
    BY <1>3 DEF Leave, Placed
  <2>2. Sound(RemoveCreature(creature, c))
    BY <1>0, <2>1, RemoveCreatureKeeps, KeepsSound
  <2>3. Minded(RemoveCreature(creature, c))
    BY <1>0, RemoveCreatureMinded
  <2> QED
    BY <2>1, <2>2, <2>3, StepMinded
<1>4. ASSUME NEW c \in Creatures, Slay(c) PROVE Minded(creature')
  <2>1. creature[c].at # NoTile /\ Step(Kill(creature, c))
    BY <1>4 DEF Slay, Placed
  <2>2. Sound(Kill(creature, c))
    BY <1>0, <2>1, KillKeeps, KeepsSound
  <2>3. Fares(creature, Kill(creature, c), {c})
    BY <1>0, KillFares
  <2>4. Minded(Kill(creature, c))
    BY <2>3, FaresMinded
  <2> QED
    BY <2>1, <2>2, <2>4, StepMinded
<1>5. ASSUME NEW c \in Creatures, NEW m \in MonsterIds, Summon(c, m) PROVE Minded(creature')
  <2> DEFINE p == creature[c].at
             v == Place(AddSummon(creature, c, m), m, p)
  <2>1. Placed(creature, c) /\ ~isSummon(creature, c) /\ creature[m] = Unborn /\ Step(v)
    BY <1>5 DEF Summon
  <2>2. p \in Tiles /\ c # m
    BY <1>0, <2>1, FieldsTyped DEF Placed, Unborn
  <2>3. Sound(v) /\ Minded(v)
    <3> HIDE DEF p
    <3> QED
      BY <1>p, <2>1, <2>2, SummonSound, SummonMinded
  <2> HIDE DEF v
  <2> QED
    BY <2>1, <2>3, StepMinded
<1>6. ASSUME NEW c \in Creatures, NEW m \in MonsterIds, SummonFails(c, m) PROVE Minded(creature')
  <2>1. Placed(creature, c) /\ creature[m] = Unborn /\ Step(RemoveSummon(AddSummon(creature, c, m), c, m))
    BY <1>6 DEF SummonFails
  <2>2. c # m
    BY <2>1 DEF Placed, Unborn
  <2>3. RemoveSummon(AddSummon(creature, c, m), c, m) = creature
    BY <1>p, <2>1, <2>2, SummonFailsIs
  <2>4. Step(creature)
    BY <2>1, <2>3
  <2> QED
    BY <2>4, StepMinded
<1>7. ASSUME NEW c \in Creatures, NEW m \in MonsterIds, Convince(c, m) PROVE Minded(creature')
  <2> DEFINE freed == IF isSummon(creature, m) THEN RemoveSummon(creature, creature[m].master, m)
                      ELSE creature
             w == AddSummon(DestroySummons(SetAttacked(freed, m, NoCreature), m), c, m)
             v == UpdateIdle(UpdateTargetList(w, m), m)
             u == [v EXCEPT ![m].inRange = TRUE]
             S == At(u, u[m].at)
             t == TurnAll(u, c, m, S)
  <2>1. c \in PlayerIds /\ Placed(creature, c) /\ Placed(creature, m) /\ Step(t)
    BY <1>7 DEF Convince, TurnAll
  <2>2. c # m /\ m \in Creatures /\ TRUE \in BOOLEAN
    BY <1>p, <2>1
  <2>3. Sound(w) /\ Minded(w)
    BY <2>1, <2>2, ConvinceSound, ConvinceMinded
  <2> HIDE DEF w
  <2>4. Calm(w, v) /\ Tends(w, v, {})
    <3>1. w \in Worlds
      BY <2>3 DEF Sound
    <3> QED
      BY <2>2, <3>1, TurnCalm, LookAroundTends
  <2>5. Sound(v) /\ Minded(v) /\ v \in Worlds
    BY <2>3, <2>4, CalmSound, TendsMinded DEF Calm
  <2> HIDE DEF v
  <2>6. Calm(v, u) /\ Tends(v, u, {})
    BY <2>2, <2>5, OneFieldCalm, NearMasterTends
  <2>7. Sound(u) /\ Minded(u) /\ u \in Worlds
    BY <2>5, <2>6, CalmSound, TendsMinded DEF Calm
  <2> HIDE DEF u
  <2>8. S \in SUBSET Creatures
    BY DEF At
  <2> HIDE DEF S
  <2>9. Calm(u, t) /\ Tends(u, t, {})
    BY <2>7, <2>8, TurnAllCalm, TurnAllTends
  <2> HIDE DEF t
  <2>10. Sound(t) /\ Minded(t)
    BY <2>7, <2>9, CalmSound, TendsMinded
  <2> QED
    BY <2>1, <2>10, StepMinded
<1>8. ASSUME NEW c \in PlayerIds, NEW d \in Creatures \cup {NoCreature}, Attack(c, d)
      PROVE  Minded(creature')
  <2>1. Step(SetAttacked(creature, c, d)) /\ (d = NoCreature \/ Placed(creature, d))
    BY <1>8 DEF Attack
  <2>2. Sound(SetAttacked(creature, c, d))
    BY <1>0, <1>p, SetAttackedCalm, CalmSound
  <2>3. Tends(creature, SetAttacked(creature, c, d), {})
    BY <1>0, <1>p, <2>1, SetAttackedTends
  <2>4. Minded(SetAttacked(creature, c, d))
    BY <2>3, TendsMinded
  <2> QED
    BY <2>1, <2>2, <2>4, StepMinded
<1>9. ASSUME NEW keen, CheckCreatures(keen) PROVE Minded(creature')
  <2> DEFINE w == Filed(creature)
             S == {c \in Creatures : w[c].listed /\ w[c].vec = (checkIndex + 1) % Vectors}
             v == VisitAll(w, keen, S)
             u == Cleanup(v)
  <2>1. creature' = Settle(u)
    BY <1>9 DEF CheckCreatures, Filed, VisitAll
  <2>2. Sound(w) /\ Minded(w)
    BY FiledSound, FiledMinded
  <2> HIDE DEF w
  <2>3. S \in SUBSET Creatures /\ \A c \in S : w[c].listed
    OBVIOUS
  <2> HIDE DEF S
  <2>4. Sound(v) /\ Minded(v)
    BY <2>2, <2>3, VisitAllSound, VisitAllMinded
  <2> HIDE DEF v
  <2>5. Sound(u) /\ Minded(u)
    BY <2>4, CleanupSound, CleanupMinded
  <2> HIDE DEF u
  <2> QED
    BY <2>1, <2>5, SettleMinded
<1> QED
  BY <1>1, <1>2, <1>3, <1>4, <1>5, <1>6, <1>7, <1>8, <1>9 DEF CreatureNext

(* What the creatures in the world point at and are due, between two handlers. *)
MindsIInv == CreaturesIInv /\ Minded(creature)

LEMMA MindsKept == CreatureSpec => []MindsIInv
<1>1. CreatureInit => MindsIInv
  BY InitSound, InitMinded DEF MindsIInv, CreaturesIInv
<1>2. MindsIInv /\ [CreatureNext]_creatureVars => MindsIInv'
  <2> SUFFICES ASSUME MindsIInv, [CreatureNext]_creatureVars PROVE MindsIInv'
    OBVIOUS
  <2>1. CASE CreatureNext
    <3>1. Sound(creature') /\ Minded(creature')
      BY <2>1, CreatureNextSound, CreatureNextMinded DEF MindsIInv, CreaturesIInv
    <3>2. CreaturesIInv'
      BY <3>1 DEF CreaturesIInv, Sound, Worlds, Fields, Fit, InVector, Bound, Owed, Lent, Placed,
                  Hunters, Friends, Masters, Flag, Count, Creatures
    <3>3. Minded(creature)'
      BY <3>1 DEF Minded, Worlds, Fields, AllStirred, Stirred, Heard, Bored, Serves, isSummon,
                  Keen, Aims, Knows, Sees, Placed, Creatures
    <3> QED
      BY <3>2, <3>3 DEF MindsIInv
  <2>2. CASE UNCHANGED creatureVars
    BY <2>2 DEF MindsIInv, CreaturesIInv, creatureVars, Sound, Worlds, Fields, Fit, InVector, Bound,
                Owed, Lent, Placed, Hunters, Friends, Masters, Flag, Count, Creatures, Minded,
                AllStirred, Stirred, Heard, Bored, Serves, isSummon, Keen, Aims, Knows, Sees
  <2> QED
    BY <2>1, <2>2
<1> QED
  BY <1>1, <1>2, PTL DEF CreatureSpec

(* A creature in the world attacks only whom it sees, and its master is in the
   world and has it among its summons, whatever order the callbacks of one
   creature's walk, death or removal come in: neither pointer holds a
   reference, so nothing else keeps it from dangling. *)
THEOREM PointersGoodHolds == CreatureSpec => []PointersGood
<1>1. MindsIInv => PointersGood
  <2> SUFFICES ASSUME Minded(creature), NEW c \in Creatures, Placed(creature, c)
               PROVE  /\ creature[c].attacked # NoCreature => Sees(creature, c, creature[c].attacked)
                      /\ creature[c].master # NoCreature =>
                           /\ Placed(creature, creature[c].master)
                           /\ c \in creature[creature[c].master].summons
    BY DEF MindsIInv, PointersGood
  <2>1. Stirred(creature, c) /\ Keen(creature, c, NoCreature)
    BY DEF Minded, AllStirred
  <2>2. Aims(creature, c, NoCreature) /\ Serves(creature, c)
    BY <2>1 DEF Stirred, Keen
  <2> QED
    BY <2>2 DEF Aims, Serves, isSummon
<1> QED
  BY <1>1, MindsKept, PTL

(* Game::checkCreatures comes to whoever has something to do: a creature without
   health, however it slept when it was killed, and a monster on its own that
   sees a living player, which is awake, are in a vector and marked to be checked. *)
THEOREM SoonVisitedHolds == CreatureSpec => []SoonVisited
<1>1. MindsIInv => SoonVisited
  <2> SUFFICES ASSUME Sound(creature), Minded(creature), NEW c \in Creatures, Placed(creature, c),
                      \/ ~creature[c].alive
                      \/ /\ c \in MonsterIds /\ ~isSummon(creature, c)
                         /\ \E p \in PlayerIds : Sees(creature, c, p) /\ creature[p].alive
               PROVE  /\ creature[c].checked
                      /\ creature[c].queued \/ creature[c].listed
                      /\ creature[c].alive => ~creature[c].idle
    BY DEF MindsIInv, CreaturesIInv, SoonVisited
  <2>1. Stirred(creature, c) /\ Keen(creature, c, NoCreature)
    BY DEF Minded, AllStirred
  <2>2. Heard(creature, c) /\ Bored(creature, c)
    BY <2>1 DEF Stirred
  <2>3. creature[c].alive => ~creature[c].idle
    <3> SUFFICES ASSUME creature[c].alive PROVE ~creature[c].idle
      OBVIOUS
    <3>1. PICK p \in PlayerIds : Sees(creature, c, p) /\ creature[p].alive
      OBVIOUS
    <3>2. p # NoCreature
      BY CreatureAssumption
    <3>3. Knows(creature, c, p)
      BY <2>1, <3>2 DEF Keen
    <3>4. p \in creature[c].targets
      BY <3>1, <3>3 DEF Knows
    <3> QED
      BY <2>2, <3>4 DEF Bored
  <2>4. creature[c].checked /\ creature[c].vec # -1
    BY <2>2, <2>3 DEF Heard
  <2>5. InVector(creature)
    BY DEF Sound, Fit
  <2> QED
    BY <2>3, <2>4, <2>5 DEF InVector
<1> QED
  BY <1>1, MindsKept, PTL

=============================================================================
