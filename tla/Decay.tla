-------------------------------- MODULE Decay --------------------------------
(***************************************************************************)
(* Decay of items: startDecay, internalDecayItem, transformItem, checkDecay *)
(* and cleanup (game.cpp) with the state an item keeps through changes of  *)
(* its kind (item.cpp setID).  Time is counted in quarters of a second,    *)
(* the step of checkDecay.                                                 *)
(* Abstracted: an item's place and count; things of the map with a unique  *)
(* id, which never decay; adding on a tile with FLAG_NOLIMIT, which does   *)
(* not fail.  Kinds whose items take each other's place must not decay in  *)
(* a circle: the code recurses on them, and so does StartDecay.            *)
(***************************************************************************)
EXTENDS Integers, SequencesExt

CONSTANTS
  Goods,      \* item objects, numbers: a new one is the first that is free
  MaxThere,   \* bounds: how many items there are at a time when one is made,
  MaxEntries, \* how many entries an item has when it changes kind
  Kinds,      \* ids of item types
  DecayTo,    \* what a kind decays to: a kind, Vanish, or Never
  DecayTime,  \* for how long, in quarters; 0 if it does not
  StopTime,   \* whether an item of the kind keeps the time it has left
  EquipTo,    \* transformEquipTo, Never if none
  DeEquipTo,  \* transformDeEquipTo or transformUseTo, Never if none
  TypeOf,     \* ItemType::type
  OnTop,      \* the kinds with alwaysOnTop,
  Doors,      \* with canTransform() false
  Rooted,     \* and with canRemove() false
  Loaded,     \* durations an item can be loaded with
  Vanish, Never

ASSUME DecayAssumption ==
  /\ Vanish \notin Kinds /\ Never \notin Kinds /\ Vanish # Never
  /\ DecayTo \in [Kinds -> Kinds \cup {Vanish, Never}]
  /\ DecayTime \in [Kinds -> Nat] /\ StopTime \in [Kinds -> BOOLEAN]
  /\ EquipTo \in [Kinds -> Kinds \cup {Never}]
  /\ DeEquipTo \in [Kinds -> Kinds \cup {Never}]
  /\ DOMAIN TypeOf = Kinds /\ OnTop \cup Doors \cup Rooted \subseteq Kinds
  /\ Goods \subseteq Nat \ {0} /\ Loaded \subseteq Nat \ {0} /\ MaxThere \in Nat

Second == 4    \* in quarters: EVENT_DECAYINTERVAL * EVENT_DECAYBUCKETS
Buckets == 4   \* EVENT_DECAYBUCKETS
None == 0      \* no item, NULL

VARIABLES
  item,          \* each item's fields, see NoItem
  toDecayItems, decayItems, lastBucket,
  due,           \* history: quarters until each item should decay
  fell,          \* history: what was due of those that just decayed
  stray          \* history: items whose flag and entry no longer agree
decayVars == <<item, toDecayItems, decayItems, lastBucket, due, fell, stray>>

NoItem == [there |-> FALSE, kind |-> Never, duration |-> 0, decaying |-> FALSE,
           refs |-> 0, released |-> 0]  \* refCount, entries of releaseThings

DecayInit ==
  /\ item = [i \in Goods |-> NoItem] /\ due = [i \in Goods |-> 0] /\ fell = {}
  /\ toDecayItems = <<>> /\ decayItems = [b \in 0..(Buckets - 1) |-> <<>>]
  /\ lastBucket = 0 /\ stray = {}

(* The state a handler works on; "full": it found no free object (a bound). *)
Now == [item |-> item, new |-> toDecayItems, list |-> decayItems,
        due |-> due, fell |-> {}, stray |-> stray, full |-> FALSE]

Listed(s, i) == i \in Range(s.new) \cup UNION {Range(s.list[b]) : b \in DOMAIN s.list}

Entries(i) ==
  LET in(list) == Cardinality({n \in DOMAIN list : list[n] = i})
  IN  in(toDecayItems) + FoldFunction(+, 0, [b \in DOMAIN decayItems |-> in(decayItems[b])])

canDecay(s, i) == /\ s.item[i].there
                  /\ DecayTo[s.item[i].kind] # Never /\ DecayTime[s.item[i].kind] > 0

FreeThing(s, i) == [s EXCEPT !.item[i].released = @ + 1]
-----------------------------------------------------------------------------
(* Item::setID: the flag may be taken back while a list still names the item *)
SetID(s, i, k) ==
  LET old == s.item[i]
      restart == DecayTime[k] > 0 /\ (~StopTime[old.kind] \/ old.duration = 0)
      still == DecayTime[k] = 0 /\ ~StopTime[k] /\ DecayTo[k] = Never
  IN  [s EXCEPT
         !.item[i] = [old EXCEPT !.kind = k,
                        !.decaying = @ /\ ~restart /\ ~still,
                        !.duration = IF restart THEN DecayTime[k] ELSE IF still THEN -1 ELSE @],
         !.stray = IF old.decaying /\ (restart \/ still) /\ Listed(s, i) THEN @ \cup {i} ELSE @]

(* internalRemoveItem of what can be removed, the end of __replaceThing *)
RemoveGood(s, i) == FreeThing([s EXCEPT !.item[i].there = FALSE], i)

(* A new item in the place of another: copyAttributes leaves it no time. *)
ReplaceItem(s, i, k) ==
  LET free == {j \in Goods : s.item[j] = NoItem}
      t == RemoveGood(s, i)
  IN  IF free = {} THEN [s |-> [t EXCEPT !.full = TRUE], item |-> None]
      ELSE [s |-> [t EXCEPT !.item[Min(free)] =
                     [NoItem EXCEPT !.there = TRUE, !.kind = k, !.refs = 1]],
            item |-> Min(free)]

(* transformItem: the state after it and the item it returns *)
TransformItem(s, i, k) ==
  LET old == s.item[i].kind
      moves == (old \in OnTop) # (k \in OnTop)
  IN  IF old # k /\ ~s.item[i].there THEN [s |-> s, item |-> None]
      ELSE IF old = k \/ old \in Doors \/ (moves /\ old \in Rooted) THEN [s |-> s, item |-> i]
      ELSE IF moves \/ TypeOf[old] # TypeOf[k] THEN ReplaceItem(s, i, k)
      ELSE [s |-> SetID(s, i, k), item |-> i]

RECURSIVE StartDecay(_, _)

(* internalDecayItem: what cannot be removed stays as it is *)
DecayItem(s, i) ==
  LET to == DecayTo[s.item[i].kind]
      new == TransformItem(s, i, to)
  IN  IF to # Vanish THEN StartDecay(new.s, new.item)
      ELSE IF s.item[i].kind \in Rooted THEN s ELSE RemoveGood(s, i)

(* Mutant: the flag is not looked at. *)
StartDecayAgain(s, i) ==
  IF i = None \/ ~canDecay(s, i) THEN s
  ELSE IF s.item[i].duration <= 0 THEN DecayItem(s, i)
  ELSE [s EXCEPT !.item[i].refs = @ + 1, !.item[i].decaying = TRUE,
                 !.new = Append(@, i), !.due[i] = s.item[i].duration]

(* startDecay *)
StartDecay(s, i) ==
  IF i = None \/ ~canDecay(s, i) \/ s.item[i].decaying THEN s
  ELSE IF s.item[i].duration <= 0 THEN DecayItem(s, i)
  ELSE [s EXCEPT !.item[i].refs = @ + 1, !.item[i].decaying = TRUE,
                 !.new = Append(@, i), !.due[i] = s.item[i].duration]

(* newBucket: (duration + EVENT_DECAYINTERVAL / 2) / 1000 *)
Bucket(bucket, duration) == (bucket + (2 * duration + 1) \div 8) % Buckets

(* An entry of checkDecay's loop; s.list[bucket] holds those it has kept. *)
Visit(s, i, bucket) ==
  LET left == s.item[i].duration - Min({Second, s.item[i].duration})
      less == [s EXCEPT !.item[i].duration = left]
      new == Bucket(bucket, left)
      fallen == FreeThing(DecayItem(less, i), i)
      flagged == fallen.item[i].there /\ fallen.item[i].decaying /\ ~Listed(fallen, i)
  IN  IF ~canDecay(s, i) THEN FreeThing([s EXCEPT !.item[i].decaying = FALSE], i)
      ELSE IF left >= Second THEN [less EXCEPT !.list[bucket] = Append(@, i)]
      ELSE IF left > 0 /\ new # bucket THEN [less EXCEPT !.list[new] = Append(@, i)]
      ELSE [fallen EXCEPT !.fell = @ \cup (IF i \in s.stray THEN {} ELSE {s.due[i]}),
                          !.stray = IF flagged THEN @ \cup {i} ELSE @]

(* Mutant: a step too late for what has less than a second. *)
FirstBucketLate(last, d) == IF d >= Second THEN last ELSE (last + d \div 4) % Buckets
FirstBucket(last, d) == IF d >= Second THEN last ELSE (last + 1 + d \div 4) % Buckets

(* cleanup: memory, and the items that start to decay *)
CleanupDecay(s, last) ==
  LET file(t, i) ==
        [t EXCEPT !.list[FirstBucket(last, t.item[i].duration)] = Append(@, i)]
      filed == FoldLeft(file, s, s.new)
  IN  [filed EXCEPT !.new = <<>>,
         !.item = [i \in Goods |-> LET x == s.item[i] IN
                     IF x # NoItem /\ x.refs = x.released THEN NoItem
                     ELSE [x EXCEPT !.refs = @ - x.released, !.released = 0]]]

Become(s) == /\ ~s.full
             /\ item' = s.item /\ toDecayItems' = s.new /\ decayItems' = s.list
             /\ fell' = s.fell /\ stray' = {i \in s.stray : s.item[i] # NoItem}
             /\ due' = [i \in Goods |->
                          IF s.item[i].decaying /\ i \notin s.stray THEN s.due[i] ELSE 0]
-----------------------------------------------------------------------------
(* An item is made or loaded, and starts to decay. *)
Make(i, k, duration) ==
  LET made == [NoItem EXCEPT !.there = TRUE, !.kind = k, !.refs = 1, !.duration = duration]
  IN  /\ item[i] = NoItem /\ \A j \in Goods : j < i => item[j] # NoItem
      /\ Cardinality({j \in Goods : item[j] # NoItem}) < MaxThere
      /\ duration \in {DecayTime[k]} \cup (IF DecayTime[k] > 0 THEN Loaded ELSE {})
      /\ Become(StartDecay([Now EXCEPT !.item[i] = made], i))
      /\ UNCHANGED lastBucket

(* MoveEvent::EquipItem goes on with the item that transformItem returns, *)
Equip(i) ==
  LET to == EquipTo[item[i].kind]
      new == TransformItem(Now, i, to)
  IN  /\ item[i].there /\ to # Never /\ Entries(i) < MaxEntries
      /\ Become(StartDecay(new.s, new.item)) /\ UNCHANGED lastBucket

(* DeEquipItem, and the use of an item, with the one they were given. *)
DeEquip(i) ==
  LET to == DeEquipTo[item[i].kind]
  IN  /\ item[i].there /\ to # Never /\ Entries(i) < MaxEntries
      /\ Become(StartDecay(TransformItem(Now, i, to).s, i)) /\ UNCHANGED lastBucket

Discard(i) == /\ item[i].there /\ item[i].kind \notin Rooted
              /\ Become(RemoveGood(Now, i)) /\ UNCHANGED lastBucket

CheckDecay ==
  LET bucket == (lastBucket + 1) % Buckets
      tick == [Now EXCEPT !.due = [i \in Goods |-> due[i] - 1], !.list[bucket] = <<>>]
      visit(s, i) == Visit(s, i, bucket)
  IN  /\ lastBucket' = bucket
      /\ Become(CleanupDecay(FoldLeft(visit, tick, decayItems[bucket]), bucket))

(* the cleanup at the end of checkCreatures *)
CleanupBetween == Become(CleanupDecay(Now, lastBucket)) /\ UNCHANGED lastBucket

DecayNext ==
  \/ \E i \in Goods :
       \/ \E k \in Kinds, d \in Loaded \cup Range(DecayTime) : Make(i, k, d)
       \/ Equip(i) \/ DeEquip(i) \/ Discard(i)
  \/ CheckDecay \/ CleanupBetween

DecaySpec == DecayInit /\ [][DecayNext]_decayVars
-----------------------------------------------------------------------------
(* An entry of the lists holds a reference, and so does the place: an item is not
   deleted while a list names it, whatever becomes of it.  An item is counted down
   by one entry at most, and has that entry while its flag says that it decays,
   unless setID took the flag back while the entry stood (a light put out and lit
   again: the two entries both count) or it stayed as it was, flag and all, when
   its time was over (it could not be removed, or its new kind keeps the time). *)
CountedOnce ==
  \A i \in Goods :
    /\ item[i].refs = (IF item[i].there THEN 1 ELSE 0) + Entries(i) + item[i].released
    /\ i \notin stray => Entries(i) <= 1 /\ (item[i].decaying => Entries(i) = 1)

(* An item that is counted down by its one entry decays less than a second before
   its time and no more than one step after it, and none is left behind in the
   lists.  An item made to replace another has no time left and decays when it is
   made; that is no step of the lists. *)
DecaysOnTime ==
  /\ \A d \in fell : d \in -1..(Second - 1)
  /\ \A i \in Goods \ stray :
       item[i].decaying /\ canDecay(Now, i) => due[i] >= -1
=============================================================================
