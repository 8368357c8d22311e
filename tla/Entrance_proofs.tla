---------------------------- MODULE Entrance_proofs ----------------------------
(***************************************************************************)
(* How a client gets in, proved for every number of clients: the sessions  *)
(* of a character, in which a Player has one driver at most and its        *)
(* references are those that are held; the waiting list of a full server,  *)
(* which keeps its promises and its order; and the connection, for every   *)
(* number of messages and packets.                                         *)
(***************************************************************************)
EXTENDS Connection, Session, WaitList, FiniteSetTheorems, WellFoundedInduction, TLAPS

-----------------------------------------------------------------------------
(* Session *)

Tasks == [kind : {"login", "release", "logout"}, of : Protocols]

Waits(list, p) == \E i \in DOMAIN list : list[i] = Task("login", p)

(* A protocol is yet to log in: it has no connection, or its login is posted. *)
Fresh(p) == conn[p] = "none" \/ Waits(taskList, p)
Used == {p \in Protocols : ~Fresh(p)}

(* A list of tasks holds the login of a connection once. *)
LoginsOnce(list) ==
  \A i, j \in DOMAIN list : list[i].kind = "login" /\ list[i] = list[j] => i = j

(* What holds of the connections c and the tasks list. *)
NetOf(c, list) ==
  /\ c \in [Protocols -> {"none", "open", "closed", "destroyed"}]
  /\ list \in Seq(Tasks) /\ LoginsOnce(list)
  /\ \A p \in Protocols : c[p] = "none" => ~Waits(list, p)

(* A protocol drives an object exactly when it owns its client. *)
Objects ==
  /\ made \in 0..MaxObjects /\ inGame \in 0..made
  /\ owner \in [Players -> Protocols \cup {Nobody}]
  /\ player \in [Protocols -> 0..made]
  /\ \A p \in Protocols, o \in Players : player[p] = o <=> owner[o] = p

Held(o) == (IF owner[o] = Nobody THEN 0 ELSE 1) + (IF inGame = o THEN 1 ELSE 0)
Counts == refs \in [Players -> Int] /\ \A o \in Players : refs[o] = Held(o)

(* Who has not logged in drives nothing and has no connect() scheduled; who has
   one scheduled has one only, and drives nothing either. *)
Free ==
  /\ \A p \in Protocols : Fresh(p) => player[p] = NoPlayer
  /\ connects \subseteq [of : Protocols, to : Players]
  /\ \A c \in connects : ~Fresh(c.of) /\ player[c.of] = NoPlayer
  /\ \A c, d \in connects : c.of = d.of => c = d

(* A login makes one object, and a protocol logs in once. *)
Few == made <= Cardinality(Used)

SessionIInv == NetOf(conn, taskList) /\ Objects /\ Counts /\ Free /\ Few

(* What is driven or in the game is an object. *)
LEMMA Made ==
  ASSUME Objects
  PROVE  /\ \A p \in Protocols : player[p] # NoPlayer => player[p] \in Players
         /\ inGame # NoPlayer => inGame \in Players
<1>1. /\ MaxObjects \in Nat /\ made \in Nat /\ made <= MaxObjects
      /\ inGame \in 0..made /\ \A p \in Protocols : player[p] \in 0..made
  BY SessionAssumption DEF Objects
<1> QED
  BY <1>1 DEF Players, NoPlayer

LEMMA SessionInitIInv == SessionInit => SessionIInv
<1> SUFFICES ASSUME SessionInit PROVE SessionIInv
  OBVIOUS
<1> USE SessionAssumption DEF SessionInit
<1>1. NetOf(conn, taskList)
  BY DEF NetOf, LoginsOnce, Waits
<1>2. Objects
  BY DEF Objects, Players, NoPlayer
<1>3. Counts
  BY DEF Counts, Held, Players, NoPlayer
<1>4. Free
  BY DEF Free
<1>5. Used \subseteq Protocols
  BY DEF Used
<1>6. Cardinality(Used) \in Nat
  BY <1>5, FS_Subset, FS_CardinalityType
<1> QED
  BY <1>1, <1>2, <1>3, <1>4, <1>6 DEF SessionIInv, Few

-----------------------------------------------------------------------------
(* The list of tasks *)

LEMMA TaskFacts ==
  \A p, q \in Protocols :
    /\ \A k \in {"login", "release", "logout"} : Task(k, p) \in Tasks /\ Task(k, p).kind = k
    /\ Task("login", p) = Task("login", q) <=> p = q
  BY DEF Task, Tasks

(* Tasks that are no logins, at the end of a list. *)
LEMMA AddedKeep ==
  ASSUME NEW list \in Seq(Tasks), NEW r \in Seq(Tasks),
         \A i \in DOMAIN r : r[i].kind # "login"
  PROVE  /\ list \o r \in Seq(Tasks)
         /\ LoginsOnce(list) => LoginsOnce(list \o r)
         /\ \A p \in Protocols : Waits(list \o r, p) <=> Waits(list, p)
<1> DEFINE l == list \o r
<1>1. /\ l \in Seq(Tasks)
      /\ \A i \in DOMAIN list : i \in DOMAIN l /\ l[i] = list[i]
      /\ \A i \in DOMAIN l : i \in DOMAIN list \/ (i - Len(list) \in DOMAIN r /\ l[i] = r[i - Len(list)])
  OBVIOUS
<1> HIDE DEF l
<1>2. \A i \in DOMAIN l : l[i].kind = "login" => i \in DOMAIN list
  BY <1>1
<1>3. LoginsOnce(list) => LoginsOnce(l)
  BY <1>1, <1>2 DEF LoginsOnce
<1>4. \A p \in Protocols : Waits(l, p) <=> Waits(list, p)
  BY <1>1, <1>2, TaskFacts DEF Waits
<1> QED
  BY <1>1, <1>3, <1>4 DEF l

LEMMA LoginAdded ==
  ASSUME NEW list \in Seq(Tasks), NEW p \in Protocols, LoginsOnce(list), ~Waits(list, p)
  PROVE  /\ Append(list, Task("login", p)) \in Seq(Tasks)
         /\ LoginsOnce(Append(list, Task("login", p)))
         /\ \A q \in Protocols : Waits(Append(list, Task("login", p)), q) <=> Waits(list, q) \/ q = p
<1> DEFINE l == Append(list, Task("login", p))
<1>1. /\ l \in Seq(Tasks) /\ DOMAIN l = DOMAIN list \cup {Len(list) + 1}
      /\ l[Len(list) + 1] = Task("login", p) /\ Len(list) + 1 \notin DOMAIN list
      /\ \A i \in DOMAIN list : l[i] = list[i]
  BY TaskFacts
<1> HIDE DEF l
<1>2. LoginsOnce(l)
  BY <1>1 DEF LoginsOnce, Waits
<1>3. \A q \in Protocols : Waits(l, q) <=> Waits(list, q) \/ q = p
  BY <1>1, TaskFacts DEF Waits
<1> QED
  BY <1>1, <1>2, <1>3 DEF l

LEMMA HeadTaken ==
  ASSUME NEW list \in Seq(Tasks), list # <<>>, LoginsOnce(list)
  PROVE  /\ Tail(list) \in Seq(Tasks) /\ LoginsOnce(Tail(list))
         /\ \A p \in Protocols :
              Waits(Tail(list), p) <=> Waits(list, p) /\ Head(list) # Task("login", p)
<1> DEFINE l == Tail(list)
<1>1. /\ l \in Seq(Tasks) /\ 1 \in DOMAIN list /\ Head(list) = list[1]
      /\ \A i \in DOMAIN l : i \in Nat \ {0} /\ i + 1 \in DOMAIN list /\ l[i] = list[i + 1]
      /\ \A i \in DOMAIN list : i = 1 \/ (i - 1 \in DOMAIN l /\ l[i - 1] = list[i])
  OBVIOUS
<1> HIDE DEF l
<1>2. LoginsOnce(l)
  BY <1>1 DEF LoginsOnce
<1>3. ASSUME NEW p \in Protocols
      PROVE  Waits(l, p) <=> Waits(list, p) /\ Head(list) # Task("login", p)
  <2>1. ASSUME Waits(l, p) PROVE Waits(list, p) /\ Head(list) # Task("login", p)
    <3>1. PICK i \in DOMAIN l : l[i] = Task("login", p)
      BY <2>1 DEF Waits
    <3>2. i + 1 \in DOMAIN list /\ list[i + 1] = Task("login", p) /\ i + 1 # 1
      BY <1>1, <3>1
    <3>3. list[i + 1].kind = "login"
      BY <3>2, TaskFacts
    <3>4. list[1] # Task("login", p)
      BY <1>1, <3>2, <3>3 DEF LoginsOnce
    <3> QED
      BY <1>1, <3>2, <3>4 DEF Waits
  <2>2. ASSUME Waits(list, p), Head(list) # Task("login", p) PROVE Waits(l, p)
    BY <1>1, <2>2 DEF Waits
  <2> QED
    BY <2>1, <2>2
<1> QED
  BY <1>1, <1>2, <1>3 DEF l

(* Closing connections posts releases, and makes no protocol fresh. *)
LEMMA ClosingDoes ==
  ASSUME NEW list, NetOf(conn, list), NEW P \in SUBSET Protocols, ClosingProtocol(P, list)
  PROVE  /\ NetOf(conn', taskList')
         /\ \A p \in Protocols : /\ Waits(taskList', p) <=> Waits(list, p)
                                 /\ conn'[p] = "none" <=> conn[p] = "none"
<1> DEFINE closed == {p \in P : conn[p] = "open"}
           f == SetToSeq(closed)
           r == [i \in 1..Cardinality(closed) |-> Task("release", f[i])]
<1>1. Cardinality(closed) \in Nat /\ f \in [1..Cardinality(closed) -> closed]
  <2>1. closed \subseteq Protocols
    OBVIOUS
  <2>2. IsFiniteSet(closed)
    BY <2>1, SessionAssumption, FS_Subset
  <2>3. /\ Cardinality(closed) \in Nat
        /\ \E g \in [1..Cardinality(closed) -> closed] : IsInjective(g)
    BY <2>2, FS_CardinalityType DEF ExistsBijection, Bijection, Injection
  <2> HIDE DEF closed
  <2> QED
    BY <2>3 DEF SetToSeq
<1>2. /\ conn' = [p \in Protocols |-> IF p \in closed THEN "closed" ELSE conn[p]]
      /\ taskList' = list \o r
  BY DEF ClosingProtocol
<1>3. closed \subseteq Protocols /\ \A p \in closed : conn[p] = "open"
  OBVIOUS
<1> HIDE DEF closed, f
<1>4. r \in Seq(Tasks) /\ \A i \in DOMAIN r : r[i].kind # "login"
  <2>1. \A i \in 1..Cardinality(closed) : f[i] \in Protocols
    BY <1>1, <1>3
  <2>2. \A i \in 1..Cardinality(closed) : r[i] \in Tasks /\ r[i].kind # "login"
    BY <2>1, TaskFacts
  <2> QED
    BY <1>1, <2>2
<1> HIDE DEF r
<1>5. /\ taskList' \in Seq(Tasks) /\ LoginsOnce(taskList')
      /\ \A p \in Protocols : Waits(taskList', p) <=> Waits(list, p)
  BY <1>2, <1>4, AddedKeep DEF NetOf
<1>6. \A p \in Protocols : conn'[p] = "none" <=> conn[p] = "none"
  BY <1>2, <1>3
<1>7. conn' \in [Protocols -> {"none", "open", "closed", "destroyed"}]
  BY <1>2 DEF NetOf
<1> QED
  BY <1>5, <1>6, <1>7 DEF NetOf
-----------------------------------------------------------------------------
(* The steps *)

(* Where nothing becomes fresh, nobody is fresh who was not. *)
LEMMA UsedGrows ==
  ASSUME \A p \in Protocols : Fresh(p)' => Fresh(p)
  PROVE  /\ Used \subseteq Used' /\ IsFiniteSet(Used')
         /\ Cardinality(Used) \in Nat /\ Cardinality(Used') \in Nat
         /\ Cardinality(Used) <= Cardinality(Used')
<1>1. Used \subseteq Used' /\ Used' \subseteq Protocols
  BY DEF Used
<1>2. IsFiniteSet(Used')
  BY <1>1, SessionAssumption, FS_Subset
<1> QED
  BY <1>1, <1>2, FS_Subset, FS_CardinalityType

(* Steps that leave the objects and the protocols as they are. *)
LEMMA NetStepKeeps ==
  ASSUME SessionIInv, NetOf(conn', taskList'), UNCHANGED <<connects, made, inGame, owner, refs, player>>,
         \A p \in Protocols : Fresh(p)' => Fresh(p)
  PROVE  SessionIInv'
<1>1. NetOf(conn, taskList)'
  BY DEF NetOf
<1>2. Objects' /\ Counts'
  BY DEF SessionIInv, Objects, Counts, Held
<1>3. Free'
  BY DEF SessionIInv, Free
<1>4. Few'
  BY UsedGrows DEF SessionIInv, Few, Objects
<1> QED
  BY <1>1, <1>2, <1>3, <1>4 DEF SessionIInv

(* A creature that leaves the game gives back the map's reference. *)
LEMMA LeavingKeeps ==
  ASSUME SessionIInv, NetOf(conn', taskList'), UNCHANGED <<connects, made, owner, player>>,
         \A p \in Protocols : Fresh(p)' => Fresh(p), NEW o \in Players, LeavesGame(o)
  PROVE  SessionIInv'
<1>1. NetOf(conn, taskList)'
  BY DEF NetOf
<1>2. inGame' \in {inGame, NoPlayer}
  BY DEF LeavesGame
<1>3. Objects'
  BY <1>2 DEF SessionIInv, Objects, NoPlayer
<1>4. Counts'
  BY DEF SessionIInv, Counts, Held, LeavesGame, NoPlayer, Players
<1>5. Free'
  BY DEF SessionIInv, Free
<1>6. Few'
  BY UsedGrows DEF SessionIInv, Few, Objects
<1> QED
  BY <1>1, <1>3, <1>4, <1>5, <1>6 DEF SessionIInv

(* A login that finds nobody online makes an object of its own. *)
LEMMA MakingKeeps ==
  ASSUME SessionIInv, NetOf(conn', taskList'), NEW p \in Protocols, Fresh(p), ~Fresh(p)',
         \A q \in Protocols : Fresh(q)' => Fresh(q),
         NEW o, o = made + 1, made' = o, inGame = NoPlayer, inGame' \in {NoPlayer, o},
         owner' = [owner EXCEPT ![o] = p], player' = [player EXCEPT ![p] = o],
         refs' = [refs EXCEPT ![o] = IF inGame' = o THEN 2 ELSE 1],
         UNCHANGED connects
  PROVE  SessionIInv'
<1> USE DEF SessionIInv
<1>1. NetOf(conn, taskList)'
  BY DEF NetOf
<1>2. p \in Used' \ Used
  BY DEF Used
<1>3. made + 1 <= Cardinality(Used')
  <2>1. Used \cup {p} \subseteq Used' /\ IsFiniteSet(Used')
    BY <1>2, UsedGrows
  <2>2. /\ IsFiniteSet(Used) /\ Cardinality(Used \cup {p}) = Cardinality(Used) + 1
        /\ Cardinality(Used) \in Nat
    BY <1>2, <2>1, FS_Subset, FS_AddElement, FS_CardinalityType
  <2>3. Cardinality(Used \cup {p}) <= Cardinality(Used')
    BY <2>1, FS_Subset
  <2>4. Cardinality(Used') \in Nat /\ made \in Int
    BY <2>1, FS_CardinalityType DEF Objects
  <2> QED
    BY <2>2, <2>3, <2>4 DEF Few
<1>4. Cardinality(Used') <= Cardinality(Protocols) /\ Cardinality(Used') \in Nat
  <2>1. Used' \subseteq Protocols
    BY DEF Used
  <2> QED
    BY <2>1, SessionAssumption, FS_Subset, FS_CardinalityType
<1>5. o \in Players /\ made \in Nat /\ made < o
  <2>1. Cardinality(Protocols) \in Nat
    BY SessionAssumption, FS_CardinalityType
  <2> QED
    BY <1>3, <1>4, <2>1, SessionAssumption DEF Objects, Players
<1>6. player[p] = NoPlayer /\ \A q \in Protocols : player[q] # o
  BY <1>5 DEF Free, Objects
<1>7. owner[o] = Nobody /\ \A x \in Players : owner[x] # p
  <2>1. owner[o] \in Protocols \cup {Nobody}
    BY <1>5 DEF Objects
  <2> QED
    BY <1>5, <1>6, <2>1 DEF Objects, NoPlayer, Players
<1>8. Objects'
  <2>1. made' \in 0..MaxObjects /\ inGame' \in 0..made'
    BY <1>5 DEF Players, NoPlayer
  <2>2. owner' \in [Players -> Protocols \cup {Nobody}]
    BY DEF Objects
  <2>3. player' \in [Protocols -> 0..made']
    BY <1>5 DEF Objects
  <2>4. \A q \in Protocols, x \in Players : player'[q] = x <=> owner'[x] = q
    BY <1>5, <1>6, <1>7 DEF Objects
  <2> QED
    BY <2>1, <2>2, <2>3, <2>4 DEF Objects
<1>9. Counts'
  <2> DEFINE n == IF inGame' = o THEN 2 ELSE 1
  <2>0. n \in Int
    OBVIOUS
  <2> HIDE DEF n
  <2>1. refs' \in [Players -> Int]
    BY <2>0 DEF Counts, n
  <2>2. refs'[o] = Held(o)'
    <3>1. refs'[o] = (IF inGame' = o THEN 2 ELSE 1) /\ owner'[o] = p
      BY <1>5 DEF Counts, Objects
    <3> QED
      BY <3>1, SessionAssumption DEF Held
  <2>3. \A x \in Players \ {o} : refs'[x] = Held(x)'
    BY <1>5 DEF Counts, Held, Objects, NoPlayer, Players
  <2> QED
    BY <2>1, <2>2, <2>3 DEF Counts
<1>10. Free'
  BY <1>5 DEF Free, Objects, NoPlayer
<1>11. Few'
  BY <1>3 DEF Few
<1> QED
  BY <1>1, <1>8, <1>9, <1>10, <1>11

(* connect gives the player to a protocol that drives nothing, when nobody
   else does. *)
LEMMA ConnectKeeps ==
  ASSUME SessionIInv, NEW c \in connects, Connect(c)
  PROVE  SessionIInv'
<1> USE DEF SessionIInv
<1>1. c.of \in Protocols /\ c.to \in Players /\ player[c.of] = NoPlayer /\ ~Fresh(c.of)
  BY DEF Free
<1>2. ASSUME NetOf(conn', taskList'), \A p \in Protocols : Fresh(p)' => Fresh(p),
             UNCHANGED objVars, UNCHANGED protVars
      PROVE  SessionIInv'
  <2>1. NetOf(conn, taskList)'
    BY <1>2 DEF NetOf
  <2>2. Objects' /\ Counts'
    BY <1>2 DEF Objects, Counts, Held, objVars, protVars
  <2>3. Free'
    BY <1>2 DEF Free, Connect, protVars
  <2>4. Few'
    BY <1>2, UsedGrows DEF Few, Objects, objVars
  <2> QED
    BY <2>1, <2>2, <2>3, <2>4
<1>3. CASE ClosingProtocol({c.of}, taskList) /\ UNCHANGED <<objVars, protVars>>
  <2>1. {c.of} \in SUBSET Protocols
    BY <1>1
  <2>2. /\ NetOf(conn', taskList')
        /\ \A p \in Protocols : /\ Waits(taskList', p) <=> Waits(taskList, p)
                                /\ conn'[p] = "none" <=> conn[p] = "none"
    BY <1>3, <2>1, ClosingDoes
  <2>3. \A p \in Protocols : Fresh(p)' => Fresh(p)
    BY <2>2 DEF Fresh, Waits
  <2> QED
    BY <1>2, <1>3, <2>2, <2>3
<1>4. CASE UNCHANGED <<netVars, objVars, protVars>>
  BY <1>2, <1>4 DEF Fresh, Waits, netVars
<1>5. CASE /\ c.to = inGame /\ owner[c.to] = Nobody
           /\ player' = [player EXCEPT ![c.of] = c.to]
           /\ owner' = [owner EXCEPT ![c.to] = c.of]
           /\ refs' = [refs EXCEPT ![c.to] = @ + 1]
           /\ UNCHANGED <<netVars, made, inGame>>
  <2> DEFINE p == c.of
             o == c.to
  <2>1. /\ p \in Protocols /\ o \in Players /\ player[p] = NoPlayer /\ ~Fresh(p)
        /\ o = inGame /\ owner[o] = Nobody
        /\ player' = [player EXCEPT ![p] = o] /\ owner' = [owner EXCEPT ![o] = p]
        /\ refs' = [refs EXCEPT ![o] = @ + 1]
        /\ connects' = connects \ {c} /\ \A d \in connects' : d.of # p
    BY <1>1, <1>5 DEF Connect, Free
  <2> HIDE DEF p, o
  <2>2. /\ \A q \in Protocols : player[q] # o
        /\ \A x \in Players : owner[x] # p
    BY <2>1, SessionAssumption DEF Objects, NoPlayer, Players
  <2>3. NetOf(conn, taskList)'
    BY <1>5 DEF netVars, NetOf
  <2>4. Objects'
    <3>1. player' \in [Protocols -> 0..made'] /\ owner' \in [Players -> Protocols \cup {Nobody}]
      BY <1>5, <2>1 DEF Objects
    <3>2. \A q \in Protocols, x \in Players : player'[q] = x <=> owner'[x] = q
      BY <2>1, <2>2 DEF Objects
    <3> QED
      BY <1>5, <3>1, <3>2 DEF Objects
  <2>5. Counts'
    <3>1. refs' \in [Players -> Int]
      BY <2>1 DEF Counts
    <3>2. refs'[o] = Held(o)'
      BY <1>5, <2>1, SessionAssumption DEF Counts, Held, Objects
    <3>3. \A x \in Players \ {o} : refs'[x] = Held(x)'
      BY <1>5, <2>1 DEF Counts, Held, Objects
    <3> QED
      BY <3>1, <3>2, <3>3 DEF Counts
  <2>6. \A q \in Protocols : Fresh(q)' <=> Fresh(q)
    BY <1>5 DEF netVars, Fresh, Waits
  <2>7. Free'
    <3>1. \A q \in Protocols : Fresh(q)' => player'[q] = NoPlayer
      BY <2>1, <2>6 DEF Free, Objects
    <3>2. \A d \in connects' : ~Fresh(d.of)' /\ player'[d.of] = NoPlayer
      BY <2>1, <2>6 DEF Free, Objects
    <3> QED
      BY <2>1, <3>1, <3>2 DEF Free
  <2>8. Few'
    BY <1>5, <2>6, UsedGrows DEF Few, Objects
  <2> QED
    BY <2>3, <2>4, <2>5, <2>7, <2>8
<1> QED
  BY <1>3, <1>4, <1>5 DEF Connect
LEMMA SessionStep == SessionIInv /\ [SessionNext]_sessionVars => SessionIInv'
<1> SUFFICES ASSUME SessionIInv, [SessionNext]_sessionVars PROVE SessionIInv'
  OBVIOUS
<1> USE DEF SessionIInv
<1>1. ASSUME NEW p \in Protocols, Open(p) PROVE SessionIInv'
  <2>1. ~Waits(taskList, p)
    BY <1>1 DEF Open, NetOf
  <2>2. /\ taskList' \in Seq(Tasks) /\ LoginsOnce(taskList')
        /\ \A q \in Protocols : Waits(taskList', q) <=> Waits(taskList, q) \/ q = p
    BY <1>1, <2>1, LoginAdded DEF Open, NetOf
  <2>3. NetOf(conn', taskList')
    BY <1>1, <2>2 DEF Open, NetOf
  <2>4. \A q \in Protocols : Fresh(q)' => Fresh(q)
    BY <1>1, <2>2 DEF Open, Fresh, NetOf, Waits
  <2> QED
    BY <1>1, <2>3, <2>4, NetStepKeeps DEF Open, objVars, protVars
<1>2. ASSUME NEW list, NetOf(conn, list), NEW P \in SUBSET Protocols, ClosingProtocol(P, list),
             \A q \in Protocols : Waits(list, q) => Waits(taskList, q)
      PROVE  NetOf(conn', taskList') /\ \A q \in Protocols : Fresh(q)' => Fresh(q)
  BY <1>2, ClosingDoes DEF Fresh, Waits
<1>3. ASSUME NEW p \in Protocols, HangUp(p) PROVE SessionIInv'
  <2>1. {p} \in SUBSET Protocols /\ ClosingProtocol({p}, taskList)
    BY <1>3 DEF HangUp
  <2>2. NetOf(conn', taskList') /\ \A q \in Protocols : Fresh(q)' => Fresh(q)
    BY <1>2, <2>1
  <2> QED
    BY <1>3, <2>2, NetStepKeeps DEF HangUp, objVars, protVars
<1>4. ASSUME NEW p \in Protocols, DestroyProtocol(p) PROVE SessionIInv'
  <2>1. NetOf(conn', taskList')
    BY <1>4 DEF DestroyProtocol, NetOf
  <2>2. \A q \in Protocols : Fresh(q)' => Fresh(q)
    BY <1>4 DEF DestroyProtocol, Fresh, NetOf, Waits
  <2> QED
    BY <1>4, <2>1, <2>2, NetStepKeeps DEF DestroyProtocol, objVars, protVars
<1>5. ASSUME NEW p \in Protocols, AskLogout(p) PROVE SessionIInv'
  <2> DEFINE r == <<Task("logout", p)>>
  <2>1. r \in Seq(Tasks) /\ \A i \in DOMAIN r : r[i].kind # "login"
    BY TaskFacts
  <2>2. taskList' = taskList \o r
    BY <1>5 DEF AskLogout, NetOf
  <2> HIDE DEF r
  <2>3. /\ taskList' \in Seq(Tasks) /\ LoginsOnce(taskList')
        /\ \A q \in Protocols : Waits(taskList', q) <=> Waits(taskList, q)
    BY <2>1, <2>2, AddedKeep DEF NetOf
  <2>4. NetOf(conn', taskList')
    BY <1>5, <2>3 DEF AskLogout, NetOf
  <2>5. \A q \in Protocols : Fresh(q)' => Fresh(q)
    BY <1>5, <2>3 DEF AskLogout, Fresh, Waits
  <2> QED
    BY <1>5, <2>4, <2>5, NetStepKeeps DEF AskLogout, objVars, protVars
(* The rest of the list, once its first task is taken. *)
<1>6. ASSUME NEW k \in {"login", "release", "logout"}, NEW p \in Protocols, Next1(k, p)
      PROVE  /\ NetOf(conn, Tail(taskList))
             /\ \A q \in Protocols : Waits(Tail(taskList), q) => Waits(taskList, q)
             /\ k = "login" => Waits(taskList, p) /\ ~Waits(Tail(taskList), p)
  <2>1. taskList # <<>> /\ Head(taskList) = Task(k, p)
    BY <1>6 DEF Next1
  <2>2. /\ Tail(taskList) \in Seq(Tasks) /\ LoginsOnce(Tail(taskList))
        /\ \A q \in Protocols :
             Waits(Tail(taskList), q) <=> Waits(taskList, q) /\ Head(taskList) # Task("login", q)
    BY <2>1, HeadTaken DEF NetOf
  <2>3. Waits(taskList, p) \/ k # "login"
    BY <2>1 DEF Waits, NetOf
  <2> QED
    BY <2>1, <2>2, <2>3 DEF NetOf
(* A task that only closes the connections P. *)
<1>7. ASSUME NEW k \in {"login", "release", "logout"}, NEW p \in Protocols, Next1(k, p),
             NEW P \in SUBSET Protocols, ClosingProtocol(P, Tail(taskList))
      PROVE  /\ NetOf(conn', taskList') /\ \A q \in Protocols : Fresh(q)' => Fresh(q)
             /\ k = "login" => Fresh(p) /\ ~Fresh(p)'
  <2>1. NetOf(conn', taskList') /\ \A q \in Protocols : Fresh(q)' => Fresh(q)
    BY <1>2, <1>6, <1>7
  <2>2. \A q \in Protocols : /\ Waits(taskList', q) <=> Waits(Tail(taskList), q)
                             /\ conn'[q] = "none" <=> conn[q] = "none"
    BY <1>6, <1>7, ClosingDoes
  <2>3. k = "login" => Waits(taskList, p) /\ ~Waits(Tail(taskList), p)
    BY <1>6, <1>7
  <2>4. \A q \in Protocols : Waits(taskList, q) => conn[q] # "none"
    BY DEF NetOf
  <2> QED
    BY <2>1, <2>2, <2>3, <2>4 DEF Fresh, Waits
<1>8. ASSUME NEW k \in {"login", "release", "logout"}, NEW p \in Protocols, Next1(k, p),
             taskList' = Tail(taskList), conn' = conn
      PROVE  /\ NetOf(conn', taskList') /\ \A q \in Protocols : Fresh(q)' => Fresh(q)
             /\ k = "login" => Fresh(p) /\ ~Fresh(p)'
  BY <1>6, <1>8 DEF Fresh, NetOf, Waits
<1>9. ASSUME NEW p \in Protocols, LoginRejected(p) PROVE SessionIInv'
  <2>1. Next1("login", p) /\ {p} \in SUBSET Protocols /\ ClosingProtocol({p}, Tail(taskList))
    BY <1>9 DEF LoginRejected
  <2>2. /\ NetOf(conn', taskList') /\ \A q \in Protocols : Fresh(q)' => Fresh(q)
        /\ Fresh(p) /\ ~Fresh(p)'
    BY <1>7, <2>1
  <2>3. /\ inGame = NoPlayer /\ inGame' = NoPlayer /\ made' = made + 1
        /\ owner' = [owner EXCEPT ![made + 1] = p] /\ player' = [player EXCEPT ![p] = made + 1]
        /\ refs' = [refs EXCEPT ![made + 1] = 1] /\ UNCHANGED connects
        /\ made + 1 # NoPlayer
    BY <1>9 DEF LoginRejected, Objects, NoPlayer
  <2> QED
    BY <2>2, <2>3, MakingKeeps
<1>10. ASSUME NEW p \in Protocols, LoginPlaced(p) PROVE SessionIInv'
  <2>1. Next1("login", p) /\ taskList' = Tail(taskList) /\ conn' = conn
    BY <1>10 DEF LoginPlaced
  <2>2. /\ NetOf(conn', taskList') /\ \A q \in Protocols : Fresh(q)' => Fresh(q)
        /\ Fresh(p) /\ ~Fresh(p)'
    BY <1>8, <2>1
  <2>3. /\ inGame = NoPlayer /\ inGame' = made + 1 /\ made' = made + 1
        /\ owner' = [owner EXCEPT ![made + 1] = p] /\ player' = [player EXCEPT ![p] = made + 1]
        /\ refs' = [refs EXCEPT ![made + 1] = 2] /\ UNCHANGED connects
    BY <1>10 DEF LoginPlaced
  <2> QED
    BY <2>2, <2>3, MakingKeeps
<1>11. ASSUME NEW p \in Protocols, LoginReplaces(p) PROVE SessionIInv'
  <2>1. inGame \in Players
    BY <1>11, Made DEF LoginReplaces
  <2>2. {owner[inGame]} \ {Nobody} \in SUBSET Protocols
    BY <2>1 DEF Objects
  <2>3. Next1("login", p) /\ ClosingProtocol({owner[inGame]} \ {Nobody}, Tail(taskList))
    BY <1>11 DEF LoginReplaces
  <2>4. /\ NetOf(conn', taskList') /\ \A q \in Protocols : Fresh(q)' => Fresh(q)
        /\ Fresh(p) /\ ~Fresh(p)'
    BY <1>7, <2>2, <2>3
  <2>5. /\ connects' = connects \cup {[of |-> p, to |-> inGame]}
        /\ UNCHANGED <<made, inGame, owner, refs, player>>
    BY <1>11 DEF LoginReplaces
  <2>6. NetOf(conn, taskList)'
    BY <2>4 DEF NetOf
  <2>7. Objects' /\ Counts'
    BY <2>5 DEF Objects, Counts, Held
  <2>8. player[p] = NoPlayer /\ \A c \in connects : c.of # p
    BY <2>4 DEF Free
  <2>9. Free'
    BY <2>1, <2>4, <2>5, <2>8 DEF Free
  <2>10. Few'
    BY <2>4, <2>5, UsedGrows DEF Few, Objects
  <2> QED
    BY <2>6, <2>7, <2>9, <2>10
<1>12. ASSUME NEW p \in Protocols, LoginRefused(p) PROVE SessionIInv'
  <2>1. Next1("login", p) /\ {p} \in SUBSET Protocols /\ ClosingProtocol({p}, Tail(taskList))
    BY <1>12 DEF LoginRefused
  <2>2. NetOf(conn', taskList') /\ \A q \in Protocols : Fresh(q)' => Fresh(q)
    BY <1>7, <2>1
  <2> QED
    BY <1>12, <2>2, NetStepKeeps DEF LoginRefused, objVars, protVars
<1>13. ASSUME NEW p \in Protocols, NEW list, LogoutBy(p, list), player[p] # NoPlayer,
              NetOf(conn, list), \A q \in Protocols : Waits(list, q) => Waits(taskList, q)
       PROVE  SessionIInv'
  <2>1. {p} \in SUBSET Protocols /\ ClosingProtocol({p}, list) /\ LeavesGame(player[p])
    BY <1>13 DEF LogoutBy
  <2>2. NetOf(conn', taskList') /\ \A q \in Protocols : Fresh(q)' => Fresh(q)
    BY <1>2, <1>13, <2>1
  <2>3. player[p] \in Players
    BY <1>13, Made
  <2>4. UNCHANGED <<connects, made, owner, player>>
    BY <1>13 DEF LogoutBy, protVars
  <2> QED
    BY <2>1, <2>2, <2>3, <2>4, LeavingKeeps
<1>14. ASSUME NEW p \in Protocols, Logout(p) PROVE SessionIInv'
  <2>1. Next1("logout", p)
    BY <1>14 DEF Logout
  <2>2. CASE player[p] # NoPlayer /\ LogoutBy(p, Tail(taskList))
    BY <1>6, <1>13, <2>1, <2>2
  <2>3. CASE /\ taskList' = Tail(taskList)
             /\ UNCHANGED <<conn, connects, objVars, protVars>>
    BY <1>8, <2>1, <2>3, NetStepKeeps DEF objVars, protVars
  <2> QED
    BY <1>14, <2>2, <2>3 DEF Logout
<1>15. ASSUME NEW p \in Protocols, Release(p) PROVE SessionIInv'
  <2>1. Next1("release", p) /\ taskList' = Tail(taskList) /\ conn' = conn
    BY <1>15 DEF Release
  <2>2. NetOf(conn', taskList') /\ \A q \in Protocols : Fresh(q)' => Fresh(q)
    BY <1>8, <2>1
  <2>3. CASE player[p] = NoPlayer
    <3>1. UNCHANGED <<connects, made, inGame, owner, refs, player>>
      BY <1>15, <2>3 DEF Release
    <3> QED
      BY <2>2, <3>1, NetStepKeeps
  <2>4. CASE player[p] # NoPlayer
    <3>1. PICK o \in Players : player[p] = o /\ owner[o] = p
      BY <2>4, Made DEF Objects
    <3>2. /\ owner' = [owner EXCEPT ![o] = Nobody] /\ refs' = [refs EXCEPT ![o] = @ - 1]
          /\ player' = [player EXCEPT ![p] = NoPlayer] /\ UNCHANGED <<connects, made, inGame>>
      BY <1>15, <2>4, <3>1 DEF Release
    <3>3. NetOf(conn, taskList)'
      BY <2>2 DEF NetOf
    <3>4. Objects'
      <4>1. player' \in [Protocols -> 0..made'] /\ owner' \in [Players -> Protocols \cup {Nobody}]
        BY <3>1, <3>2 DEF Objects, NoPlayer
      <4>2. \A q \in Protocols, x \in Players : player'[q] = x <=> owner'[x] = q
        BY <3>1, <3>2, SessionAssumption DEF Objects, NoPlayer, Players
      <4> QED
        BY <3>2, <4>1, <4>2 DEF Objects
    <3>5. Counts'
      <4>1. refs' \in [Players -> Int]
        BY <3>1, <3>2 DEF Counts
      <4>2. refs'[o] = Held(o)'
        <5>1. refs'[o] = refs[o] - 1 /\ owner'[o] = Nobody /\ owner[o] # Nobody
          BY <3>1, <3>2, SessionAssumption DEF Counts, Objects
        <5>2. refs[o] = Held(o)
          BY <3>1 DEF Counts
        <5> QED
          BY <3>2, <5>1, <5>2 DEF Held
      <4>3. \A x \in Players \ {o} : refs'[x] = Held(x)'
        BY <3>1, <3>2 DEF Counts, Held, Objects
      <4> QED
        BY <4>1, <4>2, <4>3 DEF Counts
    <3>6. Free'
      <4>1. \A q \in Protocols : player[q] = NoPlayer => player'[q] = NoPlayer
        BY <3>2 DEF Objects
      <4> QED
        BY <2>2, <3>2, <4>1 DEF Free
    <3>7. Few'
      BY <2>2, <3>2, UsedGrows DEF Few, Objects
    <3> QED
      BY <3>3, <3>4, <3>5, <3>6, <3>7
  <2> QED
    BY <2>3, <2>4
<1>16. ASSUME NEW c \in connects, Connect(c) PROVE SessionIInv'
  BY <1>16, ConnectKeeps
<1>17. CASE Kick \/ ThinkTimeout
  <2>1. inGame \in Players
    BY <1>17, Made DEF Kick, ThinkTimeout
  <2>2. CASE owner[inGame] # Nobody
    <3>1. LogoutBy(owner[inGame], taskList)
      BY <1>17, <2>2 DEF Kick, ThinkTimeout
    <3>2. owner[inGame] \in Protocols /\ player[owner[inGame]] # NoPlayer
      BY <2>1, <2>2 DEF Objects, NoPlayer, Players
    <3> QED
      BY <1>13, <3>1, <3>2
  <2>3. CASE owner[inGame] = Nobody
    <3>1. LeavesGame(inGame) /\ UNCHANGED <<netVars, connects, made, owner, player>>
      BY <1>17, <2>3 DEF Kick, ThinkTimeout, protVars
    <3>2. NetOf(conn', taskList') /\ \A q \in Protocols : Fresh(q)' => Fresh(q)
      BY <3>1 DEF netVars, Fresh, Waits
    <3> QED
      BY <2>1, <3>1, <3>2, LeavingKeeps
  <2> QED
    BY <2>2, <2>3
<1>18. CASE UNCHANGED sessionVars
  <2>1. NetOf(conn', taskList') /\ \A q \in Protocols : Fresh(q)' => Fresh(q)
    BY <1>18 DEF sessionVars, Fresh, Waits
  <2> QED
    BY <1>18, <2>1, NetStepKeeps DEF sessionVars
<1>19. CASE KeptOrNot
  <2>1. NetOf(conn', taskList') /\ \A q \in Protocols : Fresh(q)' => Fresh(q)
    BY <1>19 DEF KeptOrNot, Fresh, Waits
  <2> QED
    BY <1>19, <2>1, NetStepKeeps DEF KeptOrNot, objVars, protVars
<1> QED
  BY <1>1, <1>3, <1>4, <1>5, <1>9, <1>10, <1>11, <1>12, <1>14, <1>15, <1>16, <1>17, <1>18,
     <1>19 DEF SessionNext, RunTask

-----------------------------------------------------------------------------
(* However logins, releases, scheduled connect() calls, kicks and hang-ups
   interleave, two connections never drive the same Player, and the owner of
   its client drives it. *)
THEOREM OneDriverHolds == SessionSpec => []OneDriver
<1>1. SessionIInv => OneDriver
  <2> SUFFICES ASSUME SessionIInv PROVE OneDriver
    OBVIOUS
  <2>1. \A p \in Protocols : player[p] # NoPlayer => player[p] \in Players
    BY Made DEF SessionIInv
  <2> QED
    BY <2>1 DEF SessionIInv, Objects, OneDriver
<1> QED
  BY SessionInitIInv, SessionStep, <1>1, PTL DEF SessionSpec

(* The reference count of a Player is the number of protocols that have it,
   and one for the map while it is in the game: it is deleted when the last of
   them lets go of it, and not before. *)
THEOREM RefsCountHoldersHolds == SessionSpec => []RefsCountHolders
<1>1. SessionIInv => RefsCountHolders
  <2> SUFFICES ASSUME SessionIInv, NEW o \in Players
      PROVE  refs[o] = Cardinality({p \in Protocols : player[p] = o})
                       + IF inGame = o THEN 1 ELSE 0
    BY DEF RefsCountHolders
  <2> DEFINE D == {p \in Protocols : player[p] = o}
  <2>1. D = IF owner[o] = Nobody THEN {} ELSE {owner[o]}
    BY SessionAssumption DEF SessionIInv, Objects
  <2>2. Cardinality(D) = IF owner[o] = Nobody THEN 0 ELSE 1
    BY <2>1, FS_EmptySet, FS_Singleton
  <2> HIDE DEF D
  <2>3. refs[o] = Cardinality(D) + IF inGame = o THEN 1 ELSE 0
    BY <2>2 DEF SessionIInv, Counts, Held
  <2> QED
    BY <2>3 DEF D
<1> QED
  BY SessionInitIInv, SessionStep, <1>1, PTL DEF SessionSpec

-----------------------------------------------------------------------------
(* WaitList *)

Entries == [client : Clients, premium : BOOLEAN, left : Nat]

(* r is what is left of a list without the entries that have expired: g tells
   where each of it was. *)
Cleaned(list, n, r) ==
  /\ r \in Seq(Entries)
  /\ \E g \in [DOMAIN r -> 1..n] :
       /\ \A k \in DOMAIN r : r[k] = list[g[k]] /\ list[g[k]].left > 0
       /\ \A k, l \in DOMAIN r : k < l => g[k] < g[l]
       /\ \A i \in 1..n : list[i].left > 0 => \E k \in DOMAIN r : g[k] = i

(* Every set of numbers that is not empty has a least one. *)
LEMMA HasLeast ==
  ASSUME NEW S \in SUBSET Nat, S # {}
  PROVE  \E x \in S : \A y \in S : x =< y
<1>1. PICK x \in S : \A y \in S : ~(<<y, x>> \in OpToRel(<, Nat))
  BY NatLessThanWellFounded, WFMin
<1>2. OpToRel(<, Nat) = {ss \in Nat \X Nat : ss[1] < ss[2]}
  BY DEF OpToRel
<1>3. \A y \in S : x =< y
  <2> SUFFICES ASSUME NEW y \in S, y < x PROVE FALSE
    OBVIOUS
  <2>1. <<y, x>> \in {ss \in Nat \X Nat : ss[1] < ss[2]}
    OBVIOUS
  <2> QED
    BY <1>1, <1>2, <2>1
<1> QED
  BY <1>3

(* One more entry, kept or not. *)
LEMMA CleanedNext ==
  ASSUME NEW list \in Seq(Entries), NEW n \in 1..Len(list), NEW r, Cleaned(list, n - 1, r)
  PROVE  Cleaned(list, n, IF list[n].left > 0 THEN Append(r, list[n]) ELSE r)
<1>1. PICK g \in [DOMAIN r -> 1..(n-1)] :
        /\ \A k \in DOMAIN r : r[k] = list[g[k]] /\ list[g[k]].left > 0
        /\ \A k, l \in DOMAIN r : k < l => g[k] < g[l]
        /\ \A i \in 1..(n-1) : list[i].left > 0 => \E k \in DOMAIN r : g[k] = i
  BY DEF Cleaned
<1>2. r \in Seq(Entries) /\ list[n] \in Entries /\ n \in Nat
  BY DEF Cleaned
<1>3. CASE list[n].left > 0
  <2> DEFINE q == Append(r, list[n])
             h == [k \in DOMAIN q |-> IF k \in DOMAIN r THEN g[k] ELSE n]
  <2>1. /\ q \in Seq(Entries) /\ DOMAIN q = DOMAIN r \cup {Len(r) + 1}
        /\ Len(r) + 1 \notin DOMAIN r /\ q[Len(r) + 1] = list[n] /\ Len(r) \in Nat
        /\ \A k \in DOMAIN r : q[k] = r[k] /\ k < Len(r) + 1 /\ k \in Nat
    BY <1>2
  <2> HIDE DEF q
  <2>2. h \in [DOMAIN q -> 1..n]
    BY <1>1, <1>2, <2>1
  <2>3. h[Len(r) + 1] = n /\ \A k \in DOMAIN r : h[k] = g[k] /\ h[k] < n
    BY <1>1, <1>2, <2>1
  <2> HIDE DEF h
  <2>4. \A k \in DOMAIN q : q[k] = list[h[k]] /\ list[h[k]].left > 0
    BY <1>1, <1>3, <2>1, <2>3
  <2>5. \A k, l \in DOMAIN q : k < l => h[k] < h[l]
    BY <1>1, <2>1, <2>3
  <2>6. \A i \in 1..n : list[i].left > 0 => \E k \in DOMAIN q : h[k] = i
    <3> SUFFICES ASSUME NEW i \in 1..n, list[i].left > 0 PROVE \E k \in DOMAIN q : h[k] = i
      OBVIOUS
    <3>1. i = n \/ i \in 1..(n-1)
      BY <1>2
    <3> QED
      BY <1>1, <2>1, <2>3, <3>1
  <2>7. Cleaned(list, n, q)
    BY <2>1, <2>2, <2>4, <2>5, <2>6 DEF Cleaned
  <2> QED
    BY <1>3, <2>7 DEF q
<1>4. CASE ~(list[n].left > 0)
  <2>1. g \in [DOMAIN r -> 1..n]
    BY <1>1, <1>2
  <2>2. \A i \in 1..n : list[i].left > 0 => \E k \in DOMAIN r : g[k] = i
    <3> SUFFICES ASSUME NEW i \in 1..n, list[i].left > 0 PROVE \E k \in DOMAIN r : g[k] = i
      OBVIOUS
    <3>1. i = n \/ i \in 1..(n-1)
      BY <1>2
    <3> QED
      BY <1>1, <1>4, <3>1
  <2>3. Cleaned(list, n, r)
    BY <1>1, <1>2, <2>1, <2>2 DEF Cleaned
  <2> QED
    BY <1>4, <2>3
<1> QED
  BY <1>3, <1>4

(* The function that cleanup is defined by, up to the m-th entry. *)
Keeping(list, m, f) ==
  f = [n \in 0..m |-> IF n = 0 THEN <<>>
                      ELSE IF list[n].left > 0 THEN Append(f[n-1], list[n]) ELSE f[n-1]]

LEMMA KeepingExists ==
  ASSUME NEW list \in Seq(Entries)
  PROVE  \E f : Keeping(list, Len(list), f)
<1> DEFINE Bad == {m \in Nat : ~\E f : Keeping(list, m, f)}
<1>1. ASSUME Bad # {} PROVE FALSE
  <2>1. PICK m \in Bad : \A y \in Bad : m =< y
    BY <1>1, HasLeast
  <2>2. Keeping(list, 0, [n \in 0..0 |-> <<>>])
    BY DEF Keeping
  <2>3. m \in Nat \ {0} /\ m - 1 \in Nat /\ m - 1 \notin Bad
    BY <2>1, <2>2
  <2>4. PICK f : Keeping(list, m - 1, f)
    BY <2>3
  <2> DEFINE e == IF list[m].left > 0 THEN Append(f[m-1], list[m]) ELSE f[m-1]
             g == [n \in 0..m |-> IF n = m THEN e ELSE f[n]]
  <2>5. /\ \A n \in 0..(m-1) : n \in 0..m /\ n # m /\ g[n] = f[n]
        /\ g[m] = e /\ m - 1 \in 0..(m-1)
    BY <2>3
  <2>6. \A n \in 0..m :
          g[n] = IF n = 0 THEN <<>>
                 ELSE IF list[n].left > 0 THEN Append(g[n-1], list[n]) ELSE g[n-1]
    <3> SUFFICES ASSUME NEW n \in 0..m
        PROVE  g[n] = IF n = 0 THEN <<>>
                      ELSE IF list[n].left > 0 THEN Append(g[n-1], list[n]) ELSE g[n-1]
      OBVIOUS
    <3>1. CASE n = m
      <4>1. g[n-1] = f[m-1] /\ n # 0
        BY <2>3, <2>5, <3>1
      <4> QED
        BY <2>5, <3>1, <4>1
    <3>2. CASE n # m
      <4>1. n \in 0..(m-1) /\ (n # 0 => n - 1 \in 0..(m-1))
        BY <2>3, <3>2
      <4> HIDE DEF g, e
      <4>2. f[n] = IF n = 0 THEN <<>>
                   ELSE IF list[n].left > 0 THEN Append(f[n-1], list[n]) ELSE f[n-1]
        BY <2>4, <4>1 DEF Keeping
      <4>3. n # 0 => g[n-1] = f[n-1]
        BY <2>5, <4>1
      <4> QED
        BY <2>5, <4>1, <4>2, <4>3
    <3> QED
      BY <3>1, <3>2
  <2>7. g = [n \in 0..m |-> g[n]]
    OBVIOUS
  <2> HIDE DEF g
  <2>8. Keeping(list, m, g)
    BY <2>6, <2>7 DEF Keeping
  <2> QED
    BY <2>8
<1>2. Len(list) \in Nat
  OBVIOUS
<1> QED
  BY <1>1, <1>2

(* cleanup takes out the entries that have expired, and keeps the order of the
   others. *)
LEMMA CleanupDoes ==
  ASSUME NEW list \in Seq(Entries)
  PROVE  Cleaned(list, Len(list), cleanup(list))
<1> DEFINE f == CHOOSE f : Keeping(list, Len(list), f)
<1>1. Keeping(list, Len(list), f)
  BY KeepingExists
<1>2. cleanup(list) = f[Len(list)]
  BY DEF cleanup, Keeping
<1> HIDE DEF f
<1>3. /\ f[0] = <<>>
      /\ \A n \in 1..Len(list) :
           f[n] = IF list[n].left > 0 THEN Append(f[n-1], list[n]) ELSE f[n-1]
  <2>1. ASSUME NEW n \in 0..Len(list)
        PROVE  f[n] = IF n = 0 THEN <<>>
                      ELSE IF list[n].left > 0 THEN Append(f[n-1], list[n]) ELSE f[n-1]
    BY <1>1 DEF Keeping
  <2>2. Len(list) \in Nat /\ 0 \in 0..Len(list)
    OBVIOUS
  <2>3. f[0] = <<>>
    BY <2>1, <2>2
  <2>4. ASSUME NEW n \in 1..Len(list)
        PROVE  f[n] = IF list[n].left > 0 THEN Append(f[n-1], list[n]) ELSE f[n-1]
    <3>1. n \in 0..Len(list) /\ n # 0
      OBVIOUS
    <3> QED
      BY <2>1, <3>1
  <2> QED
    BY <2>3, <2>4
<1> DEFINE Bad == {n \in 0..Len(list) : ~Cleaned(list, n, f[n])}
<1>4. ASSUME Bad # {} PROVE FALSE
  <2>0. Bad \in SUBSET Nat
    OBVIOUS
  <2>1. PICK n \in Bad : \A y \in Bad : n =< y
    <3> HIDE DEF Bad
    <3> QED
      BY <1>4, <2>0, HasLeast
  <2>2. Cleaned(list, 0, <<>>)
    <3>1. DOMAIN <<>> = {} /\ <<>> \in Seq(Entries)
      OBVIOUS
    <3> DEFINE g == [k \in {} |-> 1]
    <3>2. g \in [DOMAIN <<>> -> 1..0]
      BY <3>1
    <3> HIDE DEF g
    <3>3. /\ \A k \in DOMAIN <<>> : FALSE
          /\ \A i \in 1..0 : FALSE
      BY <3>1
    <3> DEFINE r == <<>>
    <3> HIDE DEF r
    <3>4. r \in Seq(Entries) /\ g \in [DOMAIN r -> 1..0] /\ \A k \in DOMAIN r : FALSE
      BY <3>1, <3>2, <3>3 DEF r
    <3>5. Cleaned(list, 0, r)
      BY <3>3, <3>4 DEF Cleaned
    <3> QED
      BY <3>5 DEF r
  <2>3. n \in 1..Len(list) /\ Cleaned(list, n - 1, f[n-1])
    BY <1>3, <2>1, <2>2
  <2> HIDE DEF Bad
  <2>4. Cleaned(list, n, f[n])
    BY <1>3, <2>3, CleanedNext
  <2> QED
    BY <2>1, <2>4 DEF Bad
<1>5. Len(list) \in 0..Len(list)
  OBVIOUS
<1> QED
  BY <1>2, <1>4, <1>5

(* What is listed once, and where. *)
Once(list) == \A i, j \in DOMAIN list : list[i].client = list[j].client => i = j

Before(list, c, d) ==
  \E i, j \in DOMAIN list : i < j /\ list[i].client = c /\ list[j].client = d

WaitTypes ==
  /\ online \subseteq Clients /\ premium \subseteq Clients
  /\ waitList \in Seq(Entries) /\ Once(waitList)
  /\ told \in [Clients -> Nat \cup {Gone}]

WaitIInv == WaitTypes /\ PromiseKept

LEMMA Found ==
  ASSUME NEW list \in Seq(Entries), NEW c, Listed(list, c)
  PROVE  find(list, c) \in DOMAIN list /\ list[find(list, c)].client = c
  BY DEF Listed, find

LEMMA BeforeMeans ==
  ASSUME NEW list \in Seq(Entries), Once(list), NEW c, NEW d
  PROVE  Before(list, c, d) <=> /\ Listed(list, c) /\ Listed(list, d)
                                /\ find(list, c) < find(list, d)
<1>1. ASSUME Before(list, c, d)
      PROVE  Listed(list, c) /\ Listed(list, d) /\ find(list, c) < find(list, d)
  <2>1. Listed(list, c) /\ Listed(list, d)
    BY <1>1 DEF Before, Listed
  <2> QED
    BY <1>1, <2>1, Found DEF Before, Once
<1>2. ASSUME Listed(list, c), Listed(list, d), find(list, c) < find(list, d)
      PROVE  Before(list, c, d)
  BY <1>2, Found DEF Before
<1> QED
  BY <1>1, <1>2

(* Without the expired entries: those that stay are listed once and in order,
   and what is promised stays. *)
LEMMA CleanupKeeps ==
  ASSUME NEW list \in Seq(Entries), Once(list)
  PROVE  /\ cleanup(list) \in Seq(Entries) /\ Once(cleanup(list))
         /\ \A c, d : Before(cleanup(list), c, d) => Before(list, c, d)
         /\ \A i \in DOMAIN list : list[i].left > 0 =>
              \E k \in DOMAIN cleanup(list) : cleanup(list)[k] = list[i]
<1> DEFINE r == cleanup(list)
<1>1. Cleaned(list, Len(list), r)
  BY CleanupDoes
<1> HIDE DEF r
<1>2. PICK g \in [DOMAIN r -> 1..Len(list)] :
        /\ \A k \in DOMAIN r : r[k] = list[g[k]] /\ list[g[k]].left > 0
        /\ \A k, l \in DOMAIN r : k < l => g[k] < g[l]
        /\ \A i \in 1..Len(list) : list[i].left > 0 => \E k \in DOMAIN r : g[k] = i
  BY <1>1 DEF Cleaned
<1>3. r \in Seq(Entries) /\ DOMAIN list = 1..Len(list)
  BY <1>1 DEF Cleaned
<1>4. Once(r)
  <2> SUFFICES ASSUME NEW k \in DOMAIN r, NEW l \in DOMAIN r, r[k].client = r[l].client
      PROVE  k = l
    BY DEF Once
  <2>1. g[k] = g[l]
    BY <1>2, <1>3 DEF Once
  <2>2. k \in Int /\ l \in Int /\ g[k] \in Int
    BY <1>2, <1>3
  <2> QED
    BY <1>2, <2>1, <2>2
<1>5. ASSUME NEW c, NEW d, Before(r, c, d) PROVE Before(list, c, d)
  BY <1>2, <1>3, <1>5 DEF Before
<1>6. \A i \in DOMAIN list : list[i].left > 0 => \E k \in DOMAIN r : r[k] = list[i]
  BY <1>2, <1>3
<1> QED
  BY <1>3, <1>4, <1>5, <1>6 DEF r

(* The parts of a list, and the two of them put together. *)
LEMMA Part ==
  ASSUME NEW list \in Seq(Entries), NEW m \in 1..(Len(list) + 1), NEW n \in (m - 1)..Len(list)
  PROVE  /\ SubSeq(list, m, n) \in Seq(Entries) /\ Len(SubSeq(list, m, n)) = n - m + 1
         /\ \A i \in 1..(n - m + 1) : SubSeq(list, m, n)[i] = list[m + i - 1]
  OBVIOUS

LEMMA Together ==
  ASSUME NEW u \in Seq(Entries), NEW v \in Seq(Entries)
  PROVE  /\ u \o v \in Seq(Entries) /\ Len(u \o v) = Len(u) + Len(v)
         /\ \A i \in 1..(Len(u) + Len(v)) :
              (u \o v)[i] = IF i <= Len(u) THEN u[i] ELSE v[i - Len(u)]
  OBVIOUS

(* An entry that is taken out. *)
LEMMA RemovedKeeps ==
  ASSUME NEW list \in Seq(Entries), Once(list), NEW s \in DOMAIN list
  PROVE  /\ RemoveAt(list, s) \in Seq(Entries) /\ Once(RemoveAt(list, s))
         /\ \A c, d : /\ Before(list, c, d)
                      /\ Listed(RemoveAt(list, s), c) /\ Listed(RemoveAt(list, s), d)
                      => Before(RemoveAt(list, s), c, d)
         /\ \A i \in DOMAIN list \ {s} :
              \E k \in DOMAIN RemoveAt(list, s) : RemoveAt(list, s)[k] = list[i]
<1> DEFINE r == RemoveAt(list, s)
           at(k) == IF k < s THEN k ELSE k + 1
<1>1. /\ r \in Seq(Entries) /\ DOMAIN r = 1..(Len(list) - 1)
      /\ \A k \in DOMAIN r : r[k] = list[at(k)]
  <2> DEFINE u == SubSeq(list, 1, s - 1)
             v == SubSeq(list, s + 1, Len(list))
  <2>1. /\ s \in 1..Len(list) /\ s \in Nat /\ Len(list) \in Nat
        /\ s - 1 \in 0..Len(list) /\ s + 1 \in 1..(Len(list) + 1)
    OBVIOUS
  <2>2. /\ u \in Seq(Entries) /\ Len(u) = s - 1
        /\ \A i \in 1..(s - 1) : u[i] = list[i]
    BY <2>1, Part
  <2>3. /\ v \in Seq(Entries) /\ Len(v) = Len(list) - s
        /\ \A i \in 1..(Len(list) - s) : v[i] = list[s + i]
    <3>1. Len(list) \in ((s + 1) - 1)..Len(list) /\ Len(list) - (s + 1) + 1 = Len(list) - s
      BY <2>1
    <3>2. /\ v \in Seq(Entries) /\ Len(v) = Len(list) - (s + 1) + 1
          /\ \A i \in 1..(Len(list) - (s + 1) + 1) : v[i] = list[(s + 1) + i - 1]
      BY <2>1, <3>1, Part
    <3> HIDE DEF v
    <3>3. ASSUME NEW i \in 1..(Len(list) - s) PROVE (s + 1) + i - 1 = s + i
      BY <2>1
    <3> QED
      BY <3>1, <3>2, <3>3
  <2>4. r = u \o v
    BY DEF RemoveAt
  <2> HIDE DEF u, v, r
  <2>5. /\ r \in Seq(Entries) /\ Len(r) = Len(u) + Len(v)
        /\ \A k \in 1..(Len(u) + Len(v)) : r[k] = IF k <= Len(u) THEN u[k] ELSE v[k - Len(u)]
    BY <2>2, <2>3, <2>4, Together
  <2>6. DOMAIN r = 1..(Len(list) - 1)
    BY <2>1, <2>2, <2>3, <2>5
  <2>7. ASSUME NEW k \in 1..(Len(list) - 1) PROVE r[k] = list[at(k)]
    <3>1. r[k] = IF k <= s - 1 THEN u[k] ELSE v[k - (s - 1)]
      <4>1. k \in 1..(Len(u) + Len(v))
        BY <2>1, <2>2, <2>3
      <4> QED
        BY <2>2, <2>5, <4>1
    <3>2. CASE k < s
      BY <2>1, <2>2, <3>1, <3>2
    <3>3. CASE ~(k < s)
      <4>1. k - (s - 1) \in 1..(Len(list) - s) /\ s + (k - (s - 1)) = k + 1
        BY <2>1, <3>3
      <4>2. r[k] = v[k - (s - 1)]
        BY <2>1, <3>1, <3>3
      <4>3. v[k - (s - 1)] = list[s + (k - (s - 1))]
        BY <2>3, <4>1
      <4> QED
        BY <3>3, <4>1, <4>2, <4>3
    <3> QED
      BY <3>2, <3>3
  <2> QED
    BY <2>5, <2>6, <2>7
<1>2. s \in 1..Len(list) /\ DOMAIN list = 1..Len(list) /\ Len(list) \in Nat
  OBVIOUS
<1> HIDE DEF r
<1>3. \A k, l \in DOMAIN r : /\ at(k) \in DOMAIN list /\ at(k) # s
                             /\ k < l <=> at(k) < at(l)
                             /\ k = l <=> at(k) = at(l)
  BY <1>1, <1>2
<1>4. \A i \in DOMAIN list \ {s} : \E k \in DOMAIN r : at(k) = i
  <2> SUFFICES ASSUME NEW i \in DOMAIN list \ {s} PROVE \E k \in DOMAIN r : at(k) = i
    OBVIOUS
  <2>1. CASE i < s
    BY <1>1, <1>2, <2>1
  <2>2. CASE i > s
    <3>1. i - 1 \in DOMAIN r /\ at(i - 1) = i
      BY <1>1, <1>2, <2>2
    <3> QED
      BY <3>1
  <2> QED
    BY <1>2, <2>1, <2>2
<1> HIDE DEF at
<1>5. Once(r)
  BY <1>1, <1>3 DEF Once
<1>6. ASSUME NEW c, NEW d, Before(list, c, d), Listed(r, c), Listed(r, d)
      PROVE  Before(r, c, d)
  <2>1. PICK k \in DOMAIN r, l \in DOMAIN r : r[k].client = c /\ r[l].client = d
    BY <1>6 DEF Listed
  <2>2. PICK i \in DOMAIN list, j \in DOMAIN list :
          i < j /\ list[i].client = c /\ list[j].client = d
    BY <1>6 DEF Before
  <2>3. at(k) = i /\ at(l) = j
    BY <1>1, <1>3, <2>1, <2>2 DEF Once
  <2> QED
    BY <1>3, <2>1, <2>2, <2>3 DEF Before
<1>7. \A i \in DOMAIN list \ {s} : \E k \in DOMAIN r : r[k] = list[i]
  BY <1>1, <1>4
<1> QED
  BY <1>1, <1>5, <1>6, <1>7 DEF r

(* A new entry, anywhere. *)
LEMMA InsertedKeeps ==
  ASSUME NEW list \in Seq(Entries), Once(list), NEW s \in 1..(Len(list) + 1),
         NEW e \in Entries, ~Listed(list, e.client)
  PROVE  /\ InsertAt(list, s, e) \in Seq(Entries) /\ Once(InsertAt(list, s, e))
         /\ \A c, d : Before(list, c, d) => Before(InsertAt(list, s, e), c, d)
         /\ \E k \in DOMAIN InsertAt(list, s, e) : InsertAt(list, s, e)[k] = e
         /\ \A i \in DOMAIN list :
              \E k \in DOMAIN InsertAt(list, s, e) : InsertAt(list, s, e)[k] = list[i]
<1> DEFINE r == InsertAt(list, s, e)
           at(i) == IF i < s THEN i ELSE i + 1
<1>1. /\ r \in Seq(Entries) /\ DOMAIN r = 1..(Len(list) + 1)
      /\ \A k \in DOMAIN r : r[k] = IF k < s THEN list[k] ELSE IF k = s THEN e ELSE list[k-1]
  <2> DEFINE u == SubSeq(list, 1, s - 1)
             w == u \o <<e>>
             v == SubSeq(list, s, Len(list))
  <2>1. /\ s \in Nat /\ Len(list) \in Nat /\ s - 1 \in 0..Len(list)
        /\ <<e>> \in Seq(Entries) /\ Len(<<e>>) = 1 /\ <<e>>[1] = e
    OBVIOUS
  <2>2. /\ u \in Seq(Entries) /\ Len(u) = s - 1
        /\ \A i \in 1..(s - 1) : u[i] = list[i]
    BY <2>1, Part
  <2>3. /\ v \in Seq(Entries) /\ Len(v) = Len(list) - s + 1
        /\ \A i \in 1..(Len(list) - s + 1) : v[i] = list[s + i - 1]
    BY <2>1, Part
  <2>4. r = w \o v
    BY DEF InsertAt
  <2> HIDE DEF u, v
  <2>5. /\ w \in Seq(Entries) /\ Len(w) = Len(u) + 1
        /\ \A k \in 1..(Len(u) + 1) : w[k] = IF k <= Len(u) THEN u[k] ELSE <<e>>[k - Len(u)]
    BY <2>1, <2>2, Together
  <2> HIDE DEF w, r
  <2>6. /\ r \in Seq(Entries) /\ Len(r) = Len(w) + Len(v)
        /\ \A k \in 1..(Len(w) + Len(v)) : r[k] = IF k <= Len(w) THEN w[k] ELSE v[k - Len(w)]
    BY <2>3, <2>4, <2>5, Together
  <2>7. Len(w) = s /\ Len(r) = Len(list) + 1 /\ DOMAIN r = 1..(Len(list) + 1)
    BY <2>1, <2>2, <2>3, <2>5, <2>6
  <2>8. ASSUME NEW k \in 1..(Len(list) + 1)
        PROVE  r[k] = IF k < s THEN list[k] ELSE IF k = s THEN e ELSE list[k-1]
    <3>1. r[k] = IF k <= s THEN w[k] ELSE v[k - s]
      BY <2>1, <2>3, <2>6, <2>7
    <3>2. CASE k < s
      BY <2>1, <2>2, <2>5, <3>1, <3>2
    <3>3. CASE k = s
      <4>1. k \in 1..(Len(u) + 1) /\ ~(k <= Len(u)) /\ k - Len(u) = 1
        BY <2>1, <2>2, <3>3
      <4>2. w[k] = e
        BY <2>1, <2>5, <4>1
      <4> QED
        BY <2>1, <3>1, <3>3, <4>2
    <3>4. CASE k > s
      <4>1. k - s \in 1..(Len(list) - s + 1) /\ s + (k - s) - 1 = k - 1
        BY <2>1, <3>4
      <4> QED
        BY <2>1, <2>3, <3>1, <3>4, <4>1
    <3> QED
      BY <2>1, <3>2, <3>3, <3>4
  <2> QED
    BY <2>6, <2>7, <2>8
<1>2. DOMAIN list = 1..Len(list) /\ Len(list) \in Nat /\ s \in Nat
  OBVIOUS
<1> HIDE DEF r
<1>3. \A i, j \in DOMAIN list : /\ at(i) \in DOMAIN r /\ r[at(i)] = list[i]
                                /\ i < j <=> at(i) < at(j)
  BY <1>1, <1>2
<1>4. s \in DOMAIN r /\ r[s] = e
  BY <1>1, <1>2
<1>5. \A k \in DOMAIN r : k = s \/ \E i \in DOMAIN list : at(i) = k
  <2> SUFFICES ASSUME NEW k \in DOMAIN r, k # s PROVE \E i \in DOMAIN list : at(i) = k
    OBVIOUS
  <2>1. CASE k < s
    BY <1>1, <1>2, <2>1
  <2>2. CASE k > s
    <3>1. k - 1 \in DOMAIN list /\ at(k - 1) = k
      BY <1>1, <1>2, <2>2
    <3> QED
      BY <3>1
  <2> QED
    BY <1>1, <1>2, <2>1, <2>2
<1> HIDE DEF at
<1>6. Once(r)
  <2>1. \A i \in DOMAIN list : list[i].client # e.client
    BY DEF Listed
  <2> QED
    BY <1>3, <1>4, <1>5, <2>1 DEF Once
<1>7. \A c, d : Before(list, c, d) => Before(r, c, d)
  BY <1>3 DEF Before
<1>8. \A i \in DOMAIN list : \E k \in DOMAIN r : r[k] = list[i]
  BY <1>3
<1> QED
  BY <1>1, <1>4, <1>6, <1>7, <1>8 DEF r

(* c is on the list, with what it was promised: t is what is left of the time
   it was told. *)
HasPlace(list, c, t) ==
  \E i \in DOMAIN list : /\ list[i].client = c /\ list[i].left >= t + 1
                         /\ t > 0 => list[i].left >= t + 3

LEMMA PromiseMeans ==
  PromiseKept <=> \A c \in Clients : told[c] # Gone => HasPlace(waitList, c, told[c])
  BY DEF PromiseKept, HasPlace

(* Cleaning the list takes no promise away. *)
LEMMA CleanedOfState ==
  ASSUME WaitIInv
  PROVE  /\ cleanup(waitList) \in Seq(Entries) /\ Once(cleanup(waitList))
         /\ \A c, d : Before(cleanup(waitList), c, d) => Before(waitList, c, d)
         /\ \A c \in Clients : told[c] # Gone => HasPlace(cleanup(waitList), c, told[c])
<1>1. waitList \in Seq(Entries) /\ Once(waitList)
  BY DEF WaitIInv, WaitTypes
<1> DEFINE list == cleanup(waitList)
<1>2. /\ list \in Seq(Entries) /\ Once(list)
      /\ \A c, d : Before(list, c, d) => Before(waitList, c, d)
      /\ \A i \in DOMAIN waitList : waitList[i].left > 0 =>
           \E k \in DOMAIN list : list[k] = waitList[i]
  BY <1>1, CleanupKeeps
<1> HIDE DEF list
<1>3. ASSUME NEW c \in Clients, told[c] # Gone
      PROVE  HasPlace(list, c, told[c])
  <2>1. PICK i \in DOMAIN waitList :
          /\ waitList[i].client = c /\ waitList[i].left >= told[c] + 1
          /\ told[c] > 0 => waitList[i].left >= told[c] + 3
    BY <1>3 DEF WaitIInv, PromiseKept
  <2>2. told[c] \in Nat /\ waitList[i].left \in Nat
    <3>1. waitList[i] \in Entries
      BY <1>1
    <3> QED
      BY <1>3, <3>1 DEF WaitIInv, WaitTypes, Entries
  <2>3. PICK k \in DOMAIN list : list[k] = waitList[i]
    BY <1>2, <2>1, <2>2
  <2> QED
    BY <2>1, <2>3 DEF HasPlace
<1> QED
  BY <1>2, <1>3 DEF list

LEMMA Times ==
  ASSUME NEW slot \in Nat
  PROVE  getTime(slot) \in Nat \ {0} /\ getTimeout(slot) = getTime(slot) + 3
  BY DEF getTime, getTimeout

(* A place to come to: in the list or at its end. *)
LEMMA SlotOfNew ==
  ASSUME NEW list \in Seq(Entries), NEW c
  PROVE  NewSlot(list, c) \in 1..(Len(list) + 1)
<1> DEFINE behind == {i \in DOMAIN list : ~list[i].premium}
<1>1. CASE c \in premium /\ behind # {}
  <2>1. behind \in SUBSET Nat /\ behind \subseteq 1..Len(list) /\ Len(list) \in Nat
    OBVIOUS
  <2>2. Min(behind) \in behind
    <3> HIDE DEF behind
    <3>1. \E x \in behind : \A y \in behind : x =< y
      BY <1>1, <2>1, HasLeast
    <3> QED
      BY <3>1 DEF Min
  <2>3. NewSlot(list, c) = Min(behind)
    BY <1>1 DEF NewSlot
  <2> DEFINE m == Min(behind)
  <2>4. m \in 1..Len(list) /\ NewSlot(list, c) = m
    BY <2>1, <2>2, <2>3
  <2> HIDE DEF m
  <2> QED
    BY <2>1, <2>4
<1>2. CASE ~(c \in premium /\ behind # {})
  <2>1. NewSlot(list, c) = Len(list) + 1
    BY <1>2 DEF NewSlot
  <2> QED
    BY <2>1
<1> QED
  BY <1>1, <1>2

LEMMA WaitStart == WaitInit => WaitIInv
<1> SUFFICES ASSUME WaitInit PROVE WaitIInv
  OBVIOUS
<1>1. WaitTypes
  BY WaitListAssumption DEF WaitInit, WaitTypes, Gone, Once
<1>2. PromiseKept
  BY DEF WaitInit, PromiseKept
<1> QED
  BY <1>1, <1>2 DEF WaitIInv

(* What a step does to the list and to the promises. *)
ListStep ==
  /\ waitList' \in Seq(Entries) /\ Once(waitList')
  /\ told' \in [Clients -> Nat \cup {Gone}]
  /\ \A c \in Clients : told'[c] # Gone => HasPlace(waitList', c, told'[c])
  /\ \A c, d : /\ Before(cleanup(waitList), c, d)
               /\ Listed(waitList', c) /\ Listed(waitList', d)
               => Before(waitList', c, d)

LEMMA EntersAtOnce ==
  ASSUME WaitIInv, NEW c \in Clients, LoginAtOnce(c)
  PROVE  ListStep
<1>1. waitList' = waitList /\ told' = [told EXCEPT ![c] = Gone]
  BY DEF LoginAtOnce
<1>2. \A d \in Clients : told[d] # Gone => HasPlace(waitList, d, told[d])
  BY PromiseMeans DEF WaitIInv
<1>3. \A d \in Clients : told'[d] # Gone => HasPlace(waitList', d, told'[d])
  BY <1>1, <1>2 DEF WaitIInv, WaitTypes
<1> QED
  BY <1>1, <1>3, CleanedOfState DEF ListStep, WaitIInv, WaitTypes

LEMMA WaitsLonger ==
  ASSUME WaitIInv, NEW c \in Clients, LoginWaitsLonger(c)
  PROVE  ListStep
<1> DEFINE list == cleanup(waitList)
           slot == find(list, c)
           t    == getTime(slot)
<1>1. /\ list \in Seq(Entries) /\ Once(list)
      /\ \A d \in Clients : told[d] # Gone => HasPlace(list, d, told[d])
  BY CleanedOfState
<1>2. slot \in DOMAIN list /\ list[slot].client = c
  BY <1>1, Found DEF LoginWaitsLonger
<1>3. t \in Nat \ {0} /\ getTimeout(slot) = t + 3
  BY <1>1, <1>2, Times
<1>4. /\ waitList' = [list EXCEPT ![slot].left = getTimeout(slot)]
      /\ told' = [told EXCEPT ![c] = t]
  BY DEF LoginWaitsLonger
<1> HIDE DEF list, slot, t
<1>5. /\ waitList' \in Seq(Entries) /\ DOMAIN waitList' = DOMAIN list
      /\ waitList'[slot].left = t + 3
      /\ \A i \in DOMAIN list : /\ waitList'[i].client = list[i].client
                                /\ i # slot => waitList'[i] = list[i]
  <2>1. t + 3 \in Nat
    BY <1>3
  <2> DEFINE n == t + 3
  <2>2. waitList' = [list EXCEPT ![slot].left = n] /\ n \in Nat
    BY <1>3, <1>4, <2>1
  <2>3. n = t + 3
    OBVIOUS
  <2> HIDE DEF n
  <2>4. /\ waitList' \in Seq(Entries) /\ DOMAIN waitList' = DOMAIN list
        /\ waitList'[slot].left = n
        /\ \A i \in DOMAIN list : /\ waitList'[i].client = list[i].client
                                  /\ i # slot => waitList'[i] = list[i]
    <3> DEFINE e == [list[slot] EXCEPT !.left = n]
    <3>1. list[slot] \in Entries
      BY <1>1, <1>2
    <3>2. e \in Entries /\ e.client = list[slot].client /\ e.left = n
      BY <2>2, <3>1 DEF Entries
    <3>3. waitList' = [list EXCEPT ![slot] = e]
      BY <2>2
    <3> HIDE DEF e
    <3> QED
      BY <1>1, <1>2, <3>2, <3>3
  <2> QED
    BY <2>3, <2>4
<1>6. Once(waitList')
  BY <1>1, <1>5 DEF Once
<1>7. told' \in [Clients -> Nat \cup {Gone}]
  BY <1>3, <1>4 DEF WaitIInv, WaitTypes
<1>8. ASSUME NEW d \in Clients, told'[d] # Gone
      PROVE  HasPlace(waitList', d, told'[d])
  <2>1. CASE d = c
    <3>1. told'[d] = t
      BY <1>4, <2>1 DEF WaitIInv, WaitTypes
    <3>2. /\ slot \in DOMAIN waitList' /\ waitList'[slot].client = d
          /\ waitList'[slot].left >= t + 1 /\ waitList'[slot].left >= t + 3
      BY <1>2, <1>3, <1>5, <2>1
    <3> QED
      BY <3>1, <3>2 DEF HasPlace
  <2>2. CASE d # c
    <3>1. told'[d] = told[d] /\ HasPlace(list, d, told[d])
      BY <1>1, <1>4, <1>8, <2>2 DEF WaitIInv, WaitTypes
    <3> QED
      BY <1>2, <1>5, <2>2, <3>1 DEF HasPlace
  <2> QED
    BY <2>1, <2>2
<1>9. \A d, e : Before(list, d, e) => Before(waitList', d, e)
  BY <1>5 DEF Before
<1> QED
  BY <1>5, <1>6, <1>7, <1>8, <1>9 DEF ListStep, list

LEMMA EntersFromList ==
  ASSUME WaitIInv, NEW c \in Clients, LoginFromList(c)
  PROVE  ListStep
<1> DEFINE list == cleanup(waitList)
           slot == find(list, c)
<1>1. /\ list \in Seq(Entries) /\ Once(list)
      /\ \A d \in Clients : told[d] # Gone => HasPlace(list, d, told[d])
  BY CleanedOfState
<1>2. slot \in DOMAIN list /\ list[slot].client = c
  BY <1>1, Found DEF LoginFromList
<1>3. waitList' = RemoveAt(list, slot) /\ told' = [told EXCEPT ![c] = Gone]
  BY DEF LoginFromList
<1> HIDE DEF list, slot
<1>4. /\ waitList' \in Seq(Entries) /\ Once(waitList')
      /\ \A d, e : Before(list, d, e) /\ Listed(waitList', d) /\ Listed(waitList', e)
                   => Before(waitList', d, e)
      /\ \A i \in DOMAIN list \ {slot} : \E k \in DOMAIN waitList' : waitList'[k] = list[i]
  BY <1>1, <1>2, <1>3, RemovedKeeps
<1>5. told' \in [Clients -> Nat \cup {Gone}]
  BY <1>3 DEF WaitIInv, WaitTypes
<1>6. ASSUME NEW d \in Clients, told'[d] # Gone
      PROVE  HasPlace(waitList', d, told'[d])
  <2>1. d # c /\ told'[d] = told[d]
    BY <1>3, <1>6 DEF WaitIInv, WaitTypes
  <2>2. PICK i \in DOMAIN list : /\ list[i].client = d /\ list[i].left >= told[d] + 1
                                 /\ told[d] > 0 => list[i].left >= told[d] + 3
    BY <1>1, <1>6, <2>1 DEF HasPlace
  <2>3. PICK k \in DOMAIN waitList' : waitList'[k] = list[i]
    BY <1>2, <1>4, <2>1, <2>2
  <2> QED
    BY <2>1, <2>2, <2>3 DEF HasPlace
<1> QED
  BY <1>4, <1>5, <1>6 DEF ListStep, list

LEMMA IsListed ==
  ASSUME WaitIInv, NEW c \in Clients, LoginListed(c)
  PROVE  ListStep
<1> DEFINE list == cleanup(waitList)
           slot == NewSlot(list, c)
           t    == getTime(slot)
           e    == [client |-> c, premium |-> c \in premium, left |-> getTimeout(slot)]
<1>1. /\ list \in Seq(Entries) /\ Once(list)
      /\ \A d \in Clients : told[d] # Gone => HasPlace(list, d, told[d])
  BY CleanedOfState
<1>2. slot \in 1..(Len(list) + 1)
  <2> HIDE DEF list
  <2> QED
    BY <1>1, SlotOfNew
<1>3. t \in Nat \ {0} /\ getTimeout(slot) = t + 3
  <2> HIDE DEF list, slot
  <2> QED
    BY <1>1, <1>2, Times
<1>4. /\ waitList' = InsertAt(list, slot, e) /\ told' = [told EXCEPT ![c] = t]
      /\ ~Listed(list, c)
  BY DEF LoginListed
<1>5. e \in Entries /\ e.client = c /\ e.left = t + 3
  <2> HIDE DEF list, slot, t
  <2> QED
    BY <1>3 DEF Entries
<1> HIDE DEF list, slot, t, e
<1>6. /\ waitList' \in Seq(Entries) /\ Once(waitList')
      /\ \A d, b : Before(list, d, b) => Before(waitList', d, b)
      /\ \E k \in DOMAIN waitList' : waitList'[k] = e
      /\ \A i \in DOMAIN list : \E k \in DOMAIN waitList' : waitList'[k] = list[i]
  <2>1. ~Listed(list, e.client)
    BY <1>4, <1>5
  <2> QED
    BY <1>1, <1>2, <1>4, <1>5, <2>1, InsertedKeeps
<1>7. told' \in [Clients -> Nat \cup {Gone}]
  BY <1>3, <1>4 DEF WaitIInv, WaitTypes
<1>8. ASSUME NEW d \in Clients, told'[d] # Gone
      PROVE  HasPlace(waitList', d, told'[d])
  <2>1. CASE d = c
    <3>1. told'[d] = t
      BY <1>4, <2>1 DEF WaitIInv, WaitTypes
    <3>2. PICK k \in DOMAIN waitList' : waitList'[k] = e
      BY <1>6
    <3>3. /\ waitList'[k].client = d
          /\ waitList'[k].left >= t + 1 /\ waitList'[k].left >= t + 3
      BY <1>3, <1>5, <2>1, <3>2
    <3> QED
      BY <3>1, <3>3 DEF HasPlace
  <2>2. CASE d # c
    <3>1. told'[d] = told[d] /\ HasPlace(list, d, told[d])
      BY <1>1, <1>4, <1>8, <2>2 DEF WaitIInv, WaitTypes
    <3> QED
      BY <1>6, <3>1 DEF HasPlace
  <2> QED
    BY <2>1, <2>2
<1> QED
  BY <1>6, <1>7, <1>8 DEF ListStep, list

LEMMA GivesUp ==
  ASSUME WaitIInv, NEW c \in Clients, GiveUp(c)
  PROVE  ListStep
<1>1. waitList' = waitList /\ told' = [told EXCEPT ![c] = Gone]
  BY DEF GiveUp
<1>2. \A d \in Clients : told[d] # Gone => HasPlace(waitList, d, told[d])
  BY PromiseMeans DEF WaitIInv
<1>3. \A d \in Clients : told'[d] # Gone => HasPlace(waitList', d, told'[d])
  BY <1>1, <1>2 DEF WaitIInv, WaitTypes
<1> QED
  BY <1>1, <1>3, CleanedOfState DEF ListStep, WaitIInv, WaitTypes

LEMMA ListUntouched ==
  ASSUME WaitIInv, UNCHANGED <<waitList, told>>
  PROVE  ListStep
<1>1. \A d \in Clients : told'[d] # Gone => HasPlace(waitList', d, told'[d])
  BY PromiseMeans DEF WaitIInv
<1> QED
  BY <1>1, CleanedOfState DEF ListStep, WaitIInv, WaitTypes

(* Five seconds pass: who is to come now comes before its entry expires. *)
LEMMA TimePasses ==
  ASSUME WaitIInv, Tick
  PROVE  ListStep
<1>1. /\ waitList \in Seq(Entries) /\ Once(waitList)
      /\ told \in [Clients -> Nat \cup {Gone}]
  BY DEF WaitIInv, WaitTypes
<1>2. /\ waitList' = [i \in DOMAIN waitList |-> [waitList[i] EXCEPT !.left = Less(@)]]
      /\ told' = [c \in Clients |-> Less(told[c])]
      /\ \A i \in DOMAIN waitList :
           told[waitList[i].client] = 0 => waitList[i].left > 1
  BY DEF Tick
<1>3. /\ \A n \in Nat : Less(n) \in Nat /\ (n > 0 => Less(n) = n - 1) /\ Less(0) = 0
      /\ Less(Gone) = Gone
  BY DEF Less, Gone
<1>4. ASSUME NEW i \in DOMAIN waitList
      PROVE  /\ waitList'[i] \in Entries /\ waitList'[i].client = waitList[i].client
             /\ waitList'[i].left = Less(waitList[i].left)
  <2>1. waitList[i] \in Entries
    BY <1>1
  <2>2. waitList'[i] = [waitList[i] EXCEPT !.left = Less(@)]
    BY <1>2
  <2> DEFINE n == Less(waitList[i].left)
  <2>3. n \in Nat
    BY <1>3, <2>1 DEF Entries
  <2>4. waitList'[i] = [waitList[i] EXCEPT !.left = n]
    BY <2>2
  <2> HIDE DEF n
  <2>5. waitList'[i] \in Entries /\ waitList'[i].client = waitList[i].client
        /\ waitList'[i].left = n
    BY <2>1, <2>3, <2>4 DEF Entries
  <2> QED
    BY <2>5 DEF n
<1>5. waitList' \in Seq(Entries) /\ DOMAIN waitList' = DOMAIN waitList
  <2>1. DOMAIN waitList = 1..Len(waitList) /\ Len(waitList) \in Nat
    BY <1>1
  <2>2. DOMAIN waitList' = DOMAIN waitList
    BY <1>2
  <2>3. waitList' = [i \in 1..Len(waitList) |-> waitList'[i]]
    BY <1>2, <2>1
  <2> QED
    BY <1>4, <2>1, <2>2, <2>3
<1>6. Once(waitList')
  BY <1>1, <1>4, <1>5 DEF Once
<1>7. told' \in [Clients -> Nat \cup {Gone}]
  BY <1>1, <1>2, <1>3
<1>8. ASSUME NEW c \in Clients, told'[c] # Gone
      PROVE  HasPlace(waitList', c, told'[c])
  <2>1. told'[c] = Less(told[c]) /\ told[c] # Gone /\ told[c] \in Nat
    BY <1>1, <1>2, <1>3, <1>8
  <2>2. PICK i \in DOMAIN waitList :
          /\ waitList[i].client = c /\ waitList[i].left >= told[c] + 1
          /\ told[c] > 0 => waitList[i].left >= told[c] + 3
    BY <2>1 DEF WaitIInv, PromiseKept
  <2>3. waitList[i].left \in Nat
    <3>1. waitList[i] \in Entries
      BY <1>1
    <3> QED
      BY <3>1 DEF Entries
  <2>4. CASE told[c] = 0
    <3>1. told'[c] = 0 /\ waitList[i].left > 1
      BY <1>2, <1>3, <2>1, <2>2, <2>4
    <3>2. waitList'[i].client = c /\ waitList'[i].left >= 1
      BY <1>3, <1>4, <2>2, <2>3, <3>1
    <3> QED
      BY <1>5, <3>1, <3>2 DEF HasPlace
  <2>5. CASE told[c] > 0
    <3>1. told'[c] = told[c] - 1 /\ waitList[i].left >= told[c] + 3
      BY <1>3, <2>1, <2>2, <2>5
    <3>2. waitList'[i].left = waitList[i].left - 1 /\ waitList'[i].client = c
      BY <1>3, <1>4, <2>1, <2>2, <2>3, <3>1
    <3>3. waitList'[i].left >= told'[c] + 1 /\ waitList'[i].left >= told'[c] + 3
      BY <2>1, <2>3, <3>1, <3>2
    <3> QED
      BY <1>5, <3>2, <3>3 DEF HasPlace
  <2> QED
    BY <2>1, <2>4, <2>5
<1>9. \A c, d : Before(waitList, c, d) => Before(waitList', c, d)
  BY <1>4, <1>5 DEF Before
<1> QED
  BY <1>5, <1>6, <1>7, <1>8, <1>9, CleanedOfState DEF ListStep

LEMMA EveryWaitStep ==
  ASSUME WaitIInv, [WaitNext]_waitVars
  PROVE  ListStep /\ WaitIInv'
<1>1. ListStep
  <2>1. ASSUME NEW c \in Clients, Leave(c) PROVE UNCHANGED <<waitList, told>>
    BY <2>1 DEF Leave
  <2>2. ASSUME NEW c \in Clients, PremiumChanges(c) PROVE UNCHANGED <<waitList, told>>
    BY <2>2 DEF PremiumChanges
  <2>3. ASSUME UNCHANGED waitVars PROVE UNCHANGED <<waitList, told>>
    BY <2>3 DEF waitVars
  <2> QED
    BY <2>1, <2>2, <2>3, EntersAtOnce, WaitsLonger, EntersFromList, IsListed, GivesUp,
       ListUntouched, TimePasses DEF WaitNext, Login
<1>2. (online \subseteq Clients /\ premium \subseteq Clients)'
  BY WaitListAssumption
     DEF WaitIInv, WaitTypes, waitVars, WaitNext, Login, LoginAtOnce, LoginWaitsLonger,
         LoginFromList, LoginListed, Leave, GiveUp, PremiumChanges, Tick
<1>3. PromiseKept'
  BY <1>1 DEF ListStep, HasPlace, PromiseKept
<1> QED
  BY <1>1, <1>2, <1>3 DEF WaitIInv, WaitTypes, ListStep, Once

LEMMA WaitAlways == WaitSpec => []WaitIInv
<1>1. WaitIInv /\ [WaitNext]_waitVars => WaitIInv'
  BY EveryWaitStep
<1> QED
  BY WaitStart, <1>1, PTL DEF WaitSpec

(* Whoever comes back when it was told to finds its place, for any number of
   clients, any list and any order of arrivals: its entry has not expired. *)
THEOREM PromiseKeptHolds == WaitSpec => []PromiseKept
<1>1. WaitIInv => PromiseKept
  BY DEF WaitIInv
<1> QED
  BY WaitAlways, <1>1, PTL

(* An action property: no login, expiry or departure changes the order of two
   live entries of the list. *)
THEOREM NobodyOvertakesHolds == WaitSpec => NobodyOvertakes
<1> DEFINE ahead(list, c, d) == /\ Listed(list, c) /\ Listed(list, d)
                                /\ find(list, c) < find(list, d)
           Kept == \A c, d \in Clients :
                     ahead(cleanup(waitList), c, d) /\ Listed(waitList', c) /\ Listed(waitList', d)
                     => ahead(waitList', c, d)
<1>1. WaitIInv /\ [WaitNext]_waitVars => Kept
  <2> SUFFICES ASSUME WaitIInv, [WaitNext]_waitVars, NEW c \in Clients, NEW d \in Clients,
                      ahead(cleanup(waitList), c, d), Listed(waitList', c), Listed(waitList', d)
      PROVE  ahead(waitList', c, d)
    OBVIOUS
  <2>1. ListStep
    BY EveryWaitStep
  <2>2. Before(cleanup(waitList), c, d)
    BY CleanedOfState, BeforeMeans
  <2>3. Before(waitList', c, d) /\ waitList' \in Seq(Entries) /\ Once(waitList')
    BY <2>1, <2>2 DEF ListStep
  <2> HIDE DEF ListStep
  <2> QED
    BY <2>3, BeforeMeans
<1> QED
  BY WaitAlways, <1>1, PTL DEF WaitSpec, NobodyOvertakes

(* An action property: who is let in, and may not pass the list, leaves a free
   place in the game for every entry ahead of its own. *)
THEOREM RoomForThoseAheadHolds == WaitSpec => RoomForThoseAhead
<1> DEFINE Room == \A c \in online' \ online :
       \/ c \in Exempt
       \/ TRUE \in SkipWait /\ c \in premium
       \/ LET list == cleanup(waitList)
              ahead == IF Listed(list, c) THEN find(list, c) - 1 ELSE Len(list)
          IN  Cardinality(online') + ahead <= MaxPlayers
<1>1. WaitIInv /\ [WaitNext]_waitVars => Room
  <2> SUFFICES ASSUME WaitIInv, [WaitNext]_waitVars, NEW c \in online' \ online,
                      c \notin Exempt, ~(TRUE \in SkipWait /\ c \in premium)
      PROVE  LET list == cleanup(waitList)
                 ahead == IF Listed(list, c) THEN find(list, c) - 1 ELSE Len(list)
             IN  Cardinality(online') + ahead <= MaxPlayers
    OBVIOUS
  <2> DEFINE list == cleanup(waitList)
             n    == Cardinality(online)
  <2>1. list \in Seq(Entries)
    BY CleanedOfState
  <2>2. c \in Clients /\ (LoginAtOnce(c) \/ LoginFromList(c))
    BY DEF waitVars, WaitNext, Login, LoginAtOnce, LoginWaitsLonger,
           LoginFromList, LoginListed, Leave, GiveUp, PremiumChanges, Tick
  <2>3. online' = online \cup {c}
    BY <2>2 DEF LoginAtOnce, LoginFromList
  <2>4. IsFiniteSet(online)
    BY WaitListAssumption, FS_Subset DEF WaitIInv, WaitTypes
  <2>5. n \in Nat /\ Cardinality(online') = n + 1
    BY <2>3, <2>4, FS_AddElement, FS_CardinalityType
  <2>6. CASE LoginAtOnce(c)
    <3>1. waitList = <<>> /\ n < MaxPlayers
      BY <2>6, WaitListAssumption DEF LoginAtOnce, MayEnterAtOnce
    <3>2. waitList \in Seq(Entries) /\ Len(waitList) = 0
      BY <3>1 DEF WaitIInv, WaitTypes
    <3>3. Cleaned(waitList, 0, list)
      BY <3>2, CleanupDoes
    <3>4. ~Listed(list, c) /\ Len(list) = 0
      <4> HIDE DEF list
      <4>1. DOMAIN list = {}
        BY <3>3 DEF Cleaned
      <4> QED
        BY <2>1, <4>1 DEF Listed
    <3> HIDE DEF list, n
    <3> QED
      BY <2>5, <3>1, <3>4, WaitListAssumption DEF list
  <2>7. CASE LoginFromList(c)
    <3>1. Listed(list, c) /\ n + find(list, c) <= MaxPlayers
      BY <2>7 DEF LoginFromList
    <3> HIDE DEF list, n
    <3>2. find(list, c) \in Nat
      BY <2>1, <3>1, Found
    <3>3. Cardinality(online') + (find(list, c) - 1) <= MaxPlayers
      BY <2>5, <3>1, <3>2, WaitListAssumption
    <3> QED
      BY <3>1, <3>3 DEF list
  <2> QED
    BY <2>2, <2>6, <2>7
<1> QED
  BY WaitAlways, <1>1, PTL DEF WaitSpec, RoomForThoseAhead
-----------------------------------------------------------------------------
(* Connection: what the peer gets depends on the queue, the write under way and
   the life of the socket together; Counted says how many messages the peer has
   taken while any can still be written. *)

ReadType ==
  [of : {"none", "accept"}, result : {"ok"}] \cup [of : {"header", "packet"}, result : Results]

Types ==
  /\ state \in {"open", "closed"} /\ socket \in {"open", "closed"}
  /\ protocol \in BOOLEAN
  /\ read \in ReadType
  /\ queue \in Seq(Messages)
  /\ writes \subseteq [message : Messages, result : Results]
  /\ timers \subseteq Timers /\ timeouts \subseteq Timers
  /\ posted \in Seq({"connect", "packet", "release"})
  /\ accepted \in 0..MaxMessages
  /\ wire \in Seq(Messages)
  /\ peer \in {"there", "gone"}

(* The one write under way is that of the first message that waits. *)
OneWrite ==
  /\ queue = <<>> <=> writes = {}
  /\ \A w \in writes : writes = {w} /\ w.message = Head(queue)

(* Messages wait in the order of their acceptance, without a gap. *)
QueueInOrder == \A i \in DOMAIN queue : queue[i] = accepted - Len(queue) + i

Taken == IF \E w \in writes : w.result = "ok" THEN 1 ELSE 0

Counted ==
  /\ \A i \in DOMAIN wire : wire[i] = i
  /\ (state = "open" \/ queue # <<>> \/ Alive)
       => Len(wire) = accepted - Len(queue) + Taken

ErrorsMeanDead == \A w \in writes : w.result = "error" => ~Alive

(* Before the server accepts the connection nothing has happened on it. *)
Untouched ==
  read = NotAccepted =>
    state = "open" /\ timers = {} /\ timeouts = {} /\ writes = {} /\ ~protocol

NotReleased == state = "open" => \A i \in DOMAIN posted : posted[i] # "release"

IInv ==
  /\ Types /\ OneWrite /\ QueueInOrder /\ Counted /\ ErrorsMeanDead
  /\ Untouched /\ NotReleased /\ ReleasedLast /\ Guarded

-----------------------------------------------------------------------------
(* Sequences as this module uses them. *)
LEMMA SingleInSeq == ASSUME NEW S, NEW x \in S PROVE <<x>> \in Seq(S)
  OBVIOUS

LEMMA AppendElements ==
  \A s \in Seq(Messages), n \in Messages :
    /\ Len(Append(s, n)) = Len(s) + 1 /\ Append(s, n) # <<>>
    /\ \A i \in DOMAIN Append(s, n) :
         (i = Len(s) + 1 /\ Append(s, n)[i] = n)
         \/ (i \in DOMAIN s /\ Append(s, n)[i] = s[i])
    /\ Head(Append(s, n)) = IF s = <<>> THEN n ELSE Head(s)
<1> SUFFICES ASSUME NEW s \in Seq(Messages), NEW n \in Messages
             PROVE  /\ Len(Append(s, n)) = Len(s) + 1 /\ Append(s, n) # <<>>
                    /\ \A i \in DOMAIN Append(s, n) :
                         (i = Len(s) + 1 /\ Append(s, n)[i] = n)
                         \/ (i \in DOMAIN s /\ Append(s, n)[i] = s[i])
                    /\ Head(Append(s, n)) = IF s = <<>> THEN n ELSE Head(s)
  BY Zenon
<1>1. Len(Append(s, n)) = Len(s) + 1
  OBVIOUS
<1>2. Append(s, n) # <<>>
  <2>1. Append(s, n)[Len(s) + 1] = n /\ Len(s) + 1 \in DOMAIN Append(s, n)
    OBVIOUS
  <2>2. DOMAIN <<>> = {}
    OBVIOUS
  <2> QED
    BY <2>1, <2>2, Zenon
<1>3. ASSUME NEW i \in DOMAIN Append(s, n)
      PROVE  (i = Len(s) + 1 /\ Append(s, n)[i] = n)
             \/ (i \in DOMAIN s /\ Append(s, n)[i] = s[i])
  OBVIOUS
<1>4. Head(Append(s, n)) = Append(s, n)[1]
  BY <1>1, <1>2
<1>5. s = <<>> => Head(Append(s, n)) = n
  BY <1>4
<1>6. s # <<>> => Head(Append(s, n)) = Head(s)
  BY <1>4
<1> QED
  BY <1>1, <1>2, <1>3, <1>5, <1>6

(* Nothing has happened on a connection that is not accepted yet. *)
LEMMA InitIInv == Init => IInv
<1> SUFFICES ASSUME Init PROVE IInv
  OBVIOUS
<1> USE DEF Init
<1>1. Types
  <2>1. protocol \in BOOLEAN
    BY Zenon
  <2>2. read \in ReadType
    BY DEF NotAccepted, ReadType
  <2> QED
    BY <2>1, <2>2, ConnectionAssumption DEF Types
<1>2. OneWrite /\ QueueInOrder /\ Counted /\ ErrorsMeanDead
  BY DEF OneWrite, QueueInOrder, Counted, Taken, ErrorsMeanDead
<1>3. Untouched /\ NotReleased /\ ReleasedLast /\ Guarded
  BY DEF Untouched, NotReleased, ReleasedLast, Guarded, NotAccepted, NoRead
<1> QED
  BY <1>1, <1>2, <1>3 DEF IInv

(* The common parts of the actions that close or end a read. *)
LEMMA ClosingTypes ==
  ASSUME Types, NEW force \in BOOLEAN, NEW list, Closing(force, list)
  PROVE  /\ state' = "closed" /\ socket' \in {"open", "closed"}
         /\ (socket' = "open" => socket = "open")
         /\ Released(posted) \in Seq({"connect", "packet", "release"})
         /\ \A set \in SUBSET Timers : Armed(force, list, set) \in SUBSET Timers
  BY DEF Closing, Types, Released, Armed

LEMMA TypeStep == Types /\ OneWrite /\ [Next]_vars => Types'
<1> SUFFICES ASSUME Types, OneWrite, [Next]_vars PROVE Types'
  OBVIOUS
<1>0. UNCHANGED protocol => protocol' \in BOOLEAN
  BY Zenon DEF Types
<1> USE ConnectionAssumption DEF Types
<1>1. CASE Accept
  <2>1. protocol' \in BOOLEAN
    BY <1>1, Zenon DEF Accept
  <2>2. read' \in ReadType /\ timers' \subseteq Timers
    BY <1>1 DEF Accept, Reading, ReadType, Results, Timers
  <2>3. posted' \in Seq({"connect", "packet", "release"})
    <3>1. posted' = <<"connect">> \/ posted' = posted
      BY <1>1, Zenon DEF Accept
    <3>2. <<"connect">> \in Seq({"connect", "packet", "release"})
      BY SingleInSeq
    <3> QED
      BY <3>1, <3>2, Zenon
  <2>4. UNCHANGED <<state, socket, queue, writes, timeouts, accepted, wire, peer>>
    BY <1>1 DEF Accept
  <2> QED
    BY <2>1, <2>2, <2>3, <2>4
<1>2. CASE Refuse
  <2>1. read' \in ReadType
    BY <1>2 DEF Refuse, NoRead, ReadType
  <2>2. state' = "closed" /\ socket' \in {"open", "closed"}
    BY <1>2 DEF Refuse, Closing
  <2>3. UNCHANGED <<protocol, queue, writes, timers, timeouts, posted, accepted,
                    wire, peer>>
    BY <1>2 DEF Refuse
  <2> QED
    BY <1>0, <2>1, <2>2, <2>3
<1>3. ASSUME NEW force \in BOOLEAN, ReadCloses(force) PROVE Types'
  <2>1. read' \in ReadType
    BY <1>3 DEF ReadCloses, NoRead, ReadType
  <2> QED
    BY <1>3, <1>0, <2>1, ClosingTypes DEF ReadCloses, HasRead
<1>4. CASE ReadTooLate
  <2>1. read' \in ReadType
    BY <1>4 DEF ReadTooLate, NoRead, ReadType
  <2> QED
    BY <1>4, <1>0, <2>1 DEF ReadTooLate, HasRead
<1>5. CASE ParseHeader
  <2>1. read' \in ReadType /\ timers' \subseteq Timers
    BY <1>5 DEF ParseHeader, Reading, ReadType, Results, Timers
  <2> QED
    BY <1>5, <1>0, <2>1 DEF ParseHeader, HasRead
<1>6. CASE ParsePacket
  <2>1. protocol' \in BOOLEAN
    BY <1>6, Zenon DEF ParsePacket
  <2>2. read' \in ReadType /\ timers' \subseteq Timers
    BY <1>6 DEF ParsePacket, Reading, ReadType, Results, Timers
  <2>3. posted' \in Seq({"connect", "packet", "release"})
    <3>1. posted' = posted \/ posted' = Append(posted, "packet")
      BY <1>6 DEF ParsePacket
    <3> QED
      BY <3>1
  <2>4. UNCHANGED <<state, socket, queue, writes, timeouts, accepted, wire, peer>>
    BY <1>6 DEF ParsePacket, HasRead
  <2> QED
    BY <2>1, <2>2, <2>3, <2>4
<1>7. CASE ParseAndClose
  <2>1. protocol' \in BOOLEAN
    BY <1>7, Zenon DEF ParseAndClose
  <2>2. read' \in ReadType
    BY <1>7 DEF ParseAndClose, Reading, ReadType, Results
  <2>3. /\ posted' \in Seq({"connect", "packet", "release"})
        /\ UNCHANGED <<timeouts, wire, peer>>
    BY <1>7 DEF ParseAndClose, HasRead
  <2>4. CASE Closing(FALSE, queue) /\ timers' = Armed(FALSE, queue, timers) \cup {"read"}
             /\ UNCHANGED <<queue, writes, accepted>>
    <3>1. timers' \subseteq Timers
      BY <2>4, ClosingTypes DEF Timers
    <3> QED
      BY <2>1, <2>2, <2>3, <2>4, <3>1, ClosingTypes
  <2>5. CASE /\ accepted < MaxMessages
             /\ accepted' = accepted + 1 /\ queue' = Append(queue, accepted')
             /\ writes' = IF queue = <<>> THEN {Writing(accepted')} ELSE writes
             /\ Closing(FALSE, queue')
             /\ timers' = timers \cup {"read"} \cup IF queue = <<>> THEN {"write"} ELSE {}
    <3>1. timers' \subseteq Timers /\ accepted' \in Messages /\ accepted' \in 0..MaxMessages
      BY <2>5 DEF Timers, Messages
    <3>2. writes' \subseteq [message : Messages, result : Results]
      BY <2>5, <3>1 DEF Writing, Results
    <3>3. state' = "closed" /\ socket' \in {"open", "closed"}
      BY <2>5 DEF Closing
    <3>4. queue' \in Seq(Messages)
      BY <2>5, <3>1
    <3> QED
      BY <2>1, <2>2, <2>3, <3>1, <3>2, <3>3, <3>4
  <2> QED
    BY <1>7, <2>4, <2>5 DEF ParseAndClose
<1>8. ASSUME NEW w \in writes, OnWrite(w) PROVE Types'
  <2>1. queue # <<>>
    BY DEF OneWrite
  <2>2. queue' \in Seq(Messages) /\ (queue' # <<>> => Head(queue') \in Messages)
    BY <1>8, <2>1 DEF OnWrite
  <2>3. writes' \subseteq [message : Messages, result : Results]
    BY <1>8, <2>2 DEF OnWrite, Writing, Results
  <2>4. socket' \in {"open", "closed"} /\ timers' \subseteq Timers
    BY <1>8 DEF OnWrite, Timers
  <2> QED
    BY <1>8, <1>0, <2>2, <2>3, <2>4 DEF OnWrite
<1>9. ASSUME NEW w \in writes, OnWriteError(w) PROVE Types'
  <2>1. timers \ {"write"} \in SUBSET Timers
    OBVIOUS
  <2>2. /\ state' = "closed" /\ socket' \in {"open", "closed"}
        /\ posted' \in Seq({"connect", "packet", "release"})
        /\ timers' \in SUBSET Timers
    BY <1>9, <2>1, ClosingTypes DEF OnWriteError
  <2>3. /\ writes' \subseteq writes /\ queue' = <<>>
        /\ UNCHANGED <<protocol, read, timeouts, accepted, wire, peer>>
    BY <1>9 DEF OnWriteError
  <2> QED
    BY <1>0, <2>2, <2>3
<1>10. ASSUME NEW t \in Timers, OnTimeout(t) PROVE Types'
  BY <1>10, <1>0, ClosingTypes DEF OnTimeout
<1>11. CASE Destroy
  BY <1>11, <1>0 DEF Destroy
<1>12. CASE Send
  <2>1. accepted' \in Messages /\ accepted' \in 0..MaxMessages
    BY <1>12 DEF Send, Messages
  <2>2. Writing(accepted') \in [message : Messages, result : Results]
    BY <2>1 DEF Writing, Results
  <2>3. writes' \subseteq [message : Messages, result : Results] /\ timers' \subseteq Timers
    BY <1>12, <2>2 DEF Send, Timers
  <2> QED
    BY <1>12, <1>0, <2>1, <2>3 DEF Send
<1>13. CASE Disconnect
  BY <1>13, <1>0, ClosingTypes DEF Disconnect
<1>14. CASE ReadOk
  <2>1. read' \in ReadType
    BY <1>14 DEF ReadOk, ReadType, Results
  <2> QED
    BY <1>14, <1>0, <2>1 DEF ReadOk
<1>15. ASSUME NEW w \in writes, WriteOk(w) PROVE Types'
  <2>1. writes' \subseteq [message : Messages, result : Results] /\ w.message \in Messages
    BY <1>15 DEF WriteOk, Results
  <2> QED
    BY <1>15, <1>0, <2>1 DEF WriteOk
<1>16. CASE Fails
  <2>1. read' \in ReadType
    BY <1>16 DEF Fails, ReadType, Results
  <2>2. writes' \subseteq [message : Messages, result : Results]
    BY <1>16 DEF Fails, Results
  <2> QED
    BY <1>16, <1>0, <2>1, <2>2 DEF Fails
<1>17. CASE PeerLeaves
  BY <1>17, <1>0 DEF PeerLeaves
<1>18. ASSUME NEW t \in Timers, Expire(t) PROVE Types'
  BY <1>18, <1>0 DEF Expire
<1>19. CASE UNCHANGED vars
  BY <1>19, <1>0 DEF vars
<1> QED
  BY <1>1, <1>2, <1>3, <1>4, <1>5, <1>6, <1>7, <1>8, <1>9, <1>10, <1>11, <1>12,
     <1>13, <1>14, <1>15, <1>16, <1>17, <1>18, <1>19 DEF Next, Handler

(* The queue and the peer: what every step does to the messages. *)
MessageInv == Types /\ OneWrite /\ QueueInOrder /\ Counted /\ ErrorsMeanDead

messageVars == <<queue, writes, accepted, wire, socket, peer>>

LEMMA MessageStep ==
  MessageInv /\ [Next]_vars => (OneWrite /\ QueueInOrder /\ Counted /\ ErrorsMeanDead)'
<1> SUFFICES ASSUME MessageInv, [Next]_vars
             PROVE  (OneWrite /\ QueueInOrder /\ Counted /\ ErrorsMeanDead)'
  OBVIOUS
<1>0. Types /\ Types' /\ accepted \in Nat
  BY TypeStep, ConnectionAssumption DEF MessageInv, Types
<1> USE DEF MessageInv, OneWrite, QueueInOrder, Counted, ErrorsMeanDead, Alive
<1>1. ASSUME UNCHANGED messageVars, state = "open" \/ state' = "closed"
      PROVE  (OneWrite /\ QueueInOrder /\ Counted /\ ErrorsMeanDead)'
  BY <1>0, <1>1 DEF messageVars, Taken, Types
(* A step that closes the connection and leaves its messages. *)
<1>2. ASSUME NEW force \in BOOLEAN, Closing(force, queue),
             UNCHANGED <<queue, writes, accepted, wire, peer>>
      PROVE  (OneWrite /\ QueueInOrder /\ Counted /\ ErrorsMeanDead)'
  <2>1. state' = "closed" /\ (socket' = "open" => socket = "open")
    BY <1>0, <1>2, ClosingTypes
  <2>2. Taken' = Taken
    BY <1>2 DEF Taken
  <2> QED
    BY <1>2, <2>1, <2>2
(* A message is accepted by an open connection. *)
<1>3. ASSUME state = "open", accepted' = accepted + 1,
             queue' = Append(queue, accepted'), UNCHANGED <<wire, peer>>,
             writes' = IF queue = <<>> THEN {Writing(accepted')} ELSE writes,
             socket' = "open" => socket = "open"
      PROVE  (OneWrite /\ QueueInOrder /\ Counted /\ ErrorsMeanDead)'
  <2>0. queue \in Seq(Messages) /\ queue' = Append(queue, accepted')
        /\ accepted' \in Messages
    BY <1>0, <1>3 DEF Types, Messages
  <2>1. /\ Len(queue') = Len(queue) + 1 /\ queue' # <<>>
        /\ \A i \in DOMAIN queue' :
             (i = Len(queue) + 1 /\ queue'[i] = accepted')
             \/ (i \in DOMAIN queue /\ queue'[i] = queue[i])
        /\ Head(queue') = IF queue = <<>> THEN accepted' ELSE Head(queue)
    BY <2>0, AppendElements
  <2>2. OneWrite'
    <3>1. CASE queue = <<>>
      <4>1. writes' = {Writing(accepted')} /\ Writing(accepted').message = accepted'
        BY <1>3, <3>1 DEF Writing
      <4> QED
        BY <2>1, <3>1, <4>1
    <3>2. CASE queue # <<>>
      <4>1. writes' = writes
        BY <1>3, <3>2
      <4> QED
        BY <2>1, <3>2, <4>1
    <3> QED
      BY <3>1, <3>2
  <2>3. QueueInOrder'
    BY <1>0, <1>3, <2>1 DEF Types
  <2>4. Taken' = Taken
    BY <1>3 DEF Taken, Writing
  <2>5. Counted'
    BY <1>0, <1>3, <2>1, <2>4 DEF Types
  <2>6. ErrorsMeanDead'
    BY <1>3 DEF Writing
  <2> QED
    BY <2>2, <2>3, <2>5, <2>6
<1>4. ASSUME NEW w \in writes, OnWrite(w)
      PROVE  (OneWrite /\ QueueInOrder /\ Counted /\ ErrorsMeanDead)'
  <2>1. queue # <<>> /\ writes = {w} /\ Taken = 1
    BY <1>4 DEF OnWrite, Taken
  <2>2. /\ queue' = Tail(queue) /\ Len(queue') = Len(queue) - 1
        /\ \A i \in DOMAIN queue' : i + 1 \in DOMAIN queue /\ queue'[i] = queue[i + 1]
    BY <1>0, <1>4, <2>1 DEF OnWrite, Types
  <2>3. /\ writes' = IF queue' # <<>> THEN {Writing(Head(queue'))} ELSE {}
        /\ UNCHANGED <<state, accepted, wire, peer>>
        /\ socket' = "open" => socket = "open"
    BY <1>4, <2>1 DEF OnWrite
  <2>4. OneWrite' /\ ErrorsMeanDead' /\ Taken' = 0
    <3>1. CASE queue' = <<>>
      BY <2>3, <3>1 DEF Taken
    <3>2. CASE queue' # <<>>
      <4>1. writes' = {Writing(Head(queue'))}
        BY <2>3, <3>2
      <4>2. Writing(Head(queue')).message = Head(queue')
            /\ Writing(Head(queue')).result = "pending"
        BY DEF Writing
      <4> QED
        BY <3>2, <4>1, <4>2 DEF Taken
    <3> QED
      BY <3>1, <3>2
  <2>5. QueueInOrder'
    BY <1>0, <2>2, <2>3 DEF Types
  <2>6. Counted'
    BY <1>0, <2>1, <2>2, <2>3, <2>4 DEF Types
  <2> QED
    BY <2>4, <2>5, <2>6
<1>5. ASSUME NEW w \in writes, OnWriteError(w)
      PROVE  (OneWrite /\ QueueInOrder /\ Counted /\ ErrorsMeanDead)'
  <2>1. writes = {w} /\ ~Alive
    BY <1>5 DEF OnWriteError
  <2>2. /\ queue' = <<>> /\ writes' = {} /\ UNCHANGED <<accepted, wire, peer>>
        /\ state' = "closed" /\ (socket' = "open" => socket = "open")
    BY <1>0, <1>5, <2>1, ClosingTypes DEF OnWriteError
  <2> QED
    BY <2>1, <2>2
<1>6. ASSUME NEW w \in writes, WriteOk(w)
      PROVE  (OneWrite /\ QueueInOrder /\ Counted /\ ErrorsMeanDead)'
  <2>1. writes = {w} /\ queue # <<>> /\ w.message = Head(queue) /\ Taken = 0
    BY <1>6 DEF WriteOk, Taken
  <2>2. w.message = accepted - Len(queue) + 1 /\ w.message = Len(wire) + 1
    BY <1>0, <2>1 DEF Types
  <2>3. /\ Len(wire') = Len(wire) + 1
        /\ \A i \in DOMAIN wire' : wire'[i] = i
    BY <1>0, <1>6, <2>2 DEF WriteOk, Types
  <2>4. \E v : /\ writes' = {v} /\ v.result = "ok" /\ v.message = w.message
    <3> DEFINE v == [w EXCEPT !.result = "ok"]
    <3>1. v.result = "ok" /\ v.message = w.message
      BY <1>0 DEF Types
    <3>2. writes' = {v}
      BY <1>6, <2>1 DEF WriteOk
    <3> QED
      BY <3>1, <3>2
  <2>5. UNCHANGED <<state, socket, queue, accepted, peer>>
    BY <1>6 DEF WriteOk
  <2>6. OneWrite' /\ ErrorsMeanDead' /\ Taken' = 1
    BY <2>1, <2>4, <2>5 DEF Taken
  <2>7. Len(wire) = accepted - Len(queue) + Taken
    BY <2>1
  <2>8. Len(wire') = accepted' - Len(queue') + Taken'
    BY <1>0, <2>1, <2>3, <2>5, <2>6, <2>7 DEF Types
  <2> QED
    BY <2>3, <2>5, <2>6, <2>8
<1>7. CASE Fails
  <2>1. CASE UNCHANGED writes
    BY <1>0, <1>1, <1>7, <2>1 DEF Fails, messageVars, Types
  <2>2. CASE \E w \in writes :
               /\ w.result = "pending"
               /\ writes' = (writes \ {w}) \cup {[w EXCEPT !.result = "error"]}
    <3>1. PICK w \in writes :
               /\ w.result = "pending"
               /\ writes' = (writes \ {w}) \cup {[w EXCEPT !.result = "error"]}
      BY <2>2
    <3>2. \E v : writes' = {v} /\ v.result = "error" /\ v.message = w.message
      <4> DEFINE v == [w EXCEPT !.result = "error"]
      <4>1. v.result = "error" /\ v.message = w.message
        BY <1>0 DEF Types
      <4>2. writes' = {v}
        BY <3>1
      <4> QED
        BY <4>1, <4>2
    <3>3. ~Alive /\ UNCHANGED <<state, socket, queue, accepted, wire, peer>>
      BY <1>7 DEF Fails
    <3>4. OneWrite' /\ ErrorsMeanDead' /\ Taken' = Taken
      BY <3>1, <3>2, <3>3 DEF Taken
    <3> QED
      BY <3>3, <3>4
  <2> QED
    BY <1>7, <2>1, <2>2 DEF Fails
<1>8. CASE PeerLeaves
  <2>1. Taken' = Taken
    BY <1>8 DEF PeerLeaves, Taken
  <2> QED
    BY <1>8, <2>1 DEF PeerLeaves
<1>9. CASE Destroy
  <2>1. Taken' = Taken
    BY <1>9 DEF Destroy, Taken
  <2> QED
    BY <1>9, <2>1 DEF Destroy
<1>10. CASE Accept \/ ReadTooLate \/ ParseHeader \/ ParsePacket \/ ReadOk
            \/ (\E t \in Timers : Expire(t)) \/ UNCHANGED vars
  <2>1. UNCHANGED <<state, messageVars>>
    BY <1>10 DEF Accept, ReadTooLate, ParseHeader, ParsePacket, ReadOk, Expire,
                 HasRead, vars, messageVars
  <2> QED
    BY <1>0, <1>1, <2>1 DEF Types
<1>11. CASE Refuse
  BY <1>2, <1>11 DEF Refuse
<1>12. ASSUME NEW force \in BOOLEAN, ReadCloses(force)
       PROVE  (OneWrite /\ QueueInOrder /\ Counted /\ ErrorsMeanDead)'
  BY <1>2, <1>12 DEF ReadCloses, HasRead
<1>13. ASSUME NEW t \in Timers, OnTimeout(t)
       PROVE  (OneWrite /\ QueueInOrder /\ Counted /\ ErrorsMeanDead)'
  BY <1>2, <1>13 DEF OnTimeout
<1>14. CASE Disconnect
  BY <1>2, <1>14 DEF Disconnect
<1>15. CASE Send
  BY <1>3, <1>15 DEF Send
<1>16. CASE ParseAndClose
  BY <1>0, <1>2, <1>3, <1>16, ClosingTypes DEF ParseAndClose, HasRead
<1> QED
  BY <1>4, <1>5, <1>6, <1>7, <1>8, <1>9, <1>10, <1>11, <1>12, <1>13, <1>14,
     <1>15, <1>16 DEF Next, Handler

(* The tasks posted: a close posts the release, and only the first does. *)
LEMMA ReleaseStep ==
  Types /\ Untouched /\ NotReleased /\ ReleasedLast /\ [Next]_vars
    => (Untouched /\ NotReleased /\ ReleasedLast)'
<1> SUFFICES ASSUME Types, Untouched, NotReleased, ReleasedLast, [Next]_vars
             PROVE  (Untouched /\ NotReleased /\ ReleasedLast)'
  OBVIOUS
<1>0. posted \in Seq({"connect", "packet", "release"}) /\ state \in {"open", "closed"}
  BY DEF Types
<1> USE DEF Untouched, NotReleased, ReleasedLast, Last
(* What closing does to the tasks. *)
<1>1. ASSUME state' = "closed", posted' = Released(posted), UNCHANGED protocol
      PROVE  (NotReleased /\ ReleasedLast)'
  <2>1. CASE protocol /\ state = "open"
    <3>1. posted' = Append(posted, "release")
      BY <1>1, <2>1 DEF Released
    <3>2. /\ Len(posted') = Len(posted) + 1 /\ posted'[Len(posted')] = "release"
          /\ \A i \in DOMAIN posted' : i # Len(posted') => i \in DOMAIN posted /\ posted'[i] = posted[i]
          /\ Len(posted') # 0
      BY <1>0, <3>1
    <3>3. posted' # <<>>
      BY <3>2
    <3> QED
      BY <1>1, <2>1, <3>2, <3>3
  <2>2. CASE ~(protocol /\ state = "open")
    <3>1. posted' = posted
      BY <1>1, <2>2 DEF Released
    <3> QED
      BY <1>0, <1>1, <2>2, <3>1
  <2> QED
    BY <2>1, <2>2
<1>2. ASSUME NEW force \in BOOLEAN, ReadCloses(force)
      PROVE  (Untouched /\ NotReleased /\ ReleasedLast)'
  BY <1>1, <1>2 DEF ReadCloses, Closing, NoRead, NotAccepted
<1>3. ASSUME NEW w \in writes, OnWriteError(w)
      PROVE  (Untouched /\ NotReleased /\ ReleasedLast)'
  BY <1>1, <1>3 DEF OnWriteError, Closing
<1>4. ASSUME NEW t \in Timers, OnTimeout(t)
      PROVE  (Untouched /\ NotReleased /\ ReleasedLast)'
  BY <1>1, <1>4 DEF OnTimeout, Closing
<1>5. CASE Disconnect
  BY <1>1, <1>5 DEF Disconnect, Closing
<1>6. CASE Refuse
  BY <1>0, <1>6 DEF Refuse, Closing, NoRead, NotAccepted
<1>7. CASE ParseAndClose
  <2>1. /\ state = "open" /\ state' = "closed" /\ posted' = Append(posted, "release")
        /\ read' = Reading("header")
    BY <1>7 DEF ParseAndClose, Closing
  <2> QED
    BY <1>0, <2>1 DEF Reading, NotAccepted
<1>8. CASE ParsePacket
  <2>1. /\ state = "open" /\ UNCHANGED state /\ read' = Reading("header")
        /\ posted' = posted \/ posted' = Append(posted, "packet")
    BY <1>8 DEF ParsePacket
  <2> QED
    BY <1>0, <2>1 DEF Reading, NotAccepted
<1>9. CASE Accept
  <2>1. /\ state = "open" /\ UNCHANGED state /\ read' = Reading("header")
        /\ posted' = posted \/ posted' = <<"connect">>
    BY <1>9 DEF Accept
  <2> QED
    BY <1>0, <2>1 DEF Reading, NotAccepted
<1>10. CASE ReadTooLate \/ ParseHeader
  BY <1>10 DEF ReadTooLate, ParseHeader, HasRead, NoRead, NotAccepted, Reading
<1>11. ASSUME NEW w \in writes, OnWrite(w) \/ WriteOk(w)
       PROVE  (Untouched /\ NotReleased /\ ReleasedLast)'
  BY <1>11 DEF OnWrite, WriteOk
<1>12. CASE Destroy \/ Send \/ PeerLeaves
  BY <1>12 DEF Destroy, Send, PeerLeaves
<1>13. CASE ReadOk \/ Fails
  <2>1. CASE UNCHANGED read
    BY <1>13, <2>1 DEF ReadOk, Fails
  <2>2. CASE read.result = "pending" /\ UNCHANGED <<state, protocol, posted, timers, timeouts>>
             /\ \/ read' = [read EXCEPT !.result = "ok"] /\ UNCHANGED writes
                \/ read' = [read EXCEPT !.result = "error"] /\ UNCHANGED writes
    <3>1. read' # NotAccepted
      BY <2>2 DEF Types, ReadType, NotAccepted
    <3> QED
      BY <2>2, <3>1
  <2> QED
    BY <1>13, <2>1, <2>2 DEF ReadOk, Fails
<1>14. ASSUME NEW t \in Timers, Expire(t)
       PROVE  (Untouched /\ NotReleased /\ ReleasedLast)'
  BY <1>14 DEF Expire
<1>15. CASE UNCHANGED vars
  BY <1>15 DEF vars
<1> QED
  BY <1>2, <1>3, <1>4, <1>5, <1>6, <1>7, <1>8, <1>9, <1>10, <1>11, <1>12, <1>13,
     <1>14, <1>15 DEF Next, Handler

(* The time-outs: every step that leaves an operation pending leaves its
   timer armed. *)
LEMMA GuardStep ==
  Types /\ OneWrite /\ Untouched /\ Guarded /\ [Next]_vars => Guarded'
<1> SUFFICES ASSUME Types, OneWrite, Untouched, Guarded, [Next]_vars PROVE Guarded'
  OBVIOUS
<1> USE DEF Guarded
<1>1. CASE Accept
  BY <1>1 DEF Accept, Untouched, Reading, NoRead
<1>2. CASE Refuse \/ ParseAndClose \/ Disconnect
  BY <1>2 DEF Refuse, ParseAndClose, Disconnect, Closing
<1>3. ASSUME NEW force \in BOOLEAN, ReadCloses(force) PROVE Guarded'
  BY <1>3 DEF ReadCloses, Closing
<1>4. CASE ReadTooLate \/ Destroy
  BY <1>4 DEF ReadTooLate, Destroy
<1>5. CASE ParseHeader \/ ParsePacket
  BY <1>5 DEF ParseHeader, ParsePacket, HasRead, Reading, NoRead
<1>6. ASSUME NEW w \in writes, OnWrite(w) PROVE Guarded'
  BY <1>6 DEF OnWrite, OneWrite, Types
<1>7. ASSUME NEW w \in writes, OnWriteError(w) PROVE Guarded'
  BY <1>7 DEF OnWriteError, Closing
<1>8. ASSUME NEW t \in Timers, OnTimeout(t) PROVE Guarded'
  BY <1>8 DEF OnTimeout, Closing
<1>9. CASE Send
  BY <1>9 DEF Send
<1>10. CASE ReadOk
  BY <1>10 DEF ReadOk, NoRead, Types, ReadType
<1>11. ASSUME NEW w \in writes, WriteOk(w) PROVE Guarded'
  BY <1>11 DEF WriteOk, Types
<1>12. CASE Fails
  BY <1>12 DEF Fails, NoRead, Types, ReadType
<1>13. CASE PeerLeaves \/ UNCHANGED vars
  BY <1>13 DEF PeerLeaves, vars
<1>14. ASSUME NEW t \in Timers, Expire(t) PROVE Guarded'
  BY <1>14 DEF Expire
<1> QED
  BY <1>1, <1>2, <1>3, <1>4, <1>5, <1>6, <1>7, <1>8, <1>9, <1>10, <1>11, <1>12,
     <1>13, <1>14 DEF Next, Handler

LEMMA StepIInv == IInv /\ [Next]_vars => IInv'
  BY TypeStep, MessageStep, ReleaseStep, GuardStep DEF IInv, MessageInv

-----------------------------------------------------------------------------
(* Every variable of the Connection keeps its type, and one write at most is
   under way. *)
THEOREM TypeCorrect == Spec => []TypeOK
<1>1. IInv => TypeOK
  <2> SUFFICES ASSUME IInv PROVE TypeOK
    OBVIOUS
  <2>1. writes = {} \/ \E w \in writes : writes = {w}
    BY DEF IInv, OneWrite
  <2>2. Cardinality(writes) <= 1
    BY <2>1, FS_EmptySet, FS_Singleton
  <2> QED
    BY <2>2, Zenon DEF IInv, Types, ReadType, TypeOK
<1> QED
  BY InitIInv, StepIInv, <1>1, PTL DEF Spec

(* The peer gets what was sent, in order and without a gap, and one write at
   a time is under way. *)
THEOREM WireInOrderHolds == Spec => []WireInOrder
<1>1. IInv => WireInOrder
  BY DEF IInv, OneWrite, Counted, WireInOrder
<1> QED
  BY InitIInv, StepIInv, <1>1, PTL DEF Spec

(* The release is the last task a connection posts, and is posted once. *)
THEOREM ReleasedLastHolds == Spec => []ReleasedLast
<1>1. IInv => ReleasedLast
  BY DEF IInv
<1> QED
  BY InitIInv, StepIInv, <1>1, PTL DEF Spec

(* No operation of an open connection is without its time-out. *)
THEOREM GuardedHolds == Spec => []Guarded
<1>1. IInv => Guarded
  BY DEF IInv
<1> QED
  BY InitIInv, StepIInv, <1>1, PTL DEF Spec

(* A connection closed gracefully hangs up when everything it accepted is
   written, unless the peer has gone. *)
THEOREM DeliversBeforeHangUpHolds == Spec => DeliversBeforeHangUp
<1> DEFINE Served == state = "closed" /\ socket = "open" /\ socket' = "closed"
                       /\ peer = "there" => Len(wire) = accepted
<1>1. IInv /\ [Next]_vars => Served
  <2> SUFFICES ASSUME IInv, [Next]_vars, state = "closed", socket = "open",
                      socket' = "closed", peer = "there"
               PROVE  Len(wire) = accepted
    OBVIOUS
  <2>1. accepted \in Nat /\ queue \in Seq(Messages)
    BY ConnectionAssumption DEF IInv, Types
  <2>2. Len(wire) = accepted - Len(queue) + Taken
    BY DEF IInv, Counted, Alive
  <2>3. CASE Destroy
    <3>1. queue = <<>> /\ Taken = 0
      BY <2>3 DEF Destroy, IInv, OneWrite, Taken
    <3> QED
      BY <2>1, <2>2, <3>1
  <2>4. ASSUME NEW w \in writes, OnWrite(w) PROVE Len(wire) = accepted
    <3>1. queue # <<>> /\ Taken = 1 /\ Tail(queue) = <<>>
      BY <2>4 DEF OnWrite, IInv, OneWrite, Taken
    <3>2. Len(queue) = 1
      <4>1. Len(Tail(queue)) = Len(queue) - 1
        BY <2>1, <3>1
      <4>2. Len(queue) \in Nat /\ Len(<<>>) = 0
        BY <2>1
      <4> QED
        BY <3>1, <4>1, <4>2
    <3> QED
      BY <2>1, <2>2, <3>1, <3>2
  <2>5. \A force, list : ~Shuts(force, list)
    BY DEF Shuts
  <2>6. Destroy \/ \E w \in writes : OnWrite(w)
    BY <2>5 DEF Next, Handler, vars, Accept, Refuse, ReadCloses, ReadTooLate, ParseHeader,
       ParsePacket, ParseAndClose, OnWriteError, OnTimeout, Send, Disconnect, ReadOk,
       WriteOk, Fails, PeerLeaves, Expire, Closing
  <2> QED
    BY <2>3, <2>4, <2>6
<1> QED
  BY InitIInv, StepIInv, <1>1, PTL DEF Spec, DeliversBeforeHangUp

================================================================================
