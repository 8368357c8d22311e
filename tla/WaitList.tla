------------------------------ MODULE WaitList ------------------------------
(***************************************************************************)
(* WaitingList: the queue in front of a full server.  A client that finds  *)
(* the server full is put on a list and told how long to wait; it has to   *)
(* come back before its entry expires to keep its place, and it gets in    *)
(* when there is room for everybody up to its slot.  One Dispatcher task   *)
(* runs login() and, when it succeeds, places the player.                  *)
(*                                                                         *)
(* Time is counted in units of five seconds, the unit of getTime(), and    *)
(* relative to now: an entry keeps what is left of its timeout.            *)
(***************************************************************************)
EXTENDS Integers, FiniteSets, SequencesExt

CONSTANTS
  Clients,     \* (name, ip) pairs, which find() tells apart
  Exempt,      \* those with PlayerFlag_CanAlwaysLogin, account managers
  MaxPlayers,  \* ConfigManager::MAX_PLAYERS
  SkipWait,    \* the values ConfigManager::PREMIUM_SKIP_WAIT takes, which may
               \* change when the configuration is reloaded
  Upgrades     \* those whose account gains and loses premium time

ASSUME WaitListAssumption ==
  /\ IsFiniteSet(Clients) /\ Exempt \subseteq Clients
  /\ MaxPlayers \in Nat
  /\ SkipWait \subseteq BOOLEAN /\ Upgrades \subseteq Clients

VARIABLES
  online,    \* the clients in the game
  premium,   \* the clients whose account is premium now
  waitList,  \* the list, each entry with the client, the account's state
             \* when it was made, and the time left
  told       \* what is left of the time each waiting client was told

waitVars == <<online, premium, waitList, told>>

Gone == -1   \* told: the client is not waiting

getTime(slot) == CASE slot < 5  -> 1
                   [] slot < 10 -> 2
                   [] slot < 20 -> 4
                   [] slot < 50 -> 12
                   [] OTHER     -> 24
getTimeout(slot) == getTime(slot) + 3

WaitInit ==
  /\ online = {} /\ waitList = <<>>
  /\ premium \in SUBSET (Clients \ Exempt)
  /\ told = [c \in Clients |-> Gone]

-----------------------------------------------------------------------------
(* kept[n] is what is kept of the first n entries. *)
cleanup(list) ==
  LET kept[n \in 0..Len(list)] ==
        IF n = 0 THEN <<>>
        ELSE IF list[n].left > 0 THEN Append(kept[n-1], list[n]) ELSE kept[n-1]
  IN  kept[Len(list)]

Listed(list, c) == \E i \in DOMAIN list : list[i].client = c
find(list, c)   == CHOOSE i \in DOMAIN list : list[i].client = c

MayEnterAtOnce(c, skip) ==
  \/ c \in Exempt
  \/ waitList = <<>> /\ Cardinality(online) < MaxPlayers
  \/ skip /\ c \in premium

MustWait(c) == \E skip \in SkipWait : ~MayEnterAtOnce(c, skip)

(* The list is left as it is, an entry of c included. *)
LoginAtOnce(c) ==
  /\ c \notin online /\ \E skip \in SkipWait : MayEnterAtOnce(c, skip)
  /\ online' = online \cup {c}
  /\ told' = [told EXCEPT ![c] = Gone]
  /\ UNCHANGED <<premium, waitList>>

(* LoginWaitsLonger: the timeout stays; the entry goes to the back. *)
WaitsLongerUnrefreshed(c) ==
  LET list == cleanup(waitList)
      slot == find(list, c)
  IN  /\ c \notin online /\ MustWait(c) /\ Listed(list, c)
      /\ Cardinality(online) + slot > MaxPlayers
      /\ waitList' = list
      /\ told' = [told EXCEPT ![c] = getTime(slot)]
      /\ UNCHANGED <<online, premium>>

WaitsLongerAtBack(c) ==
  LET list == cleanup(waitList)
      slot == find(list, c)
  IN  /\ c \notin online /\ MustWait(c) /\ Listed(list, c)
      /\ Cardinality(online) + slot > MaxPlayers
      /\ waitList' = Append(RemoveAt(list, slot),
                            [list[slot] EXCEPT !.left = getTimeout(slot)])
      /\ told' = [told EXCEPT ![c] = getTime(slot)]
      /\ UNCHANGED <<online, premium>>

(* A client on the list for which there is no room yet. *)
LoginWaitsLonger(c) ==
  LET list == cleanup(waitList)
      slot == find(list, c)
  IN  /\ c \notin online /\ MustWait(c) /\ Listed(list, c)
      /\ Cardinality(online) + slot > MaxPlayers
      /\ waitList' = [list EXCEPT ![slot].left = getTimeout(slot)]
      /\ told' = [told EXCEPT ![c] = getTime(slot)]
      /\ UNCHANGED <<online, premium>>

(* LoginFromList: one place too many. *)
FromListOverfull(c) ==
  LET list == cleanup(waitList)
      slot == find(list, c)
  IN  /\ c \notin online /\ MustWait(c) /\ Listed(list, c)
      /\ Cardinality(online) + slot <= MaxPlayers + 1
      /\ waitList' = RemoveAt(list, slot)
      /\ online' = online \cup {c}
      /\ told' = [told EXCEPT ![c] = Gone]
      /\ UNCHANGED premium

(* There is room for everybody up to the client's slot. *)
LoginFromList(c) ==
  LET list == cleanup(waitList)
      slot == find(list, c)
  IN  /\ c \notin online /\ MustWait(c) /\ Listed(list, c)
      /\ Cardinality(online) + slot <= MaxPlayers
      /\ waitList' = RemoveAt(list, slot)
      /\ online' = online \cup {c}
      /\ told' = [told EXCEPT ![c] = Gone]
      /\ UNCHANGED premium

(* A premium client goes before the first entry that is not. *)
NewSlot(list, c) ==
  LET behind == {i \in DOMAIN list : ~list[i].premium}
  IN  IF c \in premium /\ behind # {} THEN Min(behind) ELSE Len(list) + 1

LoginListed(c) ==
  LET list == cleanup(waitList)
      slot == NewSlot(list, c)
  IN  /\ c \notin online /\ MustWait(c) /\ ~Listed(list, c)
      /\ waitList' = InsertAt(list, slot, [client |-> c, premium |-> c \in premium,
                                           left |-> getTimeout(slot)])
      /\ told' = [told EXCEPT ![c] = getTime(slot)]
      /\ UNCHANGED <<online, premium>>

Login(c) ==
  LoginAtOnce(c) \/ LoginWaitsLonger(c) \/ LoginFromList(c) \/ LoginListed(c)

-----------------------------------------------------------------------------
(* The world around it *)

Leave(c) ==
  /\ c \in online /\ online' = online \ {c}
  /\ UNCHANGED <<premium, waitList, told>>

(* A client stops trying; its entry stays until it expires. *)
GiveUp(c) ==
  /\ told[c] # Gone
  /\ told' = [told EXCEPT ![c] = Gone]
  /\ UNCHANGED <<online, premium, waitList>>

PremiumChanges(c) ==
  /\ c \in Upgrades
  /\ premium' = IF c \in premium THEN premium \ {c} ELSE premium \cup {c}
  /\ UNCHANGED <<online, waitList, told>>

Less(n) == IF n > 0 THEN n - 1 ELSE n

(* Five seconds pass.  A client that has not given up comes back when the
   time it was told is over, before its entry expires. *)
Tick ==
  /\ \A i \in DOMAIN waitList :
       told[waitList[i].client] = 0 => waitList[i].left > 1
  /\ waitList' = [i \in DOMAIN waitList |-> [waitList[i] EXCEPT !.left = Less(@)]]
  /\ told' = [c \in Clients |-> Less(told[c])]
  /\ UNCHANGED <<online, premium>>

WaitNext ==
  \/ \E c \in Clients : Login(c) \/ Leave(c) \/ GiveUp(c) \/ PremiumChanges(c)
  \/ Tick

WaitSpec == WaitInit /\ [][WaitNext]_waitVars
-----------------------------------------------------------------------------
(* A client that keeps to the time it was told finds its place: until then
   its entry is on the list and has fifteen seconds to spare.  Neither the
   expiry of other entries nor premium clients put ahead change that. *)
PromiseKept ==
  \A c \in Clients : told[c] # Gone =>
    \E i \in DOMAIN waitList :
      /\ waitList[i].client = c
      /\ waitList[i].left >= told[c] + 1
      /\ told[c] > 0 => waitList[i].left >= told[c] + 3

(* Nobody overtakes: two live entries of the list keep their order, except
   that new premium entries come between. *)
NobodyOvertakes ==
  [][LET live == cleanup(waitList)
         ahead(list, c, d) == /\ Listed(list, c) /\ Listed(list, d)
                              /\ find(list, c) < find(list, d)
     IN  \A c, d \in Clients :
           ahead(live, c, d) /\ Listed(waitList', c) /\ Listed(waitList', d)
           => ahead(waitList', c, d)]_waitVars

(* A newcomer never comes in past clients that hold a place, unless exempt:
   who enters leaves enough room for everybody ahead. *)
RoomForThoseAhead ==
  [][\A c \in online' \ online :
       \/ c \in Exempt
       \/ TRUE \in SkipWait /\ c \in premium
       \/ LET list == cleanup(waitList)
              ahead == IF Listed(list, c) THEN find(list, c) - 1 ELSE Len(list)
          IN  Cardinality(online') + ahead <= MaxPlayers]_waitVars

(* A client that keeps coming back gets in, however often those ahead of it
   come, leave, expire or give up, once nobody is put ahead of it for its
   account or let in without waiting. *)
PatientGetsIn ==
  \A c \in Clients :
    <>[](premium = {} /\ online \cap Exempt = {}) => []<>(told[c] = Gone)
=============================================================================
