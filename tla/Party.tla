-------------------------------- MODULE Party --------------------------------
(***************************************************************************)
(* Parties of players: Party (party.cpp), the Game::player...Party         *)
(* handlers, the pointers Player keeps to its party and to those that have *)
(* invited it, and the party's channel in Chat.  A Party deletes itself    *)
(* when it is disbanded, and a later one may be allocated at its address.  *)
(* Every action is one Dispatcher task.                                    *)
(***************************************************************************)
EXTENDS Integers, FiniteSets, SequencesExt

CONSTANTS
  Players,  \* the players
  Parties,  \* the addresses of Party objects
  Nobody,   \* leader of an address without a Party
  NoParty   \* NULL for a Party

ASSUME PartyAssumption ==
  /\ IsFiniteSet(Players) /\ IsFiniteSet(Parties)
  /\ Nobody \notin Players /\ NoParty \notin Parties

VARIABLES
  leader,           \* of every Party
  memberList,       \* the others, in the order of their joining
  inviteList,       \* the players it has invited
  party,            \* Player::party
  invitePartyList,  \* Player::invitePartyList
  channels,         \* Chat::m_partyChannels: the parties that have a channel
  users,            \* ChatChannel::m_users of each of them
  clients           \* the players that have a client

partyVars == <<leader, memberList, inviteList, party, invitePartyList>>
chatVars  == <<channels, users>>
vars == <<partyVars, chatVars, clients>>

Init ==
  /\ leader = [t \in Parties |-> Nobody]
  /\ memberList = [t \in Parties |-> <<>>]
  /\ inviteList = [t \in Parties |-> {}]
  /\ party = [p \in Players |-> NoParty]
  /\ invitePartyList = [p \in Players |-> {}]
  /\ channels = {} /\ users = [t \in Parties |-> {}]
  /\ clients = Players

People(t) == ToSet(memberList[t]) \cup ({leader[t]} \ {Nobody})

Leads(p) == party[p] # NoParty /\ leader[party[p]] = p
isInviting(p, q) == Leads(p) /\ q \in inviteList[party[p]]

(* std::find, then erase. *)
Without(s, p) ==
  IF p \in ToSet(s) THEN RemoveAt(s, CHOOSE i \in DOMAIN s : s[i] = p) ELSE s

-----------------------------------------------------------------------------
(* What disband, leave and removeInvite leave behind, for a player p that
   loses the invitations of the parties R and leaves the party own (NoParty
   when it leaves none), with T the parties that are disbanded by it. *)

(* A leader who goes passes the leadership to the first member. *)
LedBy(t, p) == IF leader[t] = p THEN Head(memberList[t]) ELSE leader[t]
Staying(t, p) ==
  IF leader[t] = p THEN Tail(memberList[t]) ELSE Without(memberList[t], p)

(* Those whose party is NULL afterwards. *)
Partyless(p, own, T) ==
  {q \in Players : party[q] \in T} \cup (IF own = NoParty THEN {} ELSE {p})

(* The invitations q has lost. *)
LostInvitations(q, p, R, T) == T \cup (IF q = p THEN R ELSE {})

Withdraw(p, R, own, T) ==
  /\ leader' = [t \in Parties |->
       IF t \in T THEN Nobody ELSE IF t = own THEN LedBy(t, p) ELSE leader[t]]
  /\ memberList' = [t \in Parties |->
       IF t \in T THEN <<>>
       ELSE IF t = own THEN Staying(t, p) ELSE memberList[t]]
  /\ inviteList' = [t \in Parties |->
       IF t \in T THEN {}
       ELSE IF t \in R \cup {own} THEN inviteList[t] \ {p} ELSE inviteList[t]]
  /\ party' = [q \in Players |->
       IF q \in Partyless(p, own, T) THEN NoParty ELSE party[q]]
  /\ invitePartyList' = [q \in Players |->
       invitePartyList[q] \ LostInvitations(q, p, R, T)]

(* sendClosePrivate(CHANNEL_PARTY): those with a client leave the channel
   before their party is taken from them, except p: its pointer was cleared
   before, so no channel is found for it. *)
ChannelUsers(p, T) ==
  [t \in Parties |->
     IF t \in T THEN users[t] \ ((People(t) \ {p}) \cap clients) ELSE users[t]]

(* The parties of R left with nobody but a leader when p is not invited. *)
LeftAlone(p, R) ==
  {t \in R : memberList[t] = <<>> /\ inviteList[t] = {p}}

(* The party that does not outlast the leaving of p: a leader without members,
   or two people and no invitation.  The mutants end it too seldom, or with
   its leader. *)
EndsWithoutMembers(t, p) ==
  {x \in {t} \ {NoParty} : leader[x] = p /\ memberList[x] = <<>>}
EndsWithoutLeader(t, p) == {x \in {t} \ {NoParty} : leader[x] = p}

EndsWithout(t, p) ==
  {x \in {t} \ {NoParty} :
     \/ leader[x] = p /\ memberList[x] = <<>>
     \/ Len(memberList[x]) = 1 /\ inviteList[x] \subseteq {p}}

-----------------------------------------------------------------------------
(* playerInviteToParty. *)
Invite(p, q) ==
  /\ p # q /\ ~isInviting(q, p) /\ party[q] = NoParty
  /\ Leads(p) /\ q \notin inviteList[party[p]]
  /\ inviteList' = [inviteList EXCEPT ![party[p]] = @ \cup {q}]
  /\ invitePartyList' = [invitePartyList EXCEPT ![q] = @ \cup {party[p]}]
  /\ UNCHANGED <<leader, memberList, party, chatVars, clients>>

(* The invitation of a player that has no party founds one.  The model does
   not run out of addresses: there are enough for every party that can be. *)
Found(p, q, t) ==
  /\ p # q /\ ~isInviting(q, p) /\ party[q] = NoParty
  /\ party[p] = NoParty /\ leader[t] = Nobody
  /\ leader' = [leader EXCEPT ![t] = p]
  /\ party' = [party EXCEPT ![p] = t]
  /\ inviteList' = [inviteList EXCEPT ![t] = {q}]
  /\ invitePartyList' = [invitePartyList EXCEPT ![q] = @ \cup {t}]
  /\ UNCHANGED <<memberList, chatVars, clients>>

(* playerJoinParty *)
Join(p, l) ==
  /\ isInviting(l, p) /\ party[p] = NoParty
  /\ LET t == party[l]
     IN  /\ memberList' = [memberList EXCEPT ![t] = Append(@, p)]
         /\ inviteList' = [inviteList EXCEPT ![t] = @ \ {p}]
         /\ party' = [party EXCEPT ![p] = t]
         /\ invitePartyList' = [invitePartyList EXCEPT ![p] = @ \ {t}]
  /\ UNCHANGED <<leader, chatVars, clients>>

(* playerRevokePartyInvitation, removeInvite. *)
Revoke(l, q) ==
  /\ isInviting(l, q)
  /\ LET T == LeftAlone(q, {party[l]})
     IN  Withdraw(q, {party[l]}, NoParty, T) /\ users' = ChannelUsers(q, T)
  /\ UNCHANGED <<channels, clients>>

(* playerPassPartyLeadership.  The mutant forgets the old leader. *)
PassForgetsOldLeader(l, m) ==
  /\ Leads(l) /\ m \in ToSet(memberList[party[l]])
  /\ leader' = [leader EXCEPT ![party[l]] = m]
  /\ memberList' = [memberList EXCEPT ![party[l]] = Without(@, m)]
  /\ UNCHANGED <<inviteList, party, invitePartyList, chatVars, clients>>

PassLeadership(l, m) ==
  /\ Leads(l) /\ m \in ToSet(memberList[party[l]])
  /\ leader' = [leader EXCEPT ![party[l]] = m]
  /\ memberList' = [memberList EXCEPT ![party[l]] = <<l>> \o Without(@, m)]
  /\ UNCHANGED <<inviteList, party, invitePartyList, chatVars, clients>>

(* playerLeaveParty. *)
Leave(p) ==
  /\ party[p] # NoParty
  /\ LET T == EndsWithout(party[p], p)
     IN  Withdraw(p, {}, party[p], T) /\ users' = ChannelUsers(p, T)
  /\ UNCHANGED <<channels, clients>>

(* clearPartyInvitations, then Party::leave. *)
Departs(p) ==
  LeftAlone(p, invitePartyList[p]) \cup EndsWithout(party[p], p)

(* The talkaction /ghost, which takes no channel from the player... *)
Ghost(p) ==
  /\ Withdraw(p, invitePartyList[p], party[p], Departs(p))
  /\ users' = ChannelUsers(p, Departs(p))
  /\ UNCHANGED <<channels, clients>>

(* ...and onCreatureDisappear, which takes them all.  The player is back, with
   a client and nothing else, at its next login. *)
Logout(p) ==
  /\ Withdraw(p, invitePartyList[p], party[p], Departs(p))
  /\ users' = [t \in Parties |-> ChannelUsers(p, Departs(p))[t] \ {p}]
  /\ clients' = clients \cup {p}
  /\ UNCHANGED channels

-----------------------------------------------------------------------------
(* Chat *)

(* getChannelList makes the channel of the player's party. *)
CreateChannel(p) ==
  /\ party[p] # NoParty /\ party[p] \notin channels
  /\ channels' = channels \cup {party[p]}
  /\ users' = [users EXCEPT ![party[p]] = {}]
  /\ UNCHANGED <<partyVars, clients>>

OpenChannel(p) ==
  /\ party[p] \in channels
  /\ users' = [users EXCEPT ![party[p]] = @ \cup {p}]
  /\ UNCHANGED <<partyVars, channels, clients>>

CloseChannel(p) ==
  /\ party[p] \in channels
  /\ users' = [users EXCEPT ![party[p]] = @ \ {p}]
  /\ UNCHANGED <<partyVars, channels, clients>>

(* A player loses its client, or a new one takes it over. *)
ClientChanges(p) ==
  /\ clients' = IF p \in clients THEN clients \ {p} ELSE clients \cup {p}
  /\ UNCHANGED <<partyVars, chatVars>>

Next ==
  \/ \E p, q \in Players :
       \/ Invite(p, q) \/ Join(p, q) \/ Revoke(p, q) \/ PassLeadership(p, q)
       \/ \E t \in Parties : Found(p, q, t)
  \/ \E p \in Players :
       \/ Leave(p) \/ Ghost(p) \/ Logout(p)
       \/ CreateChannel(p) \/ OpenChannel(p) \/ CloseChannel(p)
       \/ ClientChanges(p)

Spec == Init /\ [][Next]_vars

-----------------------------------------------------------------------------
TypeOK ==
  /\ leader \in [Parties -> Players \cup {Nobody}]
  /\ memberList \in [Parties -> Seq(Players)]
  /\ inviteList \in [Parties -> SUBSET Players]
  /\ party \in [Players -> Parties \cup {NoParty}]
  /\ invitePartyList \in [Players -> SUBSET Parties]
  /\ channels \subseteq Parties
  /\ users \in [Parties -> SUBSET Players] /\ clients \subseteq Players

(* The pointers and the lists agree: Player::party names the party whose
   leader or member the player is, once, and never one that was deleted.  A
   player's invitations are those of living parties, and the party knows of
   them: logging out refuses exactly the open ones and never calls a party
   that was deleted. *)
PartyAgrees ==
  \A t \in Parties :
    /\ \A p \in Players : party[p] = t <=> p \in People(t)
    /\ leader[t] \notin ToSet(memberList[t])
    /\ IsInjective(memberList[t])
    /\ leader[t] = Nobody => memberList[t] = <<>> /\ inviteList[t] = {}
    /\ \A p \in Players :
         /\ t \in invitePartyList[p] <=> p \in inviteList[t]
         /\ p \in inviteList[t] => p \notin People(t)

(* A party has somebody besides its leader, or has invited somebody. *)
NoLonelyParty ==
  \A t \in Parties :
    leader[t] # Nobody => memberList[t] # <<>> \/ inviteList[t] # {}

(* Nobody is thrown out: a step takes one person from a party, or ends a
   party of two. *)
NobodyThrownOut ==
  [][\A t \in Parties :
       LET lost == People(t) \ People(t)'
       IN  Cardinality(lost) <= 1 \/ Cardinality(People(t)) = 2]_vars

(* party.cpp:215 tells those who join: "Open the party channel to communicate
   with your companions."  Who is in the channel is in the party. *)
ChannelForCompanions ==
  \A t \in channels : users[t] \subseteq People(t)
=============================================================================
