-------------------------------- MODULE Guild --------------------------------
(***************************************************************************)
(* Guilds: the commands of the guild channel (Chat::talk), !joinguild and  *)
(* !createguild (talkaction.cpp), IOGuild, and what loadPlayer and         *)
(* savePlayer move between a Player and the database.  The rank and the    *)
(* invitations of a player are kept twice: the database's are those of     *)
(* players who are offline, the Player's those of players online, and each *)
(* command writes one copy, or both.  Every action is one Dispatcher task; *)
(* conditions on level, premium days, wars and names are free choices.     *)
(***************************************************************************)
EXTENDS FiniteSets, Naturals, Functions

CONSTANTS
  Persons,  \* the players of the world
  Guilds,   \* ids of guilds; one that was deleted may be used again
  NoGuild   \* guild id 0

ASSUME GuildAssumption == NoGuild \notin Guilds

(* GuildLevel_t; Lord is GUILDLEVEL_LEADER. *)
Member == 1
Vice == 2
Lord == 3

VARIABLES
  ownerid,      \* table guilds: the owner of each id in use
  rankid,       \* players.rank_id, as the guild and the level of the rank
  invites,      \* table guild_invites
  online,       \* Player::autoList
  rank,         \* guildId and guildLevel of a Player
  invitations,  \* Player::invitationsList
  lapsed,       \* history: guilds whose leadership was lost or got otherwise
                \* than by a command of their leader
  away          \* history: guilds whose leader was offline when made leader
guildVars == <<ownerid, rankid, invites, online, rank, invitations, lapsed, away>>
database == <<ownerid, rankid, invites>>
memory == <<online, rank, invitations>>
histories == <<lapsed, away>>

guilds == DOMAIN ownerid

Rankless == [guild |-> NoGuild, level |-> 0]
RankOf(g, l) == [guild |-> g, level |-> l]

GuildInit ==
  /\ ownerid = [g \in {} |-> g]
  /\ rankid = [p \in Persons |-> Rankless] /\ invites = [p \in Persons |-> {}]
  /\ online = {} /\ lapsed = {} /\ away = {}
  /\ rank = [p \in Persons |-> Rankless] /\ invitations = [p \in Persons |-> {}]

(* loadPlayer: the invitations are read for players without a rank only. *)
LoadedInvitations(p) == IF rankid[p] = Rankless THEN invites[p] ELSE {}

(* What the world sees of a player. *)
Standing(p) == IF p \in online THEN rank[p] ELSE rankid[p]
Invited(p) == IF p \in online THEN invitations[p] ELSE LoadedInvitations(p)

Commands(p, g, l) == p \in online /\ rank[p].guild = g /\ rank[p].level >= l /\ g \in guilds
-----------------------------------------------------------------------------
(* Login, logout, saves *)

EnterWorld(p) ==
  /\ p \notin online /\ online' = online \cup {p}
  /\ rank' = [rank EXCEPT ![p] = rankid[p]]
  /\ invitations' = [invitations EXCEPT ![p] = LoadedInvitations(p)]
  /\ UNCHANGED <<database, histories>>

(* getRankIdByLevel is 0 when the guild has no ranks.  The loop over the
   invitations steps over the one that follows one it erases. *)
SavedRank(r) == IF r.guild \in guilds THEN r ELSE Rankless
SavedInvitations(l) == IF l \subseteq guilds THEN {l} ELSE SUBSET (l \cap guilds)

SavesRank(p, r) == rankid' = [rankid EXCEPT ![p] = SavedRank(r)]
SavesPlayer(p, r, l) ==
  SavesRank(p, r) /\ \E s \in SavedInvitations(l) : invites' = [invites EXCEPT ![p] = s]

(* A save is one transaction.  One that fails, or is not made because saving is
   switched off, leaves everything as it is; a shallow one stops after the rank. *)
SaveInWorld(p) ==
  /\ p \in online
  /\ \/ SavesPlayer(p, rank[p], invitations[p])
     \/ SavesRank(p, rank[p]) /\ UNCHANGED invites
  /\ UNCHANGED <<ownerid, memory, histories>>

(* onCreatureDisappear; the Player is deleted.  The mutant saves nothing but
   the rank. *)
Disappears(p) ==
  /\ p \in online /\ online' = online \ {p} /\ rank' = [rank EXCEPT ![p] = Rankless]
  /\ invitations' = [invitations EXCEPT ![p] = {}]

LeaveWorldHalfSaved(p) ==
  Disappears(p) /\ SavesRank(p, rank[p]) /\ UNCHANGED <<ownerid, invites, histories>>

LeaveWorld(p) ==
  /\ Disappears(p) /\ SavesPlayer(p, rank[p], invitations[p])
  /\ UNCHANGED <<ownerid, histories>>

(* The guilds that lose or get a leader when players are loaded again who were
   not saved. *)
Forgotten(players) ==
  {g \in guilds : \E p \in players : (rank[p] = RankOf(g, Lord)) # (rankid[p] = RankOf(g, Lord))}

(* savePlayer fails three times, or has nothing to do: a line in the log. *)
LeaveWorldUnsaved(p) ==
  /\ Disappears(p) /\ lapsed' = lapsed \cup Forgotten({p})
  /\ UNCHANGED <<database, away>>

(* A house loads a player who is offline, and saves it again. *)
SaveVirtual(p) ==
  /\ p \notin online /\ SavesPlayer(p, rankid[p], LoadedInvitations(p))
  /\ UNCHANGED <<ownerid, memory, histories>>

(* The server stops without saving. *)
GuildCrash ==
  /\ online' = {} /\ rank' = [p \in Persons |-> Rankless]
  /\ invitations' = [p \in Persons |-> {}]
  /\ lapsed' = lapsed \cup Forgotten(online)
  /\ UNCHANGED <<database, away>>
-----------------------------------------------------------------------------
(* Founding, joining, leaving *)

(* createGuild, then joinGuild with creation set: the leader's rank is that of
   the first row found with the player's ownerid. *)
FoundGuild(p, g) ==
  /\ p \in online /\ rank[p] = Rankless /\ g \in Guilds \ guilds
  /\ ownerid' = [h \in guilds \cup {g} |-> IF h = g THEN p ELSE ownerid[h]]
  /\ \E h \in guilds \cup {g} :
       /\ ownerid'[h] = p
       /\ rankid' = [rankid EXCEPT ![p] = RankOf(h, Lord)]
       /\ rank' = [rank EXCEPT ![p] = RankOf(h, Lord)]
       /\ lapsed' = IF h = g THEN lapsed \ {g} ELSE lapsed \cup {g, h}
  /\ away' = away \ {g}
  /\ invitations' = [invitations EXCEPT ![p] = {}]
  /\ UNCHANGED <<invites, online>>

JoinGuild(p, g) ==
  /\ p \in online /\ rank[p] = Rankless /\ g \in invitations[p] \cap guilds
  /\ rankid' = [rankid EXCEPT ![p] = RankOf(g, Member)]
  /\ rank' = [rank EXCEPT ![p] = RankOf(g, Member)]
  /\ invitations' = [invitations EXCEPT ![p] = {}]
  /\ UNCHANGED <<ownerid, invites, online, histories>>

LeaveGuild(p) ==
  /\ p \in online /\ rank[p].guild \in guilds /\ rank[p].level < Lord
  /\ rank' = [rank EXCEPT ![p] = Rankless]
  /\ UNCHANGED <<database, online, invitations, histories>>

(* The death that sends a player back to Rookgaard. *)
RookGuild(p) ==
  /\ p \in online
  /\ rank' = [rank EXCEPT ![p] = Rankless]
  /\ lapsed' = lapsed \cup (IF rank[p].level = Lord THEN {rank[p].guild} ELSE {})
  /\ UNCHANGED <<database, online, invitations, away>>

(* disbandGuild.  The mutant leaves the invitations in the database. *)
DisbandGuildInvitesKept(p, g) ==
  /\ Commands(p, g, Lord)
  /\ rankid' = [q \in Persons |-> IF rankid[q].guild = g THEN Rankless ELSE rankid[q]]
  /\ rank' = [q \in Persons |-> IF rank[q].guild = g THEN Rankless ELSE rank[q]]
  /\ invitations' = [q \in Persons |->
       IF rank[q].guild = g THEN invitations[q] ELSE invitations[q] \ {g}]
  /\ ownerid' = Restrict(ownerid, guilds \ {g}) /\ lapsed' = lapsed \ {g}
  /\ away' = away \ {g} /\ UNCHANGED <<invites, online>>

DisbandGuild(p, g) ==
  /\ Commands(p, g, Lord)
  /\ rankid' = [q \in Persons |-> IF rankid[q].guild = g THEN Rankless ELSE rankid[q]]
  /\ rank' = [q \in Persons |-> IF rank[q].guild = g THEN Rankless ELSE rank[q]]
  /\ invitations' = [q \in Persons |->
       IF rank[q].guild = g THEN invitations[q] ELSE invitations[q] \ {g}]
  /\ ownerid' = Restrict(ownerid, guilds \ {g}) /\ lapsed' = lapsed \ {g}
  /\ invites' = [q \in Persons |-> invites[q] \ {g}]
  /\ away' = away \ {g} /\ UNCHANGED online
-----------------------------------------------------------------------------
(* Commands that name somebody, who is online or not *)

InviteToGuild(p, q, g) ==
  /\ Commands(p, g, Vice)
  /\ \/ /\ q \in online /\ rank[q] = Rankless /\ g \notin invitations[q]
        /\ invitations' = [invitations EXCEPT ![q] = @ \cup {g}]
        /\ UNCHANGED invites
     \/ /\ q \notin online /\ rankid[q] = Rankless /\ g \notin invites[q]
        /\ invites' = [invites EXCEPT ![q] = @ \cup {g}]
        /\ UNCHANGED invitations
  /\ UNCHANGED <<ownerid, rankid, online, rank, histories>>

RevokeFromGuild(p, q, g) ==
  /\ Commands(p, g, Vice)
  /\ \/ /\ q \in online /\ rank[q] = Rankless /\ g \in invitations[q]
        /\ invitations' = [invitations EXCEPT ![q] = @ \ {g}]
        /\ UNCHANGED invites
     \/ /\ q \notin online /\ g \in invites[q]
        /\ invites' = [invites EXCEPT ![q] = @ \ {g}]
        /\ UNCHANGED invitations
  /\ UNCHANGED <<ownerid, rankid, online, rank, histories>>

(* Writes the rank of q where it is kept. *)
SetRank(q, r) ==
  IF q \in online
  THEN rank' = [rank EXCEPT ![q] = r] /\ UNCHANGED rankid
  ELSE rankid' = [rankid EXCEPT ![q] = r] /\ UNCHANGED rank

(* promote and demote. *)
ChangeLevel(p, q, g, from, to) ==
  /\ Commands(p, g, Lord) /\ Standing(q) = RankOf(g, from)
  /\ SetRank(q, RankOf(g, to))
  /\ UNCHANGED <<ownerid, invites, online, invitations, histories>>

(* kick asks for the level of those online only. *)
KickFromGuild(p, q, g) ==
  /\ Commands(p, g, Lord) /\ Standing(q).guild = g
  /\ q \in online => Standing(q).level < Lord
  /\ SetRank(q, Rankless)
  /\ UNCHANGED <<ownerid, invites, online, invitations, histories>>

(* passleadership, to a vice-leader online.  The mutant forgets the owner. *)
PassGuildNotOwned(p, q, g) ==
  /\ Commands(p, g, Lord) /\ q \in online /\ rank[q] = RankOf(g, Vice)
  /\ rank' = [rank EXCEPT ![p] = RankOf(g, Vice), ![q] = RankOf(g, Lord)]
  /\ away' = away \ {g}
  /\ UNCHANGED <<database, online, invitations, lapsed>>

PassGuild(p, q, g) ==
  /\ Commands(p, g, Lord) /\ q \in online /\ rank[q] = RankOf(g, Vice)
  /\ rank' = [rank EXCEPT ![p] = RankOf(g, Vice), ![q] = RankOf(g, Lord)]
  /\ ownerid' = [ownerid EXCEPT ![g] = q] /\ away' = away \ {g}
  /\ UNCHANGED <<guilds, rankid, invites, online, invitations, lapsed>>

(* ... and to one who is offline: the owner stays. *)
PassGuildAway(p, q, g) ==
  /\ Commands(p, g, Lord) /\ q \notin online /\ rankid[q] = RankOf(g, Vice)
  /\ rankid' = [rankid EXCEPT ![q] = RankOf(g, Lord)]
  /\ rank' = [rank EXCEPT ![p] = RankOf(g, Vice)]
  /\ away' = away \cup {g}
  /\ UNCHANGED <<ownerid, invites, online, invitations, lapsed>>

GuildNext ==
  \/ \E p \in Persons :
       \/ EnterWorld(p) \/ SaveInWorld(p) \/ SaveVirtual(p)
       \/ LeaveWorld(p) \/ LeaveWorldUnsaved(p) \/ LeaveGuild(p) \/ RookGuild(p)
       \/ \E g \in Guilds :
            \/ FoundGuild(p, g) \/ JoinGuild(p, g) \/ DisbandGuild(p, g)
            \/ \E q \in Persons :
                 \/ InviteToGuild(p, q, g) \/ RevokeFromGuild(p, q, g)
                 \/ ChangeLevel(p, q, g, Member, Vice)
                 \/ ChangeLevel(p, q, g, Vice, Member)
                 \/ KickFromGuild(p, q, g)
                 \/ PassGuild(p, q, g) \/ PassGuildAway(p, q, g)
  \/ GuildCrash

GuildSpec == GuildInit /\ [][GuildNext]_guildVars
-----------------------------------------------------------------------------
(* Nobody holds a rank in a guild that was disbanded or an invitation to it,
   in memory or in the database, so that an id that is used again brings no
   strangers along and savePlayer never steps over an invitation; and who is
   in a guild has no invitations, which disbandGuild's "else if" relies on. *)
NoGhostGuild ==
  \A p \in Persons :
    /\ {rank[p].guild, rankid[p].guild} \subseteq guilds \cup {NoGuild}
    /\ invitations[p] \cup invites[p] \subseteq guilds
    /\ rank[p] # Rankless => invitations[p] = {}

(* A guild has one leader, whoever of its people is online and wherever the
   leadership is passed to, and that is its owner unless the leader was offline
   when chosen.  A leader who is sent to Rookgaard and a change of leader that
   is not saved (a crash, a logout whose save fails) end this, and so does the
   owner of a guild that was passed on who founds another: the code gives the
   founder the lead of whichever of the two it finds. *)
OwnerLeads ==
  \A g \in guilds \ lapsed :
    \E p \in Persons : /\ {q \in Persons : Standing(q) = RankOf(g, Lord)} = {p}
                       /\ g \notin away => p = ownerid[g]

(* Logins and saves, and logouts that are saved, change nobody's rank and
   invitations.  A logout that is not saved gives its player back the rank and
   invitations that the database has, and changes nobody else's. *)
StandingKept ==
  [][\A p \in Persons :
       /\ EnterWorld(p) \/ LeaveWorld(p) \/ SaveInWorld(p) \/ SaveVirtual(p) =>
            \A q \in Persons : Standing(q)' = Standing(q) /\ Invited(q)' = Invited(q)
       /\ LeaveWorldUnsaved(p) =>
            /\ \A q \in Persons \ {p} : Standing(q)' = Standing(q) /\ Invited(q)' = Invited(q)
            /\ Standing(p)' = rankid[p] /\ Invited(p)' = LoadedInvitations(p)]_guildVars
=============================================================================
