---------------------------- MODULE Social_proofs -----------------------------
(***************************************************************************)
(* What players form with each other, proved for every number of them: the *)
(* private channels and the reports of the chat, the guilds, the audiences *)
(* of the casts; and the bot that plays for one of them, for every number  *)
(* of its loops.  The five share no state; each has its own inductive      *)
(* invariant, a conjunction of what its variables range over and of what   *)
(* the property needs to be kept by every step.                            *)
(***************************************************************************)
EXTENDS Guild, PrivateChannels, RuleViolations, Casting, CaveBot, FiniteSetTheorems,
        WellFoundedInduction, TLAPS

(* Private channels *)

(* The least of a set of numbers is one of them. *)
LEMMA MinIsMember ==
  ASSUME NEW S \in SUBSET Nat, S # {}
  PROVE  Min(S) \in S
<1>1. PICK x \in S : \A y \in S : ~(<<y, x>> \in OpToRel(<, Nat))
  BY NatLessThanWellFounded, WFMin
<1>2. OpToRel(<, Nat) = {ss \in Nat \X Nat : ss[1] < ss[2]}
  BY DEF OpToRel
<1>3. \A y \in S : x =< y
  <2> SUFFICES ASSUME NEW y \in S, y < x PROVE FALSE
    OBVIOUS
  <2>1. <<y, x>> \in {ss \in Nat \X Nat : ss[1] < ss[2]}
    OBVIOUS
  <2> QED
    BY <1>1, <1>2, <2>1
<1> QED
  BY <1>3 DEF Min

ChannelTypes ==
  /\ here \subseteq Talkers /\ torn \subseteq Slots
  /\ Channels \subseteq Slots /\ owner = [c \in Channels |-> owner[c]]
  /\ guests \in [Slots -> SUBSET Talkers] /\ open \in [Slots -> SUBSET Talkers]

(* Nobody invites the owner, whom excluding would take from the users. *)
OwnerIsNoGuest == \A c \in Channels : owner[c] \notin guests[c]

ChannelIInv == ChannelTypes /\ OwnerIsNoGuest /\ ChannelsInHand

LEMMA ChannelInitIInv == ChannelInit => ChannelIInv
  BY SlotsAssumption DEF ChannelInit, ChannelIInv, ChannelTypes, OwnerIsNoGuest,
     ChannelsInHand, Channels, IsInjective

(* A channel that is deleted is forgotten wholly, and no other channel changes. *)
LEMMA DeletedProps ==
  ASSUME ChannelIInv, NEW c \in Channels, Deleted(c)
  PROVE  /\ Channels' = Channels \ {c}
         /\ \A d \in Channels' : owner'[d] = owner[d]
         /\ owner' = [d \in Channels' |-> owner'[d]]
         /\ guests' \in [Slots -> SUBSET Talkers] /\ guests'[c] = {}
         /\ \A d \in Slots \ {c} : guests'[d] = guests[d]
  BY DEF Deleted, Restrict, Channels, ChannelIInv, ChannelTypes

LEMMA ChannelStep == ChannelIInv /\ [ChannelNext]_channelVars => ChannelIInv'
<1> SUFFICES ASSUME ChannelIInv, [ChannelNext]_channelVars PROVE ChannelIInv'
  OBVIOUS
<1> USE DEF ChannelIInv, ChannelTypes, OwnerIsNoGuest, ChannelsInHand, isInvited, IsInjective
<1>1. ASSUME NEW p \in Talkers, ComesIn(p) PROVE ChannelIInv'
  BY <1>1 DEF ComesIn, Channels
<1>2. ASSUME NEW p \in Talkers, CreatePrivate(p) PROVE ChannelIInv'
  <2> DEFINE c == Min(Slots \ Channels)
  <2>1. c \in Slots \ Channels
    BY <1>2, MinIsMember, SlotsAssumption DEF CreatePrivate
  <2>2. /\ p \in here /\ \A d \in Channels : owner[d] # p
        /\ owner' = [d \in Channels \cup {c} |-> IF d = c THEN p ELSE owner[d]]
        /\ open' = [open EXCEPT ![c] = {p}] /\ torn' = torn \ {c}
        /\ UNCHANGED <<here, guests>>
    BY <1>2 DEF CreatePrivate, Range, Channels
  <2> HIDE DEF c
  <2>3. /\ Channels' = Channels \cup {c} /\ owner'[c] = p
        /\ \A d \in Channels : owner'[d] = owner[d]
        /\ owner' = [d \in Channels' |-> owner'[d]]
    BY <2>1, <2>2 DEF Channels
  <2>4. /\ open' \in [Slots -> SUBSET Talkers] /\ open'[c] = {p}
        /\ \A d \in Slots \ {c} : open'[d] = open[d]
    BY <2>1, <2>2
  <2> QED
    BY <2>1, <2>2, <2>3, <2>4
<1>3. ASSUME NEW p \in Talkers, NEW c \in Slots, InviteGuest(c, p) PROVE ChannelIInv'
  <2>1. /\ guests' \in [Slots -> SUBSET Talkers] /\ guests'[c] = guests[c] \cup {p}
        /\ \A d \in Slots \ {c} : guests'[d] = guests[d]
        /\ c \in Channels /\ Channels' = Channels /\ p \in here /\ p # owner[c]
        /\ UNCHANGED <<here, owner, open, torn>>
    BY <1>3 DEF InviteGuest, Channels
  <2> QED
    BY <2>1
<1>4. ASSUME NEW p \in Talkers, NEW c \in Slots, ExcludeGuest(c, p) PROVE ChannelIInv'
  <2>1. /\ guests' \in [Slots -> SUBSET Talkers] /\ guests'[c] = guests[c] \ {p}
        /\ open' \in [Slots -> SUBSET Talkers] /\ open'[c] = open[c] \ {p}
        /\ \A d \in Slots \ {c} : guests'[d] = guests[d] /\ open'[d] = open[d]
    BY <1>4 DEF ExcludeGuest
  <2>2. /\ c \in Channels /\ Channels' = Channels
        /\ UNCHANGED <<here, owner, torn>>
    BY <1>4 DEF ExcludeGuest, Channels
  <2>3. owner[c] # p
    BY <1>4 DEF ExcludeGuest
  <2>4. ChannelTypes'
    BY <2>1, <2>2
  <2>5. OwnerIsNoGuest' /\ ChannelsInHand'
    BY <2>1, <2>2, <2>3
  <2> QED
    BY <2>4, <2>5
<1>5. ASSUME NEW p \in Talkers, NEW c \in Slots, OpenPrivate(p, c) PROVE ChannelIInv'
  <2>1. /\ open' \in [Slots -> SUBSET Talkers] /\ open'[c] = open[c] \cup {p}
        /\ \A d \in Slots \ {c} : open'[d] = open[d]
        /\ p \in here /\ isInvited(p, c) /\ c \in Channels /\ Channels' = Channels
        /\ UNCHANGED <<here, owner, guests, torn>>
    BY <1>5 DEF OpenPrivate, Channels
  <2> QED
    BY <2>1
<1>6. ASSUME NEW p \in Talkers, NEW c \in Slots, ClosePrivate(p, c) PROVE ChannelIInv'
  <2>1. c \in Channels /\ UNCHANGED <<here, torn>>
    BY <1>6 DEF ClosePrivate
  <2>2. CASE p = owner[c]
    <3>1. /\ Deleted(c) /\ open' = [open EXCEPT ![c] = {}]
      BY <1>6, <2>2 DEF ClosePrivate
    <3>2. /\ open' \in [Slots -> SUBSET Talkers] /\ open'[c] = {}
          /\ \A d \in Slots \ {c} : open'[d] = open[d]
      BY <3>1
    <3>3. ChannelTypes' /\ OwnerIsNoGuest'
      BY <2>1, <3>1, <3>2, DeletedProps
    <3>4. ChannelsInHand'
      BY <2>1, <3>1, <3>2, DeletedProps
    <3> QED
      BY <3>3, <3>4
  <2>3. CASE p # owner[c]
    <3>1. /\ open' \in [Slots -> SUBSET Talkers] /\ open'[c] = open[c] \ {p}
          /\ \A d \in Slots \ {c} : open'[d] = open[d]
          /\ Channels' = Channels /\ UNCHANGED <<owner, guests>>
      BY <1>6, <2>3 DEF ClosePrivate, Channels
    <3> QED
      BY <2>1, <2>3, <3>1
  <2> QED
    BY <2>2, <2>3
<1>7. ASSUME NEW p \in Talkers, GoesOut(p) PROVE ChannelIInv'
  <2>1. p \in here /\ here' = here \ {p}
    BY <1>7 DEF GoesOut
  <2>2. CASE /\ p \notin Range(owner)
             /\ open' = [c \in Slots |-> open[c] \ {p}]
             /\ UNCHANGED <<owner, guests, torn>>
    <3>1. \A c \in Channels : owner[c] # p
      BY <2>2 DEF Range, Channels
    <3>2. Channels' = Channels
      BY <2>2 DEF Channels
    <3> QED
      BY <2>1, <2>2, <3>1, <3>2
  <2>3. ASSUME NEW c \in Channels, owner[c] = p, Deleted(c),
               NEW missed \in {{}, {d \in Channels : d > c /\ p \in open[d]}},
               open' = [d \in Slots |-> IF d = c THEN {}
                             ELSE IF d \in missed THEN open[d] ELSE open[d] \ {p}],
               torn' = (torn \cup missed) \ {c}
        PROVE  ChannelIInv'
    <3>1. missed \subseteq Channels
      OBVIOUS
    <3>2. \A d \in Channels \ {c} : owner[d] # p
      BY <2>3
    <3>3. /\ open' \in [Slots -> SUBSET Talkers] /\ open'[c] = {}
          /\ \A d \in Slots \ {c} : open[d] \ {p} \subseteq open'[d] /\ open'[d] \subseteq open[d]
          /\ \A d \in Slots \ {c} : d \notin missed => p \notin open'[d]
      BY <2>3
    <3>4. torn' \subseteq Slots /\ \A d \in Slots \ {c} : d \in torn \cup missed => d \in torn'
      BY <2>3, <3>1
    <3>5. ChannelTypes'
      BY <2>1, <2>3, <3>3, <3>4, DeletedProps
    <3>6. ChannelsInHand'
      <4>1. /\ Channels' = Channels \ {c} /\ guests'[c] = {}
            /\ \A d \in Channels' : owner'[d] = owner[d]
            /\ \A d \in Slots \ {c} : guests'[d] = guests[d]
        BY <2>3, DeletedProps
      <4>2. ASSUME NEW d \in Channels', NEW q \in open'[d], d \notin torn'
            PROVE  q \in here' /\ isInvited(q, d)'
        <5>1. d \in Channels \ {c} /\ q \in open[d] /\ q # p /\ d \notin torn
          BY <3>3, <3>4, <4>1, <4>2
        <5> QED
          BY <2>1, <4>1, <5>1
      <4>3. IsInjective(owner)'
        BY <4>1 DEF Channels
      <4>4. \A d \in Channels' : owner'[d] \in here' /\ owner'[d] \in open'[d]
        BY <2>1, <3>2, <3>3, <4>1
      <4>5. \A d \in Slots \ Channels' : open'[d] = {} /\ guests'[d] = {}
        BY <3>3, <4>1
      <4> QED
        BY <4>2, <4>3, <4>4, <4>5
    <3>7. OwnerIsNoGuest'
      BY <2>3, DeletedProps
    <3> QED
      BY <3>5, <3>6, <3>7
  <2> QED
    BY <1>7, <2>2, <2>3 DEF GoesOut
<1>8. CASE UNCHANGED channelVars
  BY <1>8 DEF channelVars, Channels
<1> QED
  BY <1>1, <1>2, <1>3, <1>4, <1>5, <1>6, <1>7, <1>8 DEF ChannelNext

(* Whatever the players create, invite to, exclude from, open and close, and
   whoever logs out: a player owns one channel at most, every channel has its
   owner in the world and among its users, and except for what a logout leaves
   out, every user is in the world and invited, so that a line said in the
   channel reaches no Player that was deleted. *)
THEOREM ChannelsInHandHolds == ChannelSpec => []ChannelsInHand
<1>1. ChannelIInv => ChannelsInHand
  BY DEF ChannelIInv
<1> QED
  BY ChannelInitIInv, ChannelStep, <1>1, PTL DEF ChannelSpec
-------------------------------------------------------------------------------
(* Reports *)

(* Who is what: answers is a function, and points to nothing but players. *)
ReportTypes ==
  /\ present \subseteq Visitors /\ staff \subseteq Visitors
  /\ watching \subseteq present /\ whole \subseteq watching
  /\ answers = [p \in DOMAIN answers |-> answers[p]]
  /\ window \in [Visitors -> SUBSET Visitors]
  /\ demoted \in BOOLEAN

(* Who answers a report has the flag that the logout asks for. *)
AnsweredByStaff ==
  ~demoted => \A p \in DOMAIN answers : answers[p] \in staff \cup {Nil}

ReportIInv == ReportTypes /\ AnsweredByStaff /\ ReportsInHand

LEMMA ReportInitIInv == ReportInit => ReportIInv
  BY DEF ReportInit, ReportIInv, ReportTypes, AnsweredByStaff, ReportsInHand, Open

LEMMA ReportStep == ReportIInv /\ [ReportNext]_reportVars => ReportIInv'
<1> SUFFICES ASSUME ReportIInv, [ReportNext]_reportVars PROVE ReportIInv'
  OBVIOUS
<1> USE NilAssumption DEF ReportIInv, ReportTypes, AnsweredByStaff, ReportsInHand
<1>1. ASSUME NEW p \in Visitors, Arrives(p) PROVE ReportIInv'
  BY <1>1 DEF Arrives, Open
<1>2. ASSUME NEW p \in Visitors, Report(p) PROVE ReportIInv'
  <2>1. /\ DOMAIN answers' = DOMAIN answers \cup {p} /\ answers'[p] = Nil
        /\ \A q \in DOMAIN answers \ {p} : answers'[q] = answers[q]
    BY <1>2 DEF Report
  <2>2. Open' = Open \cup {p}
    BY <2>1 DEF Open
  <2>3. \A q \in watching : window'[q] = window[q] \cup {p}
    BY <1>2 DEF Report
  <2> QED
    BY <1>2, <2>1, <2>2, <2>3 DEF Report
<1>3. ASSUME NEW p \in Visitors, Finish(p) PROVE ReportIInv'
  <2>1. /\ DOMAIN answers' = DOMAIN answers \ {p}
        /\ \A q \in DOMAIN answers \ {p} : answers'[q] = answers[q]
    BY <1>3 DEF Finish, Restrict
  <2>2. Open' = Open \ {p}
    BY <2>1 DEF Open
  <2>3. \A q \in watching : window'[q] = window[q] \ {p}
    BY <1>3 DEF Finish, Told
  <2>4. answers' = [q \in DOMAIN answers' |-> answers'[q]] /\ window' \in [Visitors -> SUBSET Visitors]
    BY <1>3 DEF Finish, Told, Restrict
  <2>5. UNCHANGED <<present, staff, watching, whole, demoted>>
    BY <1>3 DEF Finish
  <2> QED
    BY <2>1, <2>2, <2>3, <2>4, <2>5
<1>4. ASSUME NEW p \in Visitors, Watch(p) PROVE ReportIInv'
  <2>1. Open' = Open /\ Open \subseteq Visitors
    BY <1>4 DEF Watch, Open
  <2> QED
    BY <1>4, <2>1 DEF Watch
<1>5. ASSUME NEW p \in Visitors, Unwatch(p) PROVE ReportIInv'
  BY <1>5 DEF Unwatch, Open
<1>6. ASSUME NEW p \in Visitors, Reattach(p) PROVE ReportIInv'
  BY <1>6 DEF Reattach, Open
<1>7. ASSUME NEW p \in Visitors, Regroup(p) PROVE ReportIInv'
  <2>1. ~demoted' => ~demoted /\ \A q \in DOMAIN answers : p \in staff => answers[q] # p
    BY <1>7 DEF Regroup, Range
  <2> QED
    BY <1>7, <2>1 DEF Regroup, Open
<1>8. ASSUME NEW p \in Visitors, Depart(p) PROVE ReportIInv'
  <2> DEFINE closed == {p} \cup (IF p \in staff THEN {q \in DOMAIN answers : answers[q] = p} ELSE {})
  <2>1. /\ DOMAIN answers' = DOMAIN answers \ closed
        /\ \A q \in DOMAIN answers \ closed :
             answers'[q] = IF answers[q] = p THEN Freed ELSE answers[q]
        /\ answers' = [q \in DOMAIN answers' |-> answers'[q]]
    BY <1>8 DEF Depart
  <2>2. \A q \in DOMAIN answers \ closed : answers[q] = p => demoted
    OBVIOUS
  <2>3. Open' = Open \ closed
    BY <2>1 DEF Open
  <2>4. /\ \A q \in watching' : window'[q] = window[q] \ closed
        /\ window' \in [Visitors -> SUBSET Visitors]
    BY <1>8 DEF Depart, Told
  <2>5. p \in closed
    OBVIOUS
  <2> HIDE DEF closed
  <2> QED
    BY <1>8, <2>1, <2>2, <2>3, <2>4, <2>5 DEF Depart
<1>9. ASSUME NEW p \in Visitors, NEW g \in Visitors, Process(g, p) PROVE ReportIInv'
  <2>1. Open' = Open \ {p}
    BY <1>9 DEF Process, Open
  <2>2. \A q \in watching : window'[q] = window[q] \ {p}
    BY <1>9 DEF Process, Told
  <2>3. window' \in [Visitors -> SUBSET Visitors]
    BY <1>9 DEF Process, Told
  <2>4. /\ DOMAIN answers' = DOMAIN answers
        /\ \A q \in DOMAIN answers : answers'[q] = IF q = p THEN g ELSE answers[q]
        /\ answers' = [q \in DOMAIN answers' |-> answers'[q]]
    <3>1. answers' = [q \in DOMAIN answers |-> IF q = p THEN g ELSE answers[q]]
      BY <1>9 DEF Process
    <3> HIDE DEF ReportIInv
    <3> QED
      BY ONLY <3>1
  <2>5. /\ g \in present \cap staff
        /\ UNCHANGED <<present, staff, watching, whole, demoted>>
    BY <1>9 DEF Process
  <2> QED
    BY <2>1, <2>2, <2>3, <2>4, <2>5
<1>10. CASE UNCHANGED reportVars
  BY <1>10 DEF reportVars, Open
<1> QED
  BY <1>1, <1>2, <1>3, <1>4, <1>5, <1>6, <1>7, <1>8, <1>9, <1>10 DEF ReportNext

(* A report belongs to a player in the world and, once it is in answer, to a
   gamemaster in the world, so that playerContinueReport and
   cancelRuleViolation send to no Player that was deleted; and who watches the
   channel of reports sees open reports only, and all of them. *)
THEOREM ReportsInHandHolds == ReportSpec => []ReportsInHand
<1>1. ReportIInv => ReportsInHand
  BY DEF ReportIInv
<1> QED
  BY ReportInitIInv, ReportStep, <1>1, PTL DEF ReportSpec
-------------------------------------------------------------------------------
(* Guilds *)

Ranks == {Rankless} \cup [guild : Guilds, level : {Member, Vice, Lord}]

GuildTypes ==
  /\ guilds \subseteq Guilds /\ ownerid = [g \in guilds |-> ownerid[g]]
  /\ rankid \in [Persons -> Ranks] /\ rank \in [Persons -> Ranks]
  /\ invites \in [Persons -> SUBSET Guilds] /\ invitations \in [Persons -> SUBSET Guilds]
  /\ online \subseteq Persons

(* There is no Player for who is not online. *)
OfflineHasNothing ==
  \A p \in Persons \ online : rank[p] = Rankless /\ invitations[p] = {}

GuildIInv == GuildTypes /\ OfflineHasNothing /\ NoGhostGuild /\ OwnerLeads

(* A rank is none, or has its guild and level. *)
LEMMA RankFacts ==
  /\ Rankless \in Ranks /\ Rankless.guild = NoGuild
  /\ \A g \in Guilds, l \in {Member, Vice, Lord} :
       /\ RankOf(g, l) \in Ranks /\ RankOf(g, l) # Rankless
       /\ RankOf(g, l).guild = g /\ RankOf(g, l).level = l
  /\ \A r \in Ranks : r # Rankless => r.guild \in Guilds /\ r = RankOf(r.guild, r.level)
  /\ Member # Lord /\ Vice # Lord
  BY GuildAssumption DEF Ranks, Rankless, RankOf, Member, Vice, Lord

LEMMA GuildInitIInv == GuildInit => GuildIInv
  BY RankFacts DEF GuildInit, GuildIInv, GuildTypes, OfflineHasNothing, NoGhostGuild,
     OwnerLeads, guilds

(* A save writes the rank and the invitations it is given as long as they are
   those of guilds that exist. *)
LEMMA SavedAsIs ==
  ASSUME NEW p \in Persons, NEW r \in Ranks, NEW l \in SUBSET guilds,
         r.guild \in guilds \cup {NoGuild}, guilds \subseteq Guilds, SavesPlayer(p, r, l)
  PROVE  rankid' = [rankid EXCEPT ![p] = r] /\ invites' = [invites EXCEPT ![p] = l]
<1>1. SavedRank(r) = r
  BY RankFacts, GuildAssumption DEF SavedRank
<1>2. SavedInvitations(l) = {l}
  BY DEF SavedInvitations
<1> QED
  BY <1>1, <1>2 DEF SavesPlayer, SavesRank

(* Logins, logouts and saves: the copy that is written says what the other
   said, so that nobody's standing changes. *)
LEMMA SavesKeep ==
  ASSUME GuildIInv, NEW p \in Persons,
         EnterWorld(p) \/ LeaveWorld(p) \/ SaveInWorld(p) \/ SaveVirtual(p)
  PROVE  /\ GuildTypes' /\ OfflineHasNothing' /\ NoGhostGuild'
         /\ UNCHANGED <<ownerid, lapsed, away>>
         /\ \A q \in Persons : Standing(q)' = Standing(q) /\ Invited(q)' = Invited(q)
<1> USE RankFacts DEF GuildIInv, GuildTypes, OfflineHasNothing, NoGhostGuild, guilds,
      Standing, Invited, LoadedInvitations, memory, database, histories
<1>1. CASE EnterWorld(p)
  BY <1>1 DEF EnterWorld
<1>2. CASE LeaveWorld(p)
  <2>1. rankid' = [rankid EXCEPT ![p] = rank[p]] /\ invites' = [invites EXCEPT ![p] = invitations[p]]
    BY <1>2, SavedAsIs DEF LeaveWorld, Disappears
  <2>2. /\ online' = online \ {p} /\ rank' = [rank EXCEPT ![p] = Rankless]
        /\ invitations' = [invitations EXCEPT ![p] = {}]
        /\ p \in online /\ UNCHANGED <<ownerid, lapsed, away>>
    BY <1>2 DEF LeaveWorld, Disappears
  <2>3. /\ Standing(p)' = Standing(p)
        /\ rank[p] # Rankless => invitations[p] = {}
    BY <2>1, <2>2
  <2>4. Invited(p)' = Invited(p)
    BY <2>1, <2>2, <2>3
  <2>5. \A q \in Persons \ {p} : Standing(q)' = Standing(q) /\ Invited(q)' = Invited(q)
    BY <2>1, <2>2
  <2>6. GuildTypes' /\ OfflineHasNothing'
    BY <2>1, <2>2
  <2>7. NoGhostGuild'
    BY <2>1, <2>2
  <2>8. \A q \in Persons : Standing(q)' = Standing(q) /\ Invited(q)' = Invited(q)
    BY <2>3, <2>4, <2>5
  <2> QED
    BY ONLY <2>2, <2>6, <2>7, <2>8
<1>3. CASE SaveInWorld(p)
  <2>1. /\ rankid' = [rankid EXCEPT ![p] = rank[p]]
        /\ invites' = [invites EXCEPT ![p] = invitations[p]] \/ UNCHANGED invites
    <3>1. CASE SavesPlayer(p, rank[p], invitations[p])
      BY <3>1, SavedAsIs
    <3>2. CASE SavesRank(p, rank[p]) /\ UNCHANGED invites
      BY <3>2, GuildAssumption DEF SavesRank, SavedRank
    <3> QED
      BY <1>3, <3>1, <3>2 DEF SaveInWorld
  <2>2. p \in online /\ UNCHANGED <<ownerid, online, rank, invitations, lapsed, away>>
    BY <1>3 DEF SaveInWorld
  <2> QED
    BY <2>1, <2>2
<1>4. CASE SaveVirtual(p)
  <2>1. rankid' = [rankid EXCEPT ![p] = rankid[p]]
        /\ invites' = [invites EXCEPT ![p] = LoadedInvitations(p)]
    BY <1>4, SavedAsIs DEF SaveVirtual
  <2> QED
    BY <1>4, <2>1 DEF SaveVirtual
<1> QED
  BY <1>1, <1>2, <1>3, <1>4

(* A logout that is not saved: the player is what the database says. *)
LEMMA UnsavedKeeps ==
  ASSUME GuildIInv, NEW p \in Persons, LeaveWorldUnsaved(p)
  PROVE  /\ GuildTypes' /\ OfflineHasNothing' /\ NoGhostGuild'
         /\ UNCHANGED <<ownerid, away>> /\ lapsed' = lapsed \cup Forgotten({p}) /\ p \in online
         /\ \A q \in Persons \ {p} : Standing(q)' = Standing(q) /\ Invited(q)' = Invited(q)
         /\ Standing(p)' = rankid[p] /\ Invited(p)' = LoadedInvitations(p)
<1>1. /\ online' = online \ {p} /\ rank' = [rank EXCEPT ![p] = Rankless]
      /\ invitations' = [invitations EXCEPT ![p] = {}]
      /\ p \in online /\ lapsed' = lapsed \cup Forgotten({p})
      /\ UNCHANGED <<ownerid, rankid, invites, away>>
  BY DEF LeaveWorldUnsaved, Disappears, database
<1>2. GuildTypes' /\ OfflineHasNothing' /\ NoGhostGuild'
  BY <1>1, RankFacts DEF GuildIInv, GuildTypes, OfflineHasNothing, NoGhostGuild, guilds
<1>3. /\ \A q \in Persons \ {p} : Standing(q)' = Standing(q) /\ Invited(q)' = Invited(q)
      /\ Standing(p)' = rankid[p] /\ Invited(p)' = LoadedInvitations(p)
  BY <1>1 DEF GuildIInv, GuildTypes, Standing, Invited, LoadedInvitations
<1> QED
  BY <1>1, <1>2, <1>3

(* OwnerLeads, as it is used: of each guild, one guild at a time. *)
LeadBy(g, x) == /\ \A q \in Persons : Standing(q) = RankOf(g, Lord) <=> q = x
                /\ g \notin away => x = ownerid[g]

LEMMA OwnerLeadsMeans ==
  ASSUME GuildTypes
  PROVE  OwnerLeads <=> \A g \in guilds \ lapsed : \E x \in Persons : LeadBy(g, x)
<1>1. ASSUME NEW g, NEW x \in Persons
      PROVE  LeadBy(g, x) <=> /\ {q \in Persons : Standing(q) = RankOf(g, Lord)} = {x}
                              /\ g \notin away => x = ownerid[g]
  BY DEF LeadBy
<1>2. ASSUME OwnerLeads, NEW g \in guilds \ lapsed
      PROVE  \E x \in Persons : LeadBy(g, x)
  <2>1. PICK x \in Persons : /\ {q \in Persons : Standing(q) = RankOf(g, Lord)} = {x}
                             /\ g \notin away => x = ownerid[g]
    BY <1>2 DEF OwnerLeads
  <2> QED
    BY <2>1, <1>1
<1>3. ASSUME NEW g \in guilds \ lapsed, NEW x \in Persons, LeadBy(g, x)
      PROVE  \E p \in Persons : /\ {q \in Persons : Standing(q) = RankOf(g, Lord)} = {p}
                                /\ g \notin away => p = ownerid[g]
  BY <1>1, <1>3
<1> QED
  BY <1>2, <1>3 DEF OwnerLeads

LEMMA OwnersLead ==
  ASSUME GuildTypes', \A g \in guilds' \ lapsed' : \E x \in Persons : LeadBy(g, x)'
  PROVE  OwnerLeads'
<1>1. ASSUME NEW g, NEW x \in Persons
      PROVE  LeadBy(g, x)' <=> /\ {q \in Persons : Standing(q)' = RankOf(g, Lord)} = {x}
                               /\ g \notin away' => x = ownerid'[g]
  BY DEF LeadBy
<1> QED
  BY <1>1 DEF OwnerLeads

(* As long as nobody comes to lead a guild or stops leading it, its owner
   leads it. *)
LEMMA OwnerStays ==
  ASSUME OwnerLeads, GuildTypes, GuildTypes', UNCHANGED <<ownerid, away>>, lapsed \subseteq lapsed',
         \A g \in guilds \ lapsed' : \A q \in Persons :
           Standing(q)' = RankOf(g, Lord) <=> Standing(q) = RankOf(g, Lord)
  PROVE  OwnerLeads'
<1>1. ASSUME NEW g \in guilds \ lapsed' PROVE \E x \in Persons : LeadBy(g, x)'
  <2>1. PICK x \in Persons : LeadBy(g, x)
    BY OwnerLeadsMeans
  <2>2. LeadBy(g, x)'
    BY <2>1 DEF LeadBy
  <2> QED
    BY <2>2
<1>2. guilds' = guilds
  BY DEF guilds
<1> QED
  BY <1>1, <1>2, OwnersLead

(* A command to one member writes the rank where it is kept. *)
LEMMA SetRankDoes ==
  ASSUME GuildTypes, NEW q \in Persons, NEW r \in Ranks, SetRank(q, r), UNCHANGED online
  PROVE  /\ rank' \in [Persons -> Ranks] /\ rankid' \in [Persons -> Ranks]
         /\ \A p \in Persons :
              /\ Standing(p)' = IF p = q THEN r ELSE Standing(p)
              /\ {rank'[p], rankid'[p]} \subseteq {rank[p], rankid[p], r}
              /\ p \notin online => rank'[p] = rank[p]
              /\ rank[p] = Rankless /\ rank'[p] # Rankless => p = q /\ p \in online
  BY DEF GuildTypes, SetRank, Standing

LEMMA GuildStep == GuildIInv /\ [GuildNext]_guildVars => GuildIInv'
<1> SUFFICES ASSUME GuildIInv, [GuildNext]_guildVars PROVE GuildIInv'
  OBVIOUS
<1> USE RankFacts, GuildAssumption DEF GuildIInv, database, memory, histories
<1>1. ASSUME NEW p \in Persons,
             EnterWorld(p) \/ LeaveWorld(p) \/ SaveInWorld(p) \/ SaveVirtual(p)
      PROVE  GuildIInv'
  <2>1. /\ GuildTypes' /\ OfflineHasNothing' /\ NoGhostGuild'
        /\ UNCHANGED <<ownerid, lapsed, away>>
        /\ \A q \in Persons : Standing(q)' = Standing(q)
    BY <1>1, SavesKeep
  <2> QED
    BY <2>1, OwnerStays
<1>14. ASSUME NEW p \in Persons, LeaveWorldUnsaved(p) PROVE GuildIInv'
  <2>1. /\ GuildTypes' /\ OfflineHasNothing' /\ NoGhostGuild'
        /\ UNCHANGED <<ownerid, away>> /\ lapsed' = lapsed \cup Forgotten({p}) /\ p \in online
        /\ \A q \in Persons \ {p} : Standing(q)' = Standing(q)
        /\ Standing(p)' = rankid[p]
    BY <1>14, UnsavedKeeps
  <2>2. \A k \in guilds \ lapsed', x \in Persons :
          Standing(x)' = RankOf(k, Lord) <=> Standing(x) = RankOf(k, Lord)
    <3>1. ASSUME NEW k \in guilds, k \notin lapsed'
          PROVE  rankid[p] = RankOf(k, Lord) <=> rank[p] = RankOf(k, Lord)
      BY <2>1, <3>1 DEF Forgotten
    <3>2. Standing(p) = rank[p]
      BY <2>1 DEF Standing
    <3> QED
      BY <2>1, <3>1, <3>2
  <2> QED
    BY <2>1, <2>2, OwnerStays
<1>2. ASSUME NEW p \in Persons, NEW g \in Guilds, FoundGuild(p, g) PROVE GuildIInv'
  <2>1. PICK h \in guilds \cup {g} :
          /\ ownerid'[h] = p
          /\ rankid' = [rankid EXCEPT ![p] = RankOf(h, Lord)]
          /\ rank' = [rank EXCEPT ![p] = RankOf(h, Lord)]
          /\ lapsed' = IF h = g THEN lapsed \ {g} ELSE lapsed \cup {g, h}
    BY <1>2 DEF FoundGuild
  <2>2. /\ p \in online /\ rank[p] = Rankless /\ g \in Guilds \ guilds
        /\ ownerid' = [k \in guilds \cup {g} |-> IF k = g THEN p ELSE ownerid[k]]
        /\ invitations' = [invitations EXCEPT ![p] = {}] /\ away' = away \ {g}
        /\ UNCHANGED <<invites, online>>
    BY <1>2 DEF FoundGuild
  <2>3. /\ guilds' = guilds \cup {g} /\ ownerid'[g] = p
        /\ \A k \in guilds : ownerid'[k] = ownerid[k]
        /\ ownerid' = [k \in guilds' |-> ownerid'[k]]
    BY <2>2 DEF guilds
  <2>4. GuildTypes' /\ OfflineHasNothing'
    BY <2>1, <2>2, <2>3 DEF GuildTypes, OfflineHasNothing
  <2>5. NoGhostGuild'
    BY <2>1, <2>2, <2>3 DEF GuildTypes, NoGhostGuild
  <2>6. \A q \in Persons : Standing(q)' = IF q = p THEN RankOf(h, Lord) ELSE Standing(q)
    BY <2>1, <2>2 DEF Standing, GuildTypes
  <2>7. ASSUME NEW k \in guilds' \ lapsed' PROVE \E x \in Persons : LeadBy(k, x)'
    <3>1. CASE k = g
      <4>1. h = g
        BY <2>1, <3>1
      <4>2. \A q \in Persons : Standing(q) # RankOf(g, Lord)
        BY <2>2 DEF Standing, NoGhostGuild
      <4>3. LeadBy(k, p)'
        BY <2>2, <2>3, <2>6, <3>1, <4>1, <4>2 DEF LeadBy
      <4> QED
        BY <4>3
    <3>2. CASE k # g
      <4>1. k \in guilds \ lapsed /\ k # h
        BY <2>1, <2>3, <3>2
      <4>2. PICK x \in Persons : LeadBy(k, x)
        BY <4>1, OwnerLeadsMeans
      <4>3. Standing(p) # RankOf(k, Lord) /\ RankOf(h, Lord) # RankOf(k, Lord)
        <5>1. k \in Guilds /\ h \in Guilds
          BY <4>1, <2>2 DEF GuildTypes
        <5> QED
          BY <2>2, <4>1, <5>1 DEF Standing
      <4>4. k \notin away' => k \notin away
        BY <2>2, <3>2
      <4>5. LeadBy(k, x)'
        BY <2>3, <2>6, <4>1, <4>2, <4>3, <4>4 DEF LeadBy
      <4> QED
        BY <4>5
    <3> QED
      BY <3>1, <3>2
  <2> QED
    BY <2>4, <2>5, <2>7, OwnersLead
<1>3. ASSUME NEW p \in Persons, NEW g \in Guilds, JoinGuild(p, g) PROVE GuildIInv'
  <2>1. /\ p \in online /\ rank[p] = Rankless /\ g \in guilds
        /\ rankid' = [rankid EXCEPT ![p] = RankOf(g, Member)]
        /\ rank' = [rank EXCEPT ![p] = RankOf(g, Member)]
        /\ invitations' = [invitations EXCEPT ![p] = {}]
        /\ UNCHANGED <<ownerid, invites, online, lapsed, away>>
    BY <1>3 DEF JoinGuild
  <2>2. GuildTypes' /\ OfflineHasNothing' /\ NoGhostGuild'
    BY <2>1 DEF GuildTypes, OfflineHasNothing, NoGhostGuild, guilds
  <2>3. /\ \A q \in Persons \ {p} : Standing(q)' = Standing(q)
        /\ Standing(p)' = RankOf(g, Member) /\ Standing(p) = Rankless
    BY <2>1 DEF Standing, GuildTypes
  <2>4. \A k \in guilds : k \in Guilds
    BY DEF GuildTypes
  <2>5. \A k \in guilds, q \in Persons :
          Standing(q)' = RankOf(k, Lord) <=> Standing(q) = RankOf(k, Lord)
    BY <2>3, <2>4
  <2> QED
    BY <2>1, <2>2, <2>5, OwnerStays
<1>4. ASSUME NEW p \in Persons, LeaveGuild(p) \/ RookGuild(p) PROVE GuildIInv'
  <2>1. /\ p \in online /\ rank' = [rank EXCEPT ![p] = Rankless]
        /\ lapsed \subseteq lapsed'
        /\ rank[p].level = Lord => rank[p].guild \in lapsed'
        /\ UNCHANGED <<ownerid, rankid, invites, online, invitations, away>>
    BY <1>4 DEF LeaveGuild, RookGuild, Lord
  <2>2. GuildTypes' /\ OfflineHasNothing' /\ NoGhostGuild'
    BY <2>1 DEF GuildTypes, OfflineHasNothing, NoGhostGuild, guilds
  <2>3. /\ \A q \in Persons \ {p} : Standing(q)' = Standing(q)
        /\ Standing(p)' = Rankless /\ Standing(p) = rank[p]
    BY <2>1 DEF Standing, GuildTypes
  <2>4. \A k \in guilds : k \in Guilds
    BY DEF GuildTypes
  <2>5. \A k \in guilds \ lapsed', q \in Persons :
          Standing(q)' = RankOf(k, Lord) <=> Standing(q) = RankOf(k, Lord)
    BY <2>1, <2>3, <2>4
  <2> QED
    BY <2>1, <2>2, <2>5, OwnerStays
<1>5. ASSUME NEW p \in Persons, NEW g \in Guilds, DisbandGuild(p, g) PROVE GuildIInv'
  <2>1. /\ rankid' = [q \in Persons |-> IF rankid[q].guild = g THEN Rankless ELSE rankid[q]]
        /\ rank' = [q \in Persons |-> IF rank[q].guild = g THEN Rankless ELSE rank[q]]
        /\ invitations' = [q \in Persons |->
             IF rank[q].guild = g THEN invitations[q] ELSE invitations[q] \ {g}]
        /\ invites' = [q \in Persons |-> invites[q] \ {g}]
        /\ lapsed' = lapsed \ {g} /\ away' = away \ {g} /\ UNCHANGED online
    BY <1>5 DEF DisbandGuild
  <2>2. /\ guilds' = guilds \ {g} /\ \A k \in guilds' : ownerid'[k] = ownerid[k]
        /\ ownerid' = [k \in guilds' |-> ownerid'[k]]
    BY <1>5 DEF DisbandGuild, Restrict, guilds
  <2>3. GuildTypes' /\ OfflineHasNothing'
    BY <2>1, <2>2 DEF GuildTypes, OfflineHasNothing
  <2>4. NoGhostGuild'
    <3> SUFFICES ASSUME NEW q \in Persons
        PROVE  /\ {rank'[q].guild, rankid'[q].guild} \subseteq guilds' \cup {NoGuild}
               /\ invitations'[q] \cup invites'[q] \subseteq guilds'
               /\ rank'[q] # Rankless => invitations'[q] = {}
      BY DEF NoGhostGuild
    <3>1. rank[q].guild = g => invitations[q] = {}
      BY DEF NoGhostGuild
    <3> QED
      BY <2>1, <2>2, <3>1 DEF NoGhostGuild
  <2>5. \A q \in Persons :
          Standing(q)' = IF Standing(q).guild = g THEN Rankless ELSE Standing(q)
    BY <2>1 DEF Standing
  <2>6. ASSUME NEW k \in guilds' \ lapsed' PROVE \E x \in Persons : LeadBy(k, x)'
    <3>1. k \in guilds \ lapsed /\ k # g /\ k \in Guilds
      BY <2>1, <2>2 DEF GuildTypes
    <3>2. PICK x \in Persons : LeadBy(k, x)
      BY <3>1, OwnerLeadsMeans
    <3>3. k \notin away' => k \notin away
      BY <2>1, <3>1
    <3>4. LeadBy(k, x)'
      BY <2>2, <2>5, <3>1, <3>2, <3>3 DEF LeadBy
    <3> QED
      BY <3>4
  <2> QED
    BY <2>3, <2>4, <2>6, OwnersLead
<1>6. ASSUME NEW p \in Persons, NEW q \in Persons, NEW g \in Guilds,
             InviteToGuild(p, q, g) \/ RevokeFromGuild(p, q, g)
      PROVE  GuildIInv'
  <2>1. g \in guilds /\ UNCHANGED <<ownerid, rankid, online, rank, lapsed, away>>
    BY <1>6 DEF InviteToGuild, RevokeFromGuild, Commands
  <2>2. GuildTypes' /\ OfflineHasNothing' /\ NoGhostGuild'
    <3>1. /\ invitations' \in [Persons -> SUBSET Guilds] /\ invites' \in [Persons -> SUBSET Guilds]
          /\ \A x \in Persons :
               /\ invitations'[x] \subseteq invitations[x] \cup {g}
               /\ invites'[x] \subseteq invites[x] \cup {g}
               /\ invitations'[x] # invitations[x] => x = q /\ q \in online /\ rank[q] = Rankless
      <4>1. CASE q \in online
        BY <1>6, <4>1 DEF InviteToGuild, RevokeFromGuild, GuildTypes
      <4>2. CASE q \notin online
        BY <1>6, <4>2 DEF InviteToGuild, RevokeFromGuild, GuildTypes
      <4> QED
        BY <4>1, <4>2
    <3> QED
      BY <2>1, <3>1 DEF GuildTypes, OfflineHasNothing, NoGhostGuild, guilds
  <2>3. \A x \in Persons : Standing(x)' = Standing(x)
    BY <2>1 DEF Standing
  <2> QED
    BY <2>1, <2>2, <2>3, OwnerStays
<1>7. ASSUME NEW p \in Persons, NEW q \in Persons, NEW g \in Guilds, NEW r \in Ranks,
             g \in guilds, SetRank(q, r), r # RankOf(g, Lord), Standing(q).guild = g,
             r.guild \in {g, NoGuild}, Standing(q) # RankOf(g, Lord) \/ g \in lapsed,
             UNCHANGED <<ownerid, invites, online, invitations, lapsed, away>>
      PROVE  GuildIInv'
  <2>1. GuildTypes' /\ OfflineHasNothing'
    BY <1>7, SetRankDoes DEF GuildTypes, OfflineHasNothing, guilds
  <2>2. NoGhostGuild'
    <3>1. q \in online => rank[q] # Rankless
      BY <1>7 DEF Standing
    <3> QED
      BY <1>7, <3>1, SetRankDoes DEF NoGhostGuild, guilds
  <2>3. \A k \in guilds \ lapsed', x \in Persons :
          Standing(x)' = RankOf(k, Lord) <=> Standing(x) = RankOf(k, Lord)
    <3>1. ASSUME NEW k \in guilds, k \notin lapsed
          PROVE  r # RankOf(k, Lord) /\ Standing(q) # RankOf(k, Lord)
      BY <1>7, <3>1 DEF GuildTypes
    <3> QED
      BY <1>7, <3>1, SetRankDoes
  <2> QED
    BY <1>7, <2>1, <2>2, <2>3, OwnerStays
<1>8. ASSUME NEW p \in Persons, NEW q \in Persons, NEW g \in Guilds,
             NEW from \in {Member, Vice}, NEW to \in {Member, Vice},
             ChangeLevel(p, q, g, from, to)
      PROVE  GuildIInv'
  <2>1. /\ g \in guilds /\ SetRank(q, RankOf(g, to)) /\ Standing(q) = RankOf(g, from)
        /\ UNCHANGED <<ownerid, invites, online, invitations, lapsed, away>>
    BY <1>8 DEF ChangeLevel, Commands
  <2>2. /\ RankOf(g, to) # RankOf(g, Lord) /\ RankOf(g, from) # RankOf(g, Lord)
        /\ RankOf(g, to).guild = g /\ RankOf(g, from).guild = g /\ RankOf(g, to) \in Ranks
    OBVIOUS
  <2> QED
    BY <1>7, <2>1, <2>2
<1>9. ASSUME NEW p \in Persons, NEW q \in Persons, NEW g \in Guilds, KickFromGuild(p, q, g)
      PROVE  GuildIInv'
  <2>1. /\ p \in online /\ g \in guilds /\ Standing(q).guild = g /\ SetRank(q, Rankless)
        /\ rank[p].guild = g /\ rank[p].level >= Lord
        /\ q \in online => Standing(q).level < Lord
        /\ UNCHANGED <<ownerid, invites, online, invitations, lapsed, away>>
    BY <1>9 DEF KickFromGuild, Commands
  <2>2. Standing(q) # RankOf(g, Lord) \/ g \in lapsed
    <3> SUFFICES ASSUME Standing(q) = RankOf(g, Lord), g \notin lapsed PROVE FALSE
      OBVIOUS
    <3>1. q \notin online
      BY <2>1 DEF Lord
    <3>2. Standing(p) = RankOf(g, Lord)
      BY <2>1 DEF Standing, GuildTypes, Ranks, Member, Vice, Lord, RankOf, Rankless
    <3>3. PICK x \in Persons : LeadBy(g, x)
      BY <2>1, OwnerLeadsMeans
    <3> QED
      BY <2>1, <3>1, <3>2, <3>3 DEF LeadBy
  <2>3. Rankless # RankOf(g, Lord)
    OBVIOUS
  <2> QED
    BY <1>7, <2>1, <2>2, <2>3
<1>10. ASSUME NEW p \in Persons, NEW q \in Persons, NEW g \in Guilds, PassGuild(p, q, g)
       PROVE  GuildIInv'
  <2>1. /\ p \in online /\ q \in online /\ g \in guilds /\ guilds' = guilds
        /\ rank[p].guild = g /\ rank[p].level >= Lord /\ rank[q] = RankOf(g, Vice)
        /\ rank' = [rank EXCEPT ![p] = RankOf(g, Vice), ![q] = RankOf(g, Lord)]
        /\ ownerid' = [ownerid EXCEPT ![g] = q] /\ away' = away \ {g}
        /\ UNCHANGED <<rankid, invites, online, invitations, lapsed>>
    BY <1>10 DEF PassGuild, Commands
  <2>2. rank[p] = RankOf(g, Lord) /\ p # q
    BY <2>1 DEF GuildTypes, Ranks, Member, Vice, Lord, RankOf, Rankless
  <2>3. /\ ownerid' = [k \in guilds' |-> ownerid'[k]] /\ ownerid'[g] = q
        /\ \A k \in guilds \ {g} : ownerid'[k] = ownerid[k]
    BY <2>1 DEF guilds
  <2>4. GuildTypes' /\ OfflineHasNothing'
    BY <2>1, <2>3 DEF GuildTypes, OfflineHasNothing
  <2>5. NoGhostGuild'
    BY <2>1, <2>2 DEF NoGhostGuild, GuildTypes
  <2>6. ASSUME NEW k \in guilds' \ lapsed' PROVE \E x \in Persons : LeadBy(k, x)'
    <3>1. PICK x \in Persons : LeadBy(k, x)
      BY <2>1, OwnerLeadsMeans
    <3>2. /\ Standing(p)' = RankOf(g, Vice) /\ Standing(q)' = RankOf(g, Lord)
          /\ Standing(p) = RankOf(g, Lord) /\ Standing(q) = RankOf(g, Vice)
          /\ \A y \in Persons \ {p, q} : Standing(y)' = Standing(y)
      BY <2>1, <2>2 DEF Standing, GuildTypes
    <3>3. CASE k = g
      <4>1. LeadBy(k, q)'
        BY <2>2, <2>3, <3>1, <3>2, <3>3 DEF LeadBy
      <4> QED
        BY <4>1
    <3>4. CASE k # g
      <4>1. \A l \in {Member, Vice, Lord} : RankOf(g, l) # RankOf(k, Lord)
        BY <3>4, <2>1 DEF GuildTypes
      <4>2. k \notin away' => k \notin away /\ ownerid'[k] = ownerid[k]
        BY <2>1, <2>3, <3>4
      <4>3. LeadBy(k, x)'
        BY <3>1, <3>2, <3>4, <4>1, <4>2 DEF LeadBy
      <4> QED
        BY <4>3
    <3> QED
      BY <3>3, <3>4
  <2> QED
    BY <2>4, <2>5, <2>6, OwnersLead
<1>11. ASSUME NEW p \in Persons, NEW q \in Persons, NEW g \in Guilds, PassGuildAway(p, q, g)
       PROVE  GuildIInv'
  <2>1. /\ p \in online /\ q \notin online /\ p # q /\ g \in guilds /\ guilds' = guilds
        /\ rank[p] = RankOf(g, Lord) /\ rankid[q] = RankOf(g, Vice)
        /\ rankid' = [rankid EXCEPT ![q] = RankOf(g, Lord)]
        /\ rank' = [rank EXCEPT ![p] = RankOf(g, Vice)] /\ away' = away \cup {g}
        /\ UNCHANGED <<ownerid, invites, online, invitations, lapsed>>
    BY <1>11 DEF PassGuildAway, Commands, guilds, GuildTypes, Ranks, Member, Vice, Lord, RankOf,
       Rankless
  <2>2. GuildTypes' /\ OfflineHasNothing' /\ NoGhostGuild'
    BY <2>1 DEF GuildTypes, OfflineHasNothing, NoGhostGuild, guilds
  <2>3. ASSUME NEW k \in guilds' \ lapsed' PROVE \E x \in Persons : LeadBy(k, x)'
    <3>1. PICK x \in Persons : LeadBy(k, x)
      BY <2>1, OwnerLeadsMeans
    <3>2. /\ Standing(p)' = RankOf(g, Vice) /\ Standing(q)' = RankOf(g, Lord)
          /\ Standing(p) = RankOf(g, Lord) /\ Standing(q) = RankOf(g, Vice)
          /\ \A y \in Persons \ {p, q} : Standing(y)' = Standing(y)
      BY <2>1 DEF Standing, GuildTypes
    <3>3. CASE k = g
      <4>1. LeadBy(k, q)'
        BY <2>1, <3>1, <3>2, <3>3 DEF LeadBy
      <4> QED
        BY <4>1
    <3>4. CASE k # g
      <4>1. \A l \in {Member, Vice, Lord} : RankOf(g, l) # RankOf(k, Lord)
        BY <3>4, <2>1 DEF GuildTypes
      <4>2. k \notin away' => k \notin away /\ ownerid'[k] = ownerid[k]
        BY <2>1, <3>4
      <4>3. LeadBy(k, x)'
        BY <3>1, <3>2, <3>4, <4>1, <4>2 DEF LeadBy
      <4> QED
        BY <4>3
    <3> QED
      BY <3>3, <3>4
  <2> QED
    BY <2>2, <2>3, OwnersLead
<1>12. CASE GuildCrash
  <2>1. /\ online' = {} /\ rank' = [p \in Persons |-> Rankless]
        /\ invitations' = [p \in Persons |-> {}]
        /\ lapsed' = lapsed \cup Forgotten(online)
        /\ UNCHANGED <<ownerid, rankid, invites, away>>
    BY <1>12 DEF GuildCrash
  <2>2. GuildTypes' /\ OfflineHasNothing' /\ NoGhostGuild'
    BY <2>1 DEF GuildTypes, OfflineHasNothing, NoGhostGuild, guilds
  <2>3. ASSUME NEW k \in guilds \ lapsed', NEW x \in Persons
        PROVE  Standing(x)' = RankOf(k, Lord) <=> Standing(x) = RankOf(k, Lord)
    <3>1. x \in online => (rank[x] = RankOf(k, Lord) <=> rankid[x] = RankOf(k, Lord))
      BY <2>1 DEF Forgotten
    <3>2. Standing(x)' = rankid[x]
      BY <2>1 DEF Standing
    <3> QED
      BY <3>1, <3>2 DEF Standing
  <2> QED
    BY <2>1, <2>2, <2>3, OwnerStays
<1>13. CASE UNCHANGED guildVars
  BY <1>13 DEF guildVars, GuildTypes, OfflineHasNothing, NoGhostGuild, OwnerLeads, guilds, Standing
<1> QED
  BY <1>1, <1>14, <1>2, <1>3, <1>4, <1>5, <1>6, <1>8, <1>9, <1>10, <1>11, <1>12, <1>13 DEF GuildNext

LEMMA GuildInvariant == GuildSpec => []GuildIInv
  BY GuildInitIInv, GuildStep, PTL DEF GuildSpec

(* No rank and no invitation, of who is online or in the database, is of a
   guild that was disbanded, and who is in a guild is invited to none. *)
THEOREM NoGhostGuildHolds == GuildSpec => []NoGhostGuild
<1>1. GuildIInv => NoGhostGuild
  BY DEF GuildIInv
<1> QED
  BY GuildInvariant, <1>1, PTL

(* A guild has one leader, who is its owner unless the leader was chosen offline,
   through every command, login, logout and save, saved or not, of any number of
   players and guilds, until it has lapsed. *)
THEOREM OwnerLeadsHolds == GuildSpec => []OwnerLeads
<1>1. GuildIInv => OwnerLeads
  BY DEF GuildIInv
<1> QED
  BY GuildInvariant, <1>1, PTL

(* An action property: a login, a logout that is saved, a save of who is in the
   game and a save of a Player that is only made to be changed alter nobody's
   rank and nobody's invitations; a logout that is not saved gives the player
   the rank and the invitations of the database, both of them, and alters
   nobody else's. *)
THEOREM StandingKeptHolds == GuildSpec => StandingKept
<1>1. GuildIInv =>
        [\A p \in Persons :
           /\ EnterWorld(p) \/ LeaveWorld(p) \/ SaveInWorld(p) \/ SaveVirtual(p) =>
                \A q \in Persons : Standing(q)' = Standing(q) /\ Invited(q)' = Invited(q)
           /\ LeaveWorldUnsaved(p) =>
                /\ \A q \in Persons \ {p} : Standing(q)' = Standing(q) /\ Invited(q)' = Invited(q)
                /\ Standing(p)' = rankid[p] /\ Invited(p)' = LoadedInvitations(p)]_guildVars
  BY SavesKeep, UnsavedKeeps
<1> QED
  BY GuildInvariant, <1>1, PTL DEF StandingKept
-------------------------------------------------------------------------------
(* Casts *)

ScreenFields ==
  [over : BOOLEAN, player : Heroes \cup {NoHero}, old : Heroes \cup {NoHero},
   spectator : BOOLEAN, visits : BOOLEAN]
HeroFields ==
  [online : BOOLEAN, refs : Int, owner : Screens \cup {NoScreen},
   protocol : Screens \cup {NoScreen}, watchers : SUBSET Screens, live : BOOLEAN,
   visiting : BOOLEAN]

Plays(S, h) == {s \in Screens : S[s].player = h}
Awaits(S, h) == {s \in Screens : S[s].visits /\ ~S[s].over /\ S[s].old = h}
Holders(S, H, h) ==
  Cardinality(Plays(S, h)) + Cardinality(Awaits(S, h)) + IF H[h].online THEN 1 ELSE 0

(* What holds of screens S and players H, those that are to be deleted
   included: a protocol that is over drives nobody, and who is in the game was
   made for a protocol. *)
InOrder(S, H) ==
  /\ S \in [Screens -> ScreenFields] /\ H \in [Heroes -> HeroFields]
  /\ \A s \in Screens : S[s].over => S[s].player = NoHero
  /\ \A h \in Heroes : H[h].online => H[h].protocol \in Screens
  /\ \A h \in Heroes : H[h].refs >= Holders(S, H, h)

CastIInv == InOrder(screen, hero)

LEMMA HoldersCounted ==
  ASSUME NEW S, NEW h
  PROVE  /\ IsFiniteSet(Plays(S, h)) /\ Cardinality(Plays(S, h)) \in Nat
         /\ IsFiniteSet(Awaits(S, h)) /\ Cardinality(Awaits(S, h)) \in Nat
<1>1. Plays(S, h) \subseteq Screens /\ Awaits(S, h) \subseteq Screens
  BY DEF Plays, Awaits
<1> QED
  BY <1>1, FS_Subset, FS_CardinalityType, CastingAssumption

(* Sizes of sets that differ by one element at most. *)
LEMMA Sizes ==
  ASSUME NEW A, NEW B, IsFiniteSet(B)
  PROVE  /\ A \subseteq B => Cardinality(A) <= Cardinality(B)
         /\ \A s : A \subseteq B \cup {s} => Cardinality(A) <= Cardinality(B) + 1
         /\ \A s \in B : A \subseteq B \ {s} => Cardinality(A) <= Cardinality(B) - 1
<1>1. A \subseteq B => Cardinality(A) <= Cardinality(B)
  BY FS_Subset
<1>2. ASSUME NEW s, A \subseteq B \cup {s} PROVE Cardinality(A) <= Cardinality(B) + 1
  <2>1. /\ IsFiniteSet(B \cup {s}) /\ Cardinality(B) \in Nat
        /\ Cardinality(B \cup {s}) \in {Cardinality(B), Cardinality(B) + 1}
    BY FS_AddElement, FS_CardinalityType
  <2>2. Cardinality(A) \in Nat /\ Cardinality(A) <= Cardinality(B \cup {s})
    BY <1>2, <2>1, FS_Subset, FS_CardinalityType
  <2> QED
    BY <2>1, <2>2
<1>3. ASSUME NEW s \in B, A \subseteq B \ {s} PROVE Cardinality(A) <= Cardinality(B) - 1
  <2>1. /\ IsFiniteSet(B \ {s}) /\ Cardinality(B \ {s}) = Cardinality(B) - 1
    BY FS_RemoveElement
  <2> QED
    BY <1>3, <2>1, FS_Subset
<1> QED
  BY <1>1, <1>2, <1>3

(* Deleting the players without a reference deletes nobody who is held. *)
LEMMA CountedKeeps ==
  ASSUME NEW S, NEW H, InOrder(S, H), Counted(S, H)
  PROVE  CastIInv'
<1>1. /\ screen' = S
      /\ hero' = [h \in Heroes |-> IF H[h].refs = 0 THEN Unmade ELSE H[h]]
  BY DEF Counted
<1>2. Unmade \in HeroFields /\ ~Unmade.online /\ Unmade.refs = 0
  BY DEF Unmade, HeroFields
<1>3. \A h \in Heroes : Holders(S, H, h) \in Nat /\ (H[h].refs = 0 => Holders(S, hero', h) = 0)
  <2> SUFFICES ASSUME NEW h \in Heroes
      PROVE Holders(S, H, h) \in Nat /\ (H[h].refs = 0 => Holders(S, hero', h) = 0)
    OBVIOUS
  <2>1. /\ Cardinality(Plays(S, h)) \in Nat /\ Cardinality(Awaits(S, h)) \in Nat
    BY HoldersCounted
  <2> QED
    BY <1>1, <1>2, <2>1 DEF InOrder, Holders, HeroFields
<1>4. \A h \in Heroes : hero'[h].refs >= Holders(S, hero', h)
  BY <1>1, <1>2, <1>3 DEF InOrder, Holders
<1>5. hero' \in [Heroes -> HeroFields]
  BY <1>1, <1>2 DEF InOrder
<1>6. \A h \in Heroes : hero'[h].online => hero'[h].protocol \in Screens
  BY <1>1, <1>2 DEF InOrder
<1> QED
  BY <1>1, <1>4, <1>5, <1>6 DEF CastIInv, InOrder

LEMMA CastInitIInv == CastInit => CastIInv
<1> SUFFICES ASSUME CastInit PROVE CastIInv
  OBVIOUS
<1> USE CastingAssumption
<1>1. screen \in [Screens -> ScreenFields] /\ hero \in [Heroes -> HeroFields]
  BY DEF CastInit, Waiting, Unmade, ScreenFields, HeroFields
<1>2. \A h \in Heroes : Plays(screen, h) = {} /\ Awaits(screen, h) = {}
  BY DEF CastInit, Waiting, Plays, Awaits
<1>3. \A h \in Heroes : hero[h].refs = 0 /\ ~hero[h].online
  BY DEF CastInit, Unmade
<1>4. \A s \in Screens : screen[s].player = NoHero
  BY DEF CastInit, Waiting
<1>5. \A h \in Heroes : Holders(screen, hero, h) = 0
  BY <1>2, <1>3, FS_EmptySet DEF Holders
<1> QED
  BY <1>1, <1>3, <1>4, <1>5 DEF CastIInv, InOrder

(* A protocol that plays nobody comes to play h, which gets a reference for it;
   or the player is new, and has two. *)
LEMMA Takes ==
  ASSUME CastIInv, NEW s \in Screens, NEW h \in Heroes, Fresh(s),
         NEW S \in [Screens -> ScreenFields], NEW H \in [Heroes -> HeroFields],
         S[s].player = h, S[s].over = screen[s].over,
         S[s].visits = screen[s].visits, S[s].old = screen[s].old,
         \A t \in Screens \ {s} : S[t] = screen[t],
         \A x \in Heroes \ {h} : H[x] = hero[x],
         \/ /\ H[h].refs = hero[h].refs + 1 /\ H[h].online = hero[h].online
            /\ H[h].protocol = hero[h].protocol
         \/ hero[h].refs = 0 /\ H[h].refs = 2 /\ H[h].protocol = s
  PROVE  InOrder(S, H)
<1> USE DEF CastIInv, InOrder
<1>1. screen[s].player = NoHero /\ ~screen[s].over
  BY DEF Fresh
<1>3. \A x \in Heroes \ {h} : Holders(S, H, x) = Holders(screen, hero, x)
  <2> SUFFICES ASSUME NEW x \in Heroes \ {h} PROVE Holders(S, H, x) = Holders(screen, hero, x)
    OBVIOUS
  <2>1. Plays(S, x) = Plays(screen, x) /\ Awaits(S, x) = Awaits(screen, x)
    BY <1>1, CastingAssumption DEF Plays, Awaits
  <2> QED
    BY <2>1 DEF Holders
<1>4. /\ Cardinality(Plays(S, h)) <= Cardinality(Plays(screen, h)) + 1
      /\ Awaits(S, h) = Awaits(screen, h)
  <2>1. Plays(S, h) \subseteq Plays(screen, h) \cup {s}
    BY DEF Plays
  <2>2. Awaits(S, h) = Awaits(screen, h)
    BY DEF Awaits
  <2> QED
    BY <2>1, <2>2, Sizes, HoldersCounted
<1>5. H[h].refs >= Holders(S, H, h)
  <2>1. /\ Cardinality(Plays(screen, h)) \in Nat /\ Cardinality(Awaits(screen, h)) \in Nat
        /\ Cardinality(Plays(S, h)) \in Nat
        /\ hero[h].refs \in Int /\ hero[h].refs >= Holders(screen, hero, h)
    BY HoldersCounted DEF HeroFields
  <2> QED
    BY <1>4, <2>1 DEF Holders
<1>6. \A x \in Heroes : H[x].online => H[x].protocol \in Screens
  OBVIOUS
<1>7. \A t \in Screens : S[t].over => S[t].player = NoHero
  BY <1>1
<1> QED
  BY <1>3, <1>5, <1>6, <1>7

(* returnPlayer: who returns plays again the one it had left. *)
LEMMA Returns ==
  ASSUME CastIInv, NEW R \in SUBSET Screens, NEW H \in [Heroes -> HeroFields],
         \A s \in R : ~screen[s].over,
         \A h \in Heroes :
           /\ H[h].protocol = hero[h].protocol
           /\ \/ /\ H[h].online = hero[h].online
                 /\ H[h].refs = hero[h].refs + Cardinality(Back(R, h))
              \/ /\ hero[h].online /\ ~H[h].online
                 /\ H[h].refs = hero[h].refs + Cardinality(Back(R, h)) - 1
  PROVE  InOrder(Returned(R), H)
<1> USE DEF CastIInv, InOrder
<1> DEFINE S == Returned(R)
<1>1. S \in [Screens -> ScreenFields]
  BY DEF Returned, ScreenFields
<1>2. \A s \in Screens :
        /\ S[s].over = screen[s].over
        /\ s \in R => S[s].player = screen[s].old /\ ~S[s].visits
        /\ s \notin R => S[s] = screen[s]
  BY DEF Returned, ScreenFields
<1>3. ASSUME NEW h \in Heroes PROVE H[h].refs >= Holders(S, H, h)
  <2>1. IsFiniteSet(Back(R, h)) /\ Cardinality(Back(R, h)) \in Nat
    BY FS_Subset, FS_CardinalityType, CastingAssumption DEF Back
  <2>2. /\ IsFiniteSet(Plays(screen, h)) /\ Cardinality(Plays(screen, h)) \in Nat
        /\ Cardinality(Awaits(screen, h)) \in Nat /\ Cardinality(Plays(S, h)) \in Nat
        /\ Cardinality(Awaits(S, h)) \in Nat
    BY HoldersCounted
  <2>3. Cardinality(Plays(S, h)) <= Cardinality(Plays(screen, h)) + Cardinality(Back(R, h))
    <3> DEFINE both == Plays(screen, h) \cup Back(R, h)
    <3>1. Plays(S, h) \subseteq both
      BY <1>2 DEF Plays, Back
    <3>2. /\ IsFiniteSet(both)
          /\ Cardinality(both) = Cardinality(Plays(screen, h)) + Cardinality(Back(R, h))
                                  - Cardinality(Plays(screen, h) \cap Back(R, h))
      BY <2>1, <2>2, FS_Union
    <3>3. Cardinality(Plays(screen, h) \cap Back(R, h)) \in Nat
      BY <2>1, FS_Intersection, FS_CardinalityType
    <3>4. Cardinality(Plays(S, h)) <= Cardinality(both)
      BY <3>1, <3>2, FS_Subset
    <3> HIDE DEF both
    <3> QED
      BY <2>1, <2>2, <3>2, <3>3, <3>4
  <2>4. Cardinality(Awaits(S, h)) <= Cardinality(Awaits(screen, h))
    <3>1. Awaits(S, h) \subseteq Awaits(screen, h)
      BY <1>2 DEF Awaits
    <3> QED
      BY <3>1, Sizes, HoldersCounted
  <2>5. hero[h].refs \in Int /\ hero[h].refs >= Holders(screen, hero, h)
    BY DEF HeroFields
  <2> HIDE DEF S
  <2> QED
    BY <2>1, <2>2, <2>3, <2>4, <2>5 DEF Holders
<1>4. \A s \in Screens : S[s].over => S[s].player = NoHero
  BY <1>2
<1>5. \A h \in Heroes : H[h].online => H[h].protocol \in Screens
  OBVIOUS
<1> HIDE DEF S
<1>6. InOrder(S, H)
  BY <1>1, <1>3, <1>4, <1>5
<1> QED
  BY <1>6 DEF S

(* A protocol turns from player h to another, who gets a reference; h gives its
   own back, or is the one that the protocol is to return to. *)
LEMMA Turns ==
  ASSUME CastIInv, NEW s \in Screens, NEW h \in Heroes, NEW to \in Heroes,
         screen[s].player = h,
         NEW S \in [Screens -> ScreenFields], NEW H \in [Heroes -> HeroFields],
         S[s].player = to, ~S[s].over, \A t \in Screens \ {s} : S[t] = screen[t],
         \A x \in Heroes : H[x].online = hero[x].online /\ H[x].protocol = hero[x].protocol,
         \A x \in Heroes \ {h, to} : H[x].refs = hero[x].refs,
         \/ /\ S[s].visits = screen[s].visits /\ S[s].old = screen[s].old /\ h # to
            /\ H[h].refs = hero[h].refs - 1 /\ H[to].refs = hero[to].refs + 1
         \/ /\ S[s].visits /\ S[s].old = h
            /\ H[to].refs = hero[to].refs + 1 /\ (h # to => H[h].refs = hero[h].refs)
  PROVE  InOrder(S, H)
<1> USE DEF CastIInv, InOrder
<1>1. ~screen[s].over
  BY CastingAssumption
<1>2. ASSUME NEW x \in Heroes PROVE H[x].refs >= Holders(S, H, x)
  <2>1. /\ IsFiniteSet(Plays(screen, x)) /\ Cardinality(Plays(screen, x)) \in Nat
        /\ IsFiniteSet(Awaits(screen, x)) /\ Cardinality(Awaits(screen, x)) \in Nat
        /\ Cardinality(Plays(S, x)) \in Nat /\ Cardinality(Awaits(S, x)) \in Nat
    BY HoldersCounted
  <2>2. hero[x].refs \in Int /\ hero[x].refs >= Holders(screen, hero, x)
    BY DEF HeroFields
  <2>3. /\ x # h => Plays(S, x) \subseteq Plays(screen, x) \cup {s}
        /\ x \notin {h, to} => Plays(S, x) \subseteq Plays(screen, x)
        /\ x = h => Plays(S, x) \subseteq Plays(screen, x) /\ s \in Plays(screen, x)
        /\ x = h /\ h # to => Plays(S, x) \subseteq Plays(screen, x) \ {s}
    BY DEF Plays
  <2>4. /\ Awaits(S, x) \subseteq Awaits(screen, x) \cup {s}
        /\ x # h \/ (S[s].old = screen[s].old /\ S[s].visits = screen[s].visits) =>
             Awaits(S, x) \subseteq Awaits(screen, x)
    BY <1>1 DEF Awaits
  <2>5. /\ x # h => Cardinality(Plays(S, x)) <= Cardinality(Plays(screen, x)) + 1
        /\ x \notin {h, to} => Cardinality(Plays(S, x)) <= Cardinality(Plays(screen, x))
        /\ x = h => Cardinality(Plays(S, x)) <= Cardinality(Plays(screen, x))
        /\ x = h /\ h # to => Cardinality(Plays(S, x)) <= Cardinality(Plays(screen, x)) - 1
    BY <2>1, <2>3, Sizes
  <2>6. /\ Cardinality(Awaits(S, x)) <= Cardinality(Awaits(screen, x)) + 1
        /\ x # h \/ (S[s].old = screen[s].old /\ S[s].visits = screen[s].visits) =>
             Cardinality(Awaits(S, x)) <= Cardinality(Awaits(screen, x))
    BY <2>1, <2>4, Sizes
  <2>7. /\ H[x].refs \in Int /\ H[x].online = hero[x].online
        /\ x \notin {h, to} => H[x].refs = hero[x].refs
    BY DEF HeroFields
  <2> DEFINE a == Cardinality(Plays(screen, x))
             b == Cardinality(Awaits(screen, x))
             c == Cardinality(Plays(S, x))
             d == Cardinality(Awaits(S, x))
             e == IF hero[x].online THEN 1 ELSE 0
  <2>11. hero[x].refs >= a + b + e /\ Holders(S, H, x) = c + d + e /\ e \in Int
    BY <2>2, <2>7 DEF Holders
  <2> HIDE DEF a, b, c, d, e
  <2>8. CASE x \notin {h, to}
    <3>1. c <= a /\ d <= b /\ H[x].refs = hero[x].refs
      BY <2>5, <2>6, <2>7, <2>8 DEF a, b, c, d
    <3> QED
      BY <2>1, <2>2, <2>11, <3>1 DEF a, b, c, d
  <2>9. CASE x = h /\ h # to
    BY <2>1, <2>2, <2>5, <2>6, <2>7, <2>9, <2>11 DEF a, b, c, d
  <2>10. CASE x = to
    BY <2>1, <2>2, <2>5, <2>6, <2>7, <2>10, <2>11 DEF a, b, c, d
  <2> QED
    BY <2>8, <2>9, <2>10
<1> QED
  BY <1>1, <1>2

(* Whatever takes a player from protocols, and references from nobody but them. *)
LEMMA Drops ==
  ASSUME CastIInv, NEW s \in Screens, NEW S \in [Screens -> ScreenFields],
         NEW H \in [Heroes -> HeroFields], S[s].player = NoHero, S[s].over \/ ~S[s].visits,
         \A t \in Screens \ {s} : S[t] = screen[t],
         \A x \in Heroes :
           /\ H[x].online = hero[x].online /\ H[x].protocol = hero[x].protocol
           /\ H[x].refs = IF x = screen[s].player THEN hero[x].refs - 1 ELSE hero[x].refs
  PROVE  InOrder(S, H)
<1> USE DEF CastIInv, InOrder
<1>1. ASSUME NEW x \in Heroes PROVE H[x].refs >= Holders(S, H, x)
  <2>1. /\ IsFiniteSet(Plays(screen, x)) /\ Cardinality(Plays(screen, x)) \in Nat
        /\ IsFiniteSet(Awaits(screen, x)) /\ Cardinality(Awaits(screen, x)) \in Nat
        /\ Cardinality(Plays(S, x)) \in Nat /\ Cardinality(Awaits(S, x)) \in Nat
    BY HoldersCounted
  <2>2. hero[x].refs \in Int /\ hero[x].refs >= Holders(screen, hero, x)
    BY DEF HeroFields
  <2>3. /\ Plays(S, x) \subseteq Plays(screen, x) /\ Awaits(S, x) \subseteq Awaits(screen, x)
        /\ x = screen[s].player => Plays(S, x) \subseteq Plays(screen, x) \ {s} /\ s \in Plays(screen, x)
    BY CastingAssumption DEF Plays, Awaits
  <2>4. /\ Cardinality(Plays(S, x)) <= Cardinality(Plays(screen, x))
        /\ Cardinality(Awaits(S, x)) <= Cardinality(Awaits(screen, x))
        /\ x = screen[s].player => Cardinality(Plays(S, x)) <= Cardinality(Plays(screen, x)) - 1
    BY <2>1, <2>3, Sizes
  <2> QED
    BY <2>1, <2>2, <2>4 DEF Holders
<1> QED
  BY <1>1

LEMMA SeatedDoes ==
  ASSUME NEW H \in [Heroes -> HeroFields], NEW s \in Screens, NEW h \in Heroes
  PROVE  /\ Seated(H, s, h) \in [Heroes -> HeroFields]
         /\ Seated(H, s, h)[h].refs = H[h].refs + 1
         /\ \A x \in Heroes : /\ Seated(H, s, h)[x].online = H[x].online
                              /\ Seated(H, s, h)[x].protocol = H[x].protocol
         /\ \A x \in Heroes \ {h} : Seated(H, s, h)[x] = H[x]
<1> DEFINE n == H[h].refs + 1
           w == H[h].watchers \cup {s}
           r == [H[h] EXCEPT !.refs = n, !.watchers = w]
<1>1. n \in Int /\ w \in SUBSET Screens
  BY DEF HeroFields
<1>2. Seated(H, s, h) = [H EXCEPT ![h] = r]
  BY DEF Seated
<1> HIDE DEF w
<1>3. r \in HeroFields
  BY <1>1 DEF HeroFields
<1>4. r.refs = n /\ r.online = H[h].online /\ r.protocol = H[h].protocol
  BY <1>1 DEF HeroFields
<1> HIDE DEF r
<1> QED
  BY <1>2, <1>3, <1>4

LEMMA WelcomedDoes ==
  ASSUME NEW R \in SUBSET Screens, NEW last,
         \A h \in Heroes : Back(R, h) # {} => last[h] \in Screens,
         hero \in [Heroes -> HeroFields]
  PROVE  /\ Welcomed(R, last) \in [Heroes -> HeroFields]
         /\ \A h \in Heroes :
              /\ Welcomed(R, last)[h].protocol = hero[h].protocol
              /\ Welcomed(R, last)[h].online = hero[h].online
              /\ Welcomed(R, last)[h].refs = hero[h].refs + Cardinality(Back(R, h))
<1> SUFFICES ASSUME NEW h \in Heroes
    PROVE  /\ Welcomed(R, last)[h] \in HeroFields
           /\ Welcomed(R, last)[h].protocol = hero[h].protocol
           /\ Welcomed(R, last)[h].online = hero[h].online
           /\ Welcomed(R, last)[h].refs = hero[h].refs + Cardinality(Back(R, h))
  BY DEF Welcomed
<1> DEFINE w == hero[h].watchers \ {s \in R : screen[s].player = h}
           n == hero[h].refs + Cardinality(Back(R, h))
           o == IF Back(R, h) = {} THEN hero[h].owner ELSE last[h]
<1>1. Cardinality(Back(R, h)) \in Nat
  BY FS_Subset, FS_CardinalityType, CastingAssumption DEF Back
<1>2. w \in SUBSET Screens /\ n \in Int /\ o \in Screens \cup {NoScreen}
  BY <1>1 DEF HeroFields
<1>3. Welcomed(R, last)[h] = [hero[h] EXCEPT !.watchers = w, !.refs = n, !.owner = o]
  BY DEF Welcomed
<1> HIDE DEF w, o
<1>4. Welcomed(R, last)[h] \in HeroFields
  BY <1>2, <1>3 DEF HeroFields
<1>5. /\ Welcomed(R, last)[h].protocol = hero[h].protocol
      /\ Welcomed(R, last)[h].online = hero[h].online /\ Welcomed(R, last)[h].refs = n
  BY <1>2, <1>3 DEF HeroFields
<1> QED
  BY <1>4, <1>5

LEMMA CastStep == CastIInv /\ [CastNext]_castVars => CastIInv'
<1> SUFFICES ASSUME CastIInv, [CastNext]_castVars PROVE CastIInv'
  OBVIOUS
<1> USE CastingAssumption
<1>0. screen \in [Screens -> ScreenFields] /\ hero \in [Heroes -> HeroFields]
  BY DEF CastIInv, InOrder
<1>1. ASSUME NEW s \in Screens, NEW h \in Heroes, Play(s, h) PROVE CastIInv'
  <2> DEFINE S == [screen EXCEPT ![s].player = h]
             H == [hero EXCEPT ![h] = [Unmade EXCEPT !.online = TRUE, !.refs = 2,
                                                     !.owner = s, !.protocol = s]]
  <2>1. Fresh(s) /\ hero[h] = Unmade /\ Counted(S, H)
    BY <1>1 DEF Play
  <2>2. S \in [Screens -> ScreenFields] /\ H \in [Heroes -> HeroFields]
    <3>1. S \in [Screens -> ScreenFields]
      BY <1>0 DEF ScreenFields
    <3>2. [Unmade EXCEPT !.online = TRUE, !.refs = 2, !.owner = s, !.protocol = s] \in HeroFields
      <4> DEFINE yes == TRUE
                 two == 2
                 r == [Unmade EXCEPT !.online = yes]
                 made == [r EXCEPT !.refs = two, !.owner = s, !.protocol = s]
      <4>1. Unmade \in HeroFields /\ yes \in BOOLEAN /\ two \in Int
        BY DEF Unmade, HeroFields
      <4>2. [Unmade EXCEPT !.online = TRUE, !.refs = 2, !.owner = s, !.protocol = s] = made
        OBVIOUS
      <4> HIDE DEF yes, two
      <4>3. r \in HeroFields
        BY <4>1 DEF HeroFields
      <4> HIDE DEF r
      <4>4. made \in HeroFields
        BY <4>1, <4>3 DEF HeroFields
      <4> HIDE DEF made
      <4> QED
        BY <4>2, <4>4
    <3>3. H \in [Heroes -> HeroFields]
      BY <1>0, <3>2
    <3> QED
      BY <3>1, <3>3
  <2>3. /\ S[s].player = h /\ S[s].over = screen[s].over
        /\ S[s].visits = screen[s].visits /\ S[s].old = screen[s].old
        /\ \A t \in Screens \ {s} : S[t] = screen[t]
        /\ \A x \in Heroes \ {h} : H[x] = hero[x]
    BY <1>0 DEF ScreenFields
  <2>4. \/ /\ H[h].refs = hero[h].refs + 1 /\ H[h].online = hero[h].online
           /\ H[h].protocol = hero[h].protocol
        \/ hero[h].refs = 0 /\ H[h].refs = 2 /\ H[h].protocol = s
    BY <1>0, <2>1 DEF Unmade
  <2> HIDE DEF S, H
  <2>5. InOrder(S, H)
    BY <2>1, <2>2, <2>3, <2>4, Takes
  <2> QED
    BY <2>1, <2>5, CountedKeeps
<1>2. ASSUME NEW s \in Screens, NEW h \in Heroes, Rejoin(s, h) PROVE CastIInv'
  <2> DEFINE S == [screen EXCEPT ![s].player = h]
             H == [hero EXCEPT ![h].refs = @ + 1, ![h].owner = s]
  <2>1. Fresh(s) /\ Counted(S, H)
    BY <1>2 DEF Rejoin
  <2>2. S \in [Screens -> ScreenFields] /\ H \in [Heroes -> HeroFields]
    <3>1. S \in [Screens -> ScreenFields]
      BY <1>0 DEF ScreenFields
    <3>2. hero[h].refs + 1 \in Int
      BY <1>0 DEF HeroFields
    <3>3. H \in [Heroes -> HeroFields]
      BY <1>0, <3>2 DEF HeroFields
    <3> QED
      BY <3>1, <3>3
  <2>3. /\ S[s].player = h /\ S[s].over = screen[s].over
        /\ S[s].visits = screen[s].visits /\ S[s].old = screen[s].old
        /\ \A t \in Screens \ {s} : S[t] = screen[t]
        /\ \A x \in Heroes \ {h} : H[x] = hero[x]
    BY <1>0 DEF ScreenFields
  <2>4. /\ H[h].refs = hero[h].refs + 1 /\ H[h].online = hero[h].online
        /\ H[h].protocol = hero[h].protocol
    BY <1>0 DEF HeroFields
  <2> HIDE DEF S, H
  <2>5. InOrder(S, H)
    BY <2>1, <2>2, <2>3, <2>4, Takes
  <2> QED
    BY <2>1, <2>5, CountedKeeps
<1>3. ASSUME NEW s \in Screens, NEW h \in Heroes, Spectate(s, h) PROVE CastIInv'
  <2> DEFINE S == [screen EXCEPT ![s].player = h, ![s].spectator = TRUE]
             H == [hero EXCEPT ![h].refs = @ + 1, ![h].watchers = @ \cup {s}]
  <2>1. Fresh(s) /\ Counted(S, H)
    BY <1>3 DEF Spectate, Seated
  <2>2. S \in [Screens -> ScreenFields] /\ H \in [Heroes -> HeroFields]
    <3>1. S \in [Screens -> ScreenFields]
      BY <1>0 DEF ScreenFields
    <3>2. H \in [Heroes -> HeroFields]
      BY <1>0, SeatedDoes DEF Seated
    <3> QED
      BY <3>1, <3>2
  <2>3. /\ S[s].player = h /\ S[s].over = screen[s].over
        /\ S[s].visits = screen[s].visits /\ S[s].old = screen[s].old
        /\ \A t \in Screens \ {s} : S[t] = screen[t]
        /\ \A x \in Heroes \ {h} : H[x] = hero[x]
    BY <1>0 DEF ScreenFields
  <2>4. /\ H[h].refs = hero[h].refs + 1 /\ H[h].online = hero[h].online
        /\ H[h].protocol = hero[h].protocol
    BY <1>0 DEF HeroFields
  <2> HIDE DEF S, H
  <2>5. InOrder(S, H)
    BY <2>1, <2>2, <2>3, <2>4, Takes
  <2> QED
    BY <2>1, <2>5, CountedKeeps
<1>4. ASSUME NEW s \in Screens, NEW to \in Heroes, SpectatorTurn(s, to) PROVE CastIInv'
  <2> DEFINE h == screen[s].player
             S == [screen EXCEPT ![s].player = to]
             G == [hero EXCEPT ![h].refs = @ - 1, ![h].watchers = @ \ {s}]
             H == Seated(G, s, to)
  <2>1. h # NoHero /\ to # h /\ Counted(S, H)
    BY <1>4 DEF SpectatorTurn
  <2>2. h \in Heroes /\ ~screen[s].over
    BY <1>0, <2>1 DEF ScreenFields, CastIInv, InOrder
  <2>3. S \in [Screens -> ScreenFields]
    BY <1>0 DEF ScreenFields
  <2>4. /\ S[s].player = to /\ ~S[s].over /\ \A t \in Screens \ {s} : S[t] = screen[t]
        /\ S[s].visits = screen[s].visits /\ S[s].old = screen[s].old
    BY <1>0, <2>2 DEF ScreenFields
  <2> HIDE DEF h, S
  <2>5. /\ G \in [Heroes -> HeroFields] /\ G[h].refs = hero[h].refs - 1
        /\ \A x \in Heroes : G[x].online = hero[x].online /\ G[x].protocol = hero[x].protocol
        /\ \A x \in Heroes \ {h} : G[x] = hero[x]
    <3> DEFINE n == hero[h].refs - 1
               w == hero[h].watchers \ {s}
               r == [hero[h] EXCEPT !.refs = n, !.watchers = w]
    <3>1. n \in Int /\ w \in SUBSET Screens
      BY <1>0, <2>2 DEF HeroFields
    <3>2. G = [hero EXCEPT ![h] = r]
      BY <1>0
    <3> HIDE DEF w
    <3>3. r \in HeroFields
      BY <1>0, <2>2, <3>1 DEF HeroFields
    <3>4. r.refs = n /\ r.online = hero[h].online /\ r.protocol = hero[h].protocol
      BY <1>0, <2>2, <3>1 DEF HeroFields
    <3> HIDE DEF r, G
    <3> QED
      BY <1>0, <2>2, <3>2, <3>3, <3>4
  <2> HIDE DEF G
  <2>6. /\ H \in [Heroes -> HeroFields] /\ H[to].refs = G[to].refs + 1
        /\ \A x \in Heroes : H[x].online = G[x].online /\ H[x].protocol = G[x].protocol
        /\ \A x \in Heroes \ {to} : H[x] = G[x]
    BY <2>5, SeatedDoes
  <2> HIDE DEF H
  <2>7. screen[s].player = h
    BY DEF h
  <2>8. InOrder(S, H)
    BY <2>1, <2>2, <2>3, <2>4, <2>5, <2>6, <2>7, Turns
  <2> QED
    BY <2>1, <2>8, CountedKeeps
<1>5. ASSUME NEW h \in Heroes, NEW to \in Heroes, SpectatePlayer(h, to) PROVE CastIInv'
  <2> DEFINE s == hero[h].protocol
             old == screen[s].player
             asked == [hero EXCEPT ![h].visiting = TRUE]
  <2>1. hero[h].online /\ old # NoHero
    BY <1>5 DEF SpectatePlayer
  <2>2. s \in Screens /\ old \in Heroes /\ ~screen[s].over
    BY <1>0, <2>1 DEF ScreenFields, CastIInv, InOrder
  <2>3. /\ asked \in [Heroes -> HeroFields]
        /\ \A x \in Heroes : /\ asked[x].online = hero[x].online
                             /\ asked[x].protocol = hero[x].protocol
                             /\ asked[x].refs = hero[x].refs
    BY <1>0 DEF HeroFields
  <2>4. CASE Watchable(to)
    <3> DEFINE S == [screen EXCEPT ![s].player = to, ![s].old = old,
                                   ![s].spectator = TRUE, ![s].visits = TRUE]
               G == [asked EXCEPT ![old].owner = NoScreen]
               H == Seated(G, s, to)
    <3>1. Counted(S, H)
      BY <1>5, <2>4 DEF SpectatePlayer
    <3> HIDE DEF s, asked
    <3>2. S \in [Screens -> ScreenFields]
      <4> DEFINE r == [screen[s] EXCEPT !.player = to, !.old = old, !.spectator = TRUE, !.visits = TRUE]
      <4>1. r \in ScreenFields
        BY <1>0, <2>2 DEF ScreenFields
      <4>2. S = [screen EXCEPT ![s] = r]
        BY <1>0
      <4> HIDE DEF r, S
      <4> QED
        BY <1>0, <4>1, <4>2
    <3>3. /\ S[s].player = to /\ ~S[s].over /\ \A t \in Screens \ {s} : S[t] = screen[t]
          /\ S[s].visits /\ S[s].old = old
      BY <1>0, <2>2 DEF ScreenFields
    <3>4. screen[s].player = old
      OBVIOUS
    <3> HIDE DEF S, old
    <3>5. /\ G \in [Heroes -> HeroFields]
          /\ \A x \in Heroes : /\ G[x].online = asked[x].online
                               /\ G[x].protocol = asked[x].protocol
                               /\ G[x].refs = asked[x].refs
      BY <2>2, <2>3 DEF HeroFields
    <3> HIDE DEF G
    <3>6. /\ H \in [Heroes -> HeroFields] /\ H[to].refs = G[to].refs + 1
          /\ \A x \in Heroes : H[x].online = G[x].online /\ H[x].protocol = G[x].protocol
          /\ \A x \in Heroes \ {to} : H[x] = G[x]
      BY <2>2, <3>5, SeatedDoes
    <3> HIDE DEF H
    <3>7. /\ \A x \in Heroes : H[x].online = hero[x].online /\ H[x].protocol = hero[x].protocol
          /\ \A x \in Heroes \ {old, to} : H[x].refs = hero[x].refs
          /\ H[to].refs = hero[to].refs + 1 /\ (old # to => H[old].refs = hero[old].refs)
      BY <2>2, <2>3, <3>5, <3>6
    <3>8. InOrder(S, H)
      BY <2>2, <3>2, <3>3, <3>4, <3>6, <3>7, Turns
    <3> QED
      BY <3>1, <3>8, CountedKeeps
  <2>5. CASE ~Watchable(to)
    <3>1. Counted(screen, asked)
      BY <1>5, <2>5 DEF SpectatePlayer
    <3>2. InOrder(screen, asked)
      BY <2>3 DEF CastIInv, InOrder, Holders
    <3> QED
      BY <3>1, <3>2, CountedKeeps
  <2> QED
    BY <2>4, <2>5
<1>6. ASSUME NEW s \in Screens, EndVisit(s) PROVE CastIInv'
  <2> DEFINE W == Welcomed({s}, [h \in Heroes |-> s])
             H == [W EXCEPT ![screen[s].old].visiting = FALSE]
  <2>1. screen[s].player # NoHero /\ Counted(Returned({s}), H)
    BY <1>6 DEF EndVisit
  <2>2. ~screen[s].over
    BY <2>1 DEF CastIInv, InOrder
  <2>3. /\ W \in [Heroes -> HeroFields]
        /\ \A h \in Heroes :
             /\ W[h].protocol = hero[h].protocol /\ W[h].online = hero[h].online
             /\ W[h].refs = hero[h].refs + Cardinality(Back({s}, h))
    <3> DEFINE l == [x \in Heroes |-> s]
    <3>1. {s} \in SUBSET Screens /\ \A x \in Heroes : l[x] \in Screens
      OBVIOUS
    <3>2. W = Welcomed({s}, l)
      OBVIOUS
    <3> HIDE DEF l, W
    <3>3. \A x \in Heroes : Back({s}, x) # {} => l[x] \in Screens
      BY <3>1
    <3>4. /\ Welcomed({s}, l) \in [Heroes -> HeroFields]
          /\ \A h \in Heroes :
               /\ Welcomed({s}, l)[h].protocol = hero[h].protocol
               /\ Welcomed({s}, l)[h].online = hero[h].online
               /\ Welcomed({s}, l)[h].refs = hero[h].refs + Cardinality(Back({s}, h))
      BY <1>0, <3>1, <3>3, WelcomedDoes
    <3> QED
      BY <3>2, <3>4
  <2> HIDE DEF W
  <2>4. /\ H \in [Heroes -> HeroFields]
        /\ \A h \in Heroes :
             /\ H[h].protocol = W[h].protocol /\ H[h].online = W[h].online
             /\ H[h].refs = W[h].refs
    BY <2>3 DEF HeroFields
  <2> HIDE DEF H
  <2>5. \A h \in Heroes :
          /\ H[h].protocol = hero[h].protocol /\ H[h].online = hero[h].online
          /\ H[h].refs = hero[h].refs + Cardinality(Back({s}, h))
    BY <2>3, <2>4
  <2>6. {s} \in SUBSET Screens /\ \A t \in {s} : ~screen[t].over
    BY <2>2
  <2>7. InOrder(Returned({s}), H)
    BY <2>4, <2>5, <2>6, Returns
  <2> QED
    BY <2>1, <2>7, CountedKeeps
<1>7. ASSUME NEW h \in Heroes, NEW goes \in BOOLEAN, Clears(h, goes), goes => hero[h].online
      PROVE  CastIInv'
  <2>1. PICK R \in SUBSET {s \in hero[h].watchers : screen[s].visits} :
               \E last \in [{screen[s].old : s \in R} -> R] :
          /\ \A s \in R : screen[s].player # NoHero
          /\ Counted(Returned(R),
                     [Welcomed(R, last) EXCEPT
                        ![h].watchers = {}, ![h].live = FALSE,
                        ![h].online = @ /\ ~goes,
                        ![h].refs = IF goes THEN @ - 1 ELSE @])
    BY <1>7 DEF Clears
  <2>0. PICK last \in [{screen[s].old : s \in R} -> R] :
          /\ \A s \in R : screen[s].player # NoHero
          /\ Counted(Returned(R),
                     [Welcomed(R, last) EXCEPT
                        ![h].watchers = {}, ![h].live = FALSE,
                        ![h].online = @ /\ ~goes,
                        ![h].refs = IF goes THEN @ - 1 ELSE @])
    BY <2>1
  <2> DEFINE W == Welcomed(R, last)
             H == [W EXCEPT ![h].watchers = {}, ![h].live = FALSE, ![h].online = @ /\ ~goes,
                            ![h].refs = IF goes THEN @ - 1 ELSE @]
  <2>2. R \in SUBSET Screens
    BY <1>0 DEF HeroFields
  <2>3. \A s \in R : ~screen[s].over
    BY <2>1, <2>2 DEF CastIInv, InOrder
  <2>4. /\ W \in [Heroes -> HeroFields]
        /\ \A x \in Heroes :
             /\ W[x].protocol = hero[x].protocol /\ W[x].online = hero[x].online
             /\ W[x].refs = hero[x].refs + Cardinality(Back(R, x))
    <3>1. \A x \in Heroes : Back(R, x) # {} => last[x] \in Screens
      BY <2>2 DEF Back
    <3> QED
      BY <1>0, <2>2, <3>1, WelcomedDoes
  <2>5. Counted(Returned(R), H)
    BY <2>0
  <2> HIDE DEF W
  <2>6. /\ H \in [Heroes -> HeroFields]
        /\ \A x \in Heroes : H[x].protocol = W[x].protocol
        /\ \A x \in Heroes \ {h} : H[x].online = W[x].online /\ H[x].refs = W[x].refs
        /\ H[h].online = (W[h].online /\ ~goes)
        /\ H[h].refs = IF goes THEN W[h].refs - 1 ELSE W[h].refs
    <3> DEFINE n == IF goes THEN W[h].refs - 1 ELSE W[h].refs
               b == W[h].online /\ ~goes
               r == [W[h] EXCEPT !.watchers = {}, !.live = FALSE, !.online = b, !.refs = n]
    <3>1. n \in Int /\ b \in BOOLEAN
      BY <2>4 DEF HeroFields
    <3>2. H = [W EXCEPT ![h] = r]
      BY <2>4
    <3>3. H[h].online = (W[h].online /\ ~goes)
      BY <2>4 DEF HeroFields
    <3> HIDE DEF n, b
    <3>4. r \in HeroFields
      BY <2>4, <3>1 DEF HeroFields
    <3>5. r.refs = n /\ r.protocol = W[h].protocol
      BY <2>4, <3>1 DEF HeroFields
    <3> HIDE DEF r
    <3>6. /\ H \in [Heroes -> HeroFields] /\ H[h] = r /\ \A x \in Heroes \ {h} : H[x] = W[x]
      BY <2>4, <3>2, <3>4
    <3> QED
      BY <3>3, <3>5, <3>6 DEF n
  <2> HIDE DEF H
  <2>7. \A x \in Heroes :
          /\ H[x].protocol = hero[x].protocol
          /\ \/ /\ H[x].online = hero[x].online
                /\ H[x].refs = hero[x].refs + Cardinality(Back(R, x))
             \/ /\ hero[x].online /\ ~H[x].online
                /\ H[x].refs = hero[x].refs + Cardinality(Back(R, x)) - 1
    <3> SUFFICES ASSUME NEW x \in Heroes
        PROVE  /\ H[x].protocol = hero[x].protocol
               /\ \/ /\ H[x].online = hero[x].online
                     /\ H[x].refs = hero[x].refs + Cardinality(Back(R, x))
                  \/ /\ hero[x].online /\ ~H[x].online
                     /\ H[x].refs = hero[x].refs + Cardinality(Back(R, x)) - 1
      OBVIOUS
    <3>1. /\ H[x].protocol = hero[x].protocol /\ W[x].online = hero[x].online
          /\ W[x].refs = hero[x].refs + Cardinality(Back(R, x))
      BY <2>4, <2>6
    <3>2. CASE x = h /\ goes
      <4>1. H[x].online = (W[x].online /\ ~goes)
        BY <2>6, <3>2
      <4>2. hero[x].online /\ ~H[x].online
        BY <1>7, <3>2, <4>1
      <4>3. H[x].refs = W[x].refs - 1
        BY <2>6, <3>2
      <4>4. H[x].refs = hero[x].refs + Cardinality(Back(R, x)) - 1
        <5>1. Cardinality(Back(R, x)) \in Nat /\ hero[x].refs \in Int
          BY <1>0, <2>2, FS_Subset, FS_CardinalityType DEF Back, HeroFields
        <5> QED
          BY <3>1, <4>3, <5>1
      <4> QED
        BY <3>1, <4>2, <4>4, Zenon
    <3>3. CASE x = h /\ ~goes
      <4>1. H[x].refs = W[x].refs
        BY <2>6, <3>3
      <4>2. H[x].online = W[x].online
        <5>1. H[x].online = (W[x].online /\ ~goes) /\ W[x].online \in BOOLEAN
          BY <2>4, <2>6, <3>3 DEF HeroFields
        <5> QED
          BY <3>3, <5>1
      <4> QED
        BY <3>1, <4>1, <4>2
    <3>4. CASE x # h
      BY <2>6, <3>1, <3>4
    <3> QED
      BY <3>2, <3>3, <3>4
  <2>8. InOrder(Returned(R), H)
    BY <2>2, <2>3, <2>6, <2>7, Returns
  <2> QED
    BY <2>5, <2>8, CountedKeeps
<1>8. ASSUME NEW h \in Heroes, StartCast(h) PROVE CastIInv'
  <2> DEFINE H == [hero EXCEPT ![h].live = TRUE]
  <2>1. Counted(screen, H)
    BY <1>8 DEF StartCast
  <2>2. /\ H \in [Heroes -> HeroFields]
        /\ \A x \in Heroes : /\ H[x].online = hero[x].online
                             /\ H[x].protocol = hero[x].protocol
                             /\ H[x].refs = hero[x].refs
    BY <1>0 DEF HeroFields
  <2> HIDE DEF H
  <2>3. InOrder(screen, H)
    BY <2>2 DEF CastIInv, InOrder, Holders
  <2> QED
    BY <2>1, <2>3, CountedKeeps
<1>9. ASSUME NEW h \in Heroes, StopCast(h) \/ HeroLeaves(h) PROVE CastIInv'
  <2>1. \E goes \in BOOLEAN : Clears(h, goes) /\ (goes => hero[h].online)
    BY <1>9 DEF StopCast, HeroLeaves
  <2> QED
    BY <1>7, <2>1
<1>10. ASSUME NEW s \in Screens, ScreenOff(s) PROVE CastIInv'
  <2> DEFINE h == screen[s].player
             S == [screen EXCEPT ![s].over = TRUE, ![s].player = NoHero]
             H == IF h = NoHero THEN hero
                  ELSE [hero EXCEPT ![h].refs = @ - 1,
                          ![h].owner = IF @ = s /\ ~screen[s].spectator THEN NoScreen ELSE @,
                          ![h].watchers = IF screen[s].spectator /\ hero[h].live
                                          THEN @ \ {s} ELSE @]
  <2>1. Counted(S, H)
    BY <1>10 DEF ScreenOff
  <2>2. h \in Heroes \cup {NoHero}
    BY <1>0 DEF ScreenFields
  <2>3. /\ S \in [Screens -> ScreenFields] /\ S[s].player = NoHero /\ S[s].over
        /\ \A t \in Screens \ {s} : S[t] = screen[t]
    BY <1>0 DEF ScreenFields
  <2>4. h = screen[s].player
    OBVIOUS
  <2> HIDE DEF S, h
  <2>5. CASE h = NoHero
    <3>1. H = hero
      BY <2>5
    <3>2. \A x \in Heroes : x # screen[s].player
      BY <2>4, <2>5
    <3> HIDE DEF H
    <3>3. InOrder(S, H)
      BY <1>0, <2>3, <3>1, <3>2, Drops
    <3> QED
      BY <2>1, <3>3, CountedKeeps
  <2>6. CASE h # NoHero
    <3>1. /\ H \in [Heroes -> HeroFields] /\ H[h].refs = hero[h].refs - 1
          /\ \A x \in Heroes : H[x].online = hero[x].online /\ H[x].protocol = hero[x].protocol
          /\ \A x \in Heroes \ {h} : H[x] = hero[x]
      <4> DEFINE n == hero[h].refs - 1
                 o == IF hero[h].owner = s /\ ~screen[s].spectator THEN NoScreen ELSE hero[h].owner
                 w == IF screen[s].spectator /\ hero[h].live
                      THEN hero[h].watchers \ {s} ELSE hero[h].watchers
                 r == [hero[h] EXCEPT !.refs = n, !.owner = o, !.watchers = w]
      <4>1. n \in Int /\ o \in Screens \cup {NoScreen} /\ w \in SUBSET Screens
        BY <1>0, <2>2, <2>6 DEF HeroFields
      <4>2. H = [hero EXCEPT ![h] = r]
        BY <1>0, <2>6
      <4> HIDE DEF w, o, H
      <4>3. r \in HeroFields
        BY <1>0, <2>2, <2>6, <4>1 DEF HeroFields
      <4>4. r.refs = n /\ r.online = hero[h].online /\ r.protocol = hero[h].protocol
        BY <1>0, <2>2, <2>6, <4>1 DEF HeroFields
      <4> HIDE DEF r
      <4> QED
        BY <1>0, <2>2, <2>6, <4>2, <4>3, <4>4
    <3> HIDE DEF H
    <3>2. \A x \in Heroes :
            H[x].refs = IF x = screen[s].player THEN hero[x].refs - 1 ELSE hero[x].refs
      BY <2>4, <3>1
    <3>3. InOrder(S, H)
      BY <2>3, <3>1, <3>2, Drops
    <3> QED
      BY <2>1, <3>3, CountedKeeps
  <2> QED
    BY <2>5, <2>6
<1>11. ASSUME NEW s \in Screens, NewScreen(s) PROVE CastIInv'
  <2> DEFINE S == [screen EXCEPT ![s] = Waiting]
  <2>1. screen[s].over /\ Counted(S, hero)
    BY <1>11 DEF NewScreen
  <2>2. screen[s].player = NoHero
    BY <2>1 DEF CastIInv, InOrder
  <2>3. /\ S \in [Screens -> ScreenFields] /\ S[s].player = NoHero /\ ~S[s].visits
        /\ \A t \in Screens \ {s} : S[t] = screen[t]
    BY <1>0 DEF ScreenFields, Waiting
  <2> HIDE DEF S
  <2>4. \A x \in Heroes : x # screen[s].player
    BY <2>2
  <2>5. InOrder(S, hero)
    BY <1>0, <2>3, <2>4, Drops
  <2> QED
    BY <2>1, <2>5, CountedKeeps
<1>12. CASE UNCHANGED castVars
  BY <1>12 DEF castVars, CastIInv, InOrder, Holders, Plays, Awaits
<1> QED
  BY <1>1, <1>2, <1>3, <1>4, <1>5, <1>6, <1>8, <1>9, <1>10, <1>11, <1>12 DEF CastNext

(* No Player is deleted while the map has it, while a protocol plays or watches
   it, or while a visitor is to return to it, for any number of protocols,
   casts and visits: releasePlayer gives back at most what was taken. *)
THEOREM PlayersStayHolds == CastSpec => []PlayersStay
<1>1. CastIInv => PlayersStay
  BY DEF CastIInv, InOrder, Holders, Plays, Awaits, PlayersStay
<1> QED
  BY CastInitIInv, CastStep, <1>1, PTL DEF CastSpec

-----------------------------------------------------------------------------
(* The cave bot: the handlers of CaveBot are functions from states to sets of
   states, so that the lemmas say of each from which states it leads where. *)

RecalcTimers == [attempt : Nat, ifWalking : BOOLEAN]
WalkerTimers == {"step", "stuck", "settle", "aux"}
WalkerStates == [walking : BOOLEAN, stopped : BOOLEAN, path : Nat \cup {NoPath},
                 pending : Nat, timers : SUBSET WalkerTimers, recalc : RecalcTimers \cup {NoTimer},
                 lost : SUBSET RecalcTimers, waiter : Loops \cup {NoLoop}]
CaveStates == [enabled : BOOLEAN, stopped : BOOLEAN, paused : BOOLEAN, next : BOOLEAN,
               lost : Nat, resumes : Nat, missed : BOOLEAN]
LoopStates == {"none", "walk", "arrived", "failed", "retry", "act"}
BotStates == [walker : WalkerStates, loop : [Loops -> LoopStates], cave : CaveStates]

(* A timer of _recalcAndWalk that will not return at once. *)
Recalculates(k) ==
  \E t \in ({k.recalc} \cup k.lost) \ {NoTimer} : t.ifWalking => k.walking

(* A state within a callback: who waits for the walker is the loop whose
   promise it has; and unless it is about to end the walk, the walker has not
   been stopped. *)
Paired(w) ==
  /\ w \in BotStates
  /\ \A l \in Loops : w.loop[l] = "walk" <=> w.walker.waiter = l

Sound(w) == Paired(w) /\ (w.walker.waiter # NoLoop => ~w.walker.stopped)

(* A state between callbacks: a walker that somebody waits for also has a
   timer.  The timers of the steps do nothing without a path. *)
Attended(w) ==
  /\ Sound(w)
  /\ w.walker.waiter # NoLoop =>
       \/ Recalculates(w.walker)
       \/ /\ w.walker.walking /\ w.walker.path # NoPath
          /\ w.walker.timers \cap {"step", "stuck"} # {}

(* What the walker does leaves the bot to itself and forgets no loop. *)
Leads(w, v) ==
  /\ Attended(v)
  /\ v.cave = w.cave
  /\ \A l \in Loops : w.loop[l] # "none" => v.loop[l] # "none"

LEMMA NobodyIsNoLoop == NoLoop \notin Loops
BY CaveBotAssumption

(* Only the walker has changed, and not whom it answers to. *)
LEMMA WalkerSet ==
  ASSUME NEW w, Paired(w), NEW k \in WalkerStates, k.waiter = w.walker.waiter,
         NEW v, v = [w EXCEPT !.walker = k]
  PROVE  Paired(v) /\ v.walker = k /\ v.loop = w.loop /\ v.cave = w.cave
<1>1. v \in BotStates /\ v.walker = k /\ v.loop = w.loop /\ v.cave = w.cave
  BY DEF BotStates, Sound, Paired
<1> QED BY <1>1 DEF Sound, Paired

LEMMA ClearKeeps ==
  ASSUME NEW w, Paired(w)
  PROVE  /\ Paired(ClearTimers(w))
         /\ ClearTimers(w).cave = w.cave /\ ClearTimers(w).loop = w.loop
         /\ ClearTimers(w).walker.waiter = w.walker.waiter
         /\ ClearTimers(w).walker.walking = w.walker.walking
         /\ ClearTimers(w).walker.stopped = w.walker.stopped
         /\ ClearTimers(w).walker.path = w.walker.path
<1> DEFINE k == w.walker
           e == [k EXCEPT !.timers = @ \cap {"aux"}, !.recalc = NoTimer]
<1>1. w \in BotStates /\ k \in WalkerStates
  BY DEF Paired, BotStates
<1>3. /\ e \in WalkerStates /\ e.waiter = k.waiter /\ e.walking = k.walking
      /\ e.stopped = k.stopped /\ e.path = k.path
  BY <1>1 DEF WalkerStates
<1>4. ClearTimers(w) = [w EXCEPT !.walker = e]
  BY <1>1 DEF ClearTimers, BotStates, WalkerStates
<1> HIDE DEF e
<1> QED
  BY <1>3, <1>4, WalkerSet

LEMMA FinishKeeps ==
  ASSUME NEW w, Paired(w), NEW result \in {"failed", "arrived"}
  PROVE  /\ Leads(w, FinishWalk(w, result))
         /\ FinishWalk(w, result).walker.waiter = NoLoop
         /\ ~FinishWalk(w, result).walker.walking
<1> DEFINE c == [ClearTimers(w) EXCEPT !.walker.walking = FALSE, !.walker.path = NoPath,
                                       !.walker.pending = 0, !.walker.timers = {}]
<1>1. /\ Paired(c) /\ c.cave = w.cave /\ c.loop = w.loop
      /\ c.walker.waiter = w.walker.waiter /\ ~c.walker.walking
  <2> DEFINE d == ClearTimers(w)
  <2>1. Paired(d) /\ d.cave = w.cave /\ d.loop = w.loop /\ d.walker.waiter = w.walker.waiter
    BY ClearKeeps
  <2> HIDE DEF d
  <2> DEFINE k == d.walker
             e == [k EXCEPT !.walking = FALSE, !.path = NoPath, !.pending = 0, !.timers = {}]
  <2>2. d \in BotStates /\ k \in WalkerStates
    BY <2>1 DEF Paired, BotStates
  <2>3. /\ e \in WalkerStates /\ e.waiter = k.waiter /\ ~e.walking /\ e.stopped = k.stopped
    BY <2>2 DEF WalkerStates
  <2>4. c = [d EXCEPT !.walker.walking = FALSE, !.walker.path = NoPath,
                      !.walker.pending = 0, !.walker.timers = {}]
    BY DEF d
  <2>5. c = [d EXCEPT !.walker = e]
    BY <2>2, <2>4 DEF BotStates, WalkerStates
  <2> HIDE DEF c, e
  <2> QED
    BY <2>1, <2>3, <2>5, WalkerSet
<1>2. FinishWalk(w, result) = SettleWalk(c, result)
  BY DEF FinishWalk
<1> HIDE DEF c
<1>3. CASE c.walker.waiter = NoLoop
  BY <1>1, <1>2, <1>3 DEF SettleWalk, Leads, Attended, Sound, Paired, BotStates
<1>4. CASE c.walker.waiter # NoLoop
  <2> DEFINE l == c.walker.waiter
  <2>1. l \in Loops /\ c.loop \in [Loops -> LoopStates] /\ c \in BotStates
    BY <1>1, <1>4 DEF Paired, BotStates, WalkerStates
  <2> DEFINE v == [c EXCEPT !.loop[l] = result, !.walker.waiter = NoLoop]
  <2>2. /\ v.loop = [c.loop EXCEPT ![l] = result] /\ v.cave = c.cave
        /\ v.walker = [c.walker EXCEPT !.waiter = NoLoop]
    BY <2>1 DEF BotStates
  <2>3. v \in BotStates
    BY <2>1 DEF BotStates, WalkerStates, LoopStates
  <2>4. v.walker.waiter = NoLoop /\ v.walker.walking = c.walker.walking
    BY <2>1, <2>2 DEF BotStates, WalkerStates
  <2>5. FinishWalk(w, result) = v
    BY <1>2, <1>4 DEF SettleWalk
  <2> HIDE DEF v
  <2>6. \A k \in Loops : v.loop[k] # "walk" /\ (w.loop[k] # "none" => v.loop[k] # "none")
    BY <1>1, <2>1, <2>2 DEF Paired
  <2> QED
    BY <1>1, <2>2, <2>3, <2>4, <2>5, <2>6, NobodyIsNoLoop DEF Leads, Attended, Sound, Paired
<1> QED BY <1>3, <1>4

LEMMA StopKeeps ==
  ASSUME NEW w, Paired(w)
  PROVE  Leads(w, StopWalking(w)) /\ StopWalking(w).walker.waiter = NoLoop
<1> DEFINE x == [w EXCEPT !.walker.stopped = TRUE]
           e == [w.walker EXCEPT !.stopped = TRUE]
<1>1. /\ w \in BotStates /\ w.walker \in WalkerStates
      /\ e \in WalkerStates /\ e.waiter = w.walker.waiter
  BY DEF Paired, BotStates, WalkerStates
<1>2. x = [w EXCEPT !.walker = e]
  BY <1>1 DEF BotStates, WalkerStates
<1>3. StopWalking(w) = FinishWalk(x, "failed")
  BY DEF StopWalking
<1> HIDE DEF x, e
<1>4. Paired(x) /\ x.loop = w.loop /\ x.cave = w.cave
  BY <1>1, <1>2, WalkerSet
<1> QED
  BY <1>3, <1>4, FinishKeeps DEF Leads

LEMMA RecalcKeeps ==
  ASSUME NEW w, Sound(w), NEW t \in RecalcTimers, t # NoTimer,
         t.ifWalking => w.walker.walking
  PROVE  /\ Leads(w, RecalcLater(w, t))
         /\ Leads(w, [RecalcLater(w, t) EXCEPT !.walker.path = NoPath])
<1> DEFINE v == RecalcLater(w, t)
           u == [v EXCEPT !.walker.path = NoPath]
<1>1. /\ v \in BotStates /\ v.cave = w.cave /\ v.loop = w.loop
      /\ v.walker.waiter = w.walker.waiter /\ v.walker.stopped = w.walker.stopped
      /\ v.walker.walking = w.walker.walking /\ v.walker.recalc = t
  BY DEF RecalcLater, Sound, Paired, BotStates, WalkerStates
<1> HIDE DEF v
<1>2. /\ u \in BotStates /\ u.cave = w.cave /\ u.loop = w.loop
      /\ u.walker.waiter = w.walker.waiter /\ u.walker.stopped = w.walker.stopped
      /\ u.walker.walking = w.walker.walking /\ u.walker.recalc = t
  BY <1>1 DEF BotStates, WalkerStates
<1> HIDE DEF u
<1> QED
  BY <1>1, <1>2 DEF v, u, Leads, Attended, Sound, Paired, Recalculates

LEMMA ArrivalKeeps ==
  ASSUME NEW w, Sound(w), NEW v \in ArrivalCheck(w)
  PROVE  Leads(w, v)
<1>1. CASE v \in WalkEnds(w)
  BY <1>1, FinishKeeps DEF WalkEnds, Sound
<1>2. CASE v = [RecalcLater(w, Later(0, FALSE)) EXCEPT !.walker.path = NoPath]
  <2>1. /\ Later(0, FALSE) \in RecalcTimers /\ Later(0, FALSE) # NoTimer
        /\ ~Later(0, FALSE).ifWalking
    BY DEF Later, RecalcTimers, NoTimer
  <2> QED BY <1>2, <2>1, RecalcKeeps
<1> QED BY <1>1, <1>2 DEF ArrivalCheck

(* A walker that is left without a timer of its steps, and has a path or
   will be given one, gets a timer from _sendNextStep. *)
LEMMA SendKeeps ==
  ASSUME NEW w, Sound(w),
         w.walker.waiter # NoLoop =>
           Recalculates(w.walker) \/ (w.walker.walking /\ w.walker.path # NoPath),
         NEW v \in SendNextStep(w)
  PROVE  Leads(w, v)
<1> DEFINE k == w.walker
           watched == [w EXCEPT !.walker.timers = @ \cup {"stuck"}]
           sent == [w EXCEPT !.walker.path = @ - 1, !.walker.pending = @ + 1]
           stepping == [sent EXCEPT !.walker.timers = @ \cup {"stuck", "step"}]
<1>1. CASE k.stopped \/ ~k.walking \/ k.path = NoPath
  BY <1>1 DEF SendNextStep, Leads, Attended, Sound, Paired
<1>2. CASE ~(k.stopped \/ ~k.walking \/ k.path = NoPath)
  <2>1. Leads(w, watched)
    BY <1>2 DEF Leads, Attended, Sound, Paired, BotStates, WalkerStates, WalkerTimers
  <2>2. CASE k.path = 0
    BY <1>2, <2>1, <2>2, ArrivalKeeps DEF SendNextStep
  <2>3. CASE k.path # 0
    <3>1. k.path \in Nat /\ k.path > 0 /\ k.pending \in Nat
      BY <1>2, <2>3 DEF Sound, Paired, BotStates, WalkerStates
    <3>2. Sound(sent) /\ sent.cave = w.cave /\ sent.loop = w.loop
          /\ sent.walker.walking /\ sent.walker.path # NoPath
          /\ sent.walker.waiter = w.walker.waiter
      <4> DEFINE e == [k EXCEPT !.path = @ - 1, !.pending = @ + 1]
      <4>1. w \in BotStates /\ k \in WalkerStates
        BY DEF Sound, Paired, BotStates
      <4>2. /\ e \in WalkerStates /\ e.waiter = k.waiter /\ e.walking = k.walking
            /\ e.stopped = k.stopped /\ e.path # NoPath
        <5>1. k.path - 1 \in Nat /\ k.pending + 1 \in Nat /\ k.path - 1 # NoPath
          BY <3>1 DEF NoPath
        <5> QED BY <4>1, <5>1 DEF WalkerStates
      <4>3. sent = [w EXCEPT !.walker = e]
        BY <4>1 DEF BotStates, WalkerStates
      <4> HIDE DEF sent, e
      <4> QED
        BY <1>2, <4>2, <4>3, WalkerSet DEF Sound
    <3>3. v \in {watched, FinishWalk(sent, "failed"), stepping}
      BY <1>2, <2>3 DEF SendNextStep
    <3> HIDE DEF sent
    <3>4. Leads(w, FinishWalk(sent, "failed"))
      BY <3>2, FinishKeeps DEF Leads, Sound
    <3>5. Leads(w, stepping)
      BY <3>2 DEF Leads, Attended, Sound, Paired, BotStates, WalkerStates, WalkerTimers
    <3> QED BY <2>1, <3>3, <3>4, <3>5
  <2> QED BY <2>2, <2>3
<1> QED BY <1>1, <1>2

(* Whatever it finds, _recalcAndWalk ends the walk, tries again later or takes
   a first step. *)
LEMMA RecalcAndWalkKeeps ==
  ASSUME NEW w, Sound(w), NEW attempt \in Nat, NEW v \in RecalcAndWalk(w, attempt)
  PROVE  Leads(w, v)
<1>1. CASE w.walker.stopped
  BY <1>1 DEF RecalcAndWalk, Leads, Attended, Sound, Paired
<1>2. CASE v \in WalkEnds(w)
  BY <1>2, FinishKeeps DEF WalkEnds, Sound
<1>3. CASE v = RecalcLater(w, Later(attempt + 1, FALSE))
  <2>1. /\ Later(attempt + 1, FALSE) \in RecalcTimers /\ Later(attempt + 1, FALSE) # NoTimer
        /\ ~Later(attempt + 1, FALSE).ifWalking
    BY DEF Later, RecalcTimers, NoTimer
  <2> QED BY <1>3, <2>1, RecalcKeeps
<1>4. ASSUME NEW n \in 1..MaxSteps,
             v \in SendNextStep([w EXCEPT !.walker.path = n, !.walker.walking = TRUE,
                                          !.walker.pending = 0])
      PROVE  Leads(w, v)
  <2> DEFINE k == w.walker
             e == [k EXCEPT !.path = n, !.walking = TRUE, !.pending = 0]
             u == [w EXCEPT !.walker.path = n, !.walker.walking = TRUE, !.walker.pending = 0]
  <2>1. w \in BotStates /\ k \in WalkerStates
    BY DEF Sound, Paired, BotStates
  <2>2. /\ e \in WalkerStates /\ e.waiter = k.waiter /\ e.walking
        /\ e.stopped = k.stopped /\ e.path # NoPath
    <3>1. n \in Nat /\ n # NoPath
      BY CaveBotAssumption DEF NoPath
    <3> QED BY <2>1, <3>1 DEF WalkerStates
  <2>3. u = [w EXCEPT !.walker = e]
    BY <2>1 DEF BotStates, WalkerStates
  <2> HIDE DEF e, u
  <2>4. Sound(u) /\ u.walker = e /\ u.loop = w.loop /\ u.cave = w.cave
    BY <2>2, <2>3, WalkerSet DEF Sound
  <2>5. v \in SendNextStep(u)
    BY <1>4 DEF u
  <2> QED
    BY <2>2, <2>4, <2>5, SendKeeps DEF Leads
<1> QED
  BY <1>1, <1>2, <1>3, <1>4 DEF RecalcAndWalk

(* walkTo for a loop that does not wait for the walker: it does afterwards, or
   has been answered, and the loop that was forgotten has gone. *)
LEMMA WalkToKeeps ==
  ASSUME NEW w, Sound(w), NEW l \in Loops, w.loop[l] # "walk", NEW v \in WalkTo(w, l)
  PROVE  Attended(v) /\ v.cave = w.cave /\ v.loop[l] # "none"
<1> DEFINE s == IF w.walker.walking THEN StopWalking(w) ELSE w
           forgotten == {s.walker.waiter} \ {NoLoop}
           begun(aux) ==
             [s EXCEPT !.walker.stopped = FALSE, !.walker.waiter = l, !.walker.pending = 0,
                       !.walker.timers = (@ \ {"aux"}) \cup aux,
                       !.loop = [k \in Loops |-> IF k = l THEN "walk"
                                                 ELSE IF k \in forgotten THEN "none" ELSE @[k]]]
<1>1. Sound(s) /\ s.cave = w.cave
  <2>1. CASE w.walker.walking
    BY <2>1, StopKeeps DEF Leads, Attended, Sound
  <2> QED BY <2>1
<1>2. PICK aux \in {{}, {"aux"}} : v \in RecalcAndWalk(begun(aux), 0)
  BY DEF WalkTo
<1> HIDE DEF s
<1>3. Sound(begun(aux)) /\ begun(aux).cave = s.cave /\ begun(aux).loop[l] = "walk"
  <2> DEFINE k == s.walker
             e == [k EXCEPT !.stopped = FALSE, !.waiter = l, !.pending = 0,
                            !.timers = (@ \ {"aux"}) \cup aux]
             f == [i \in Loops |-> IF i = l THEN "walk"
                                   ELSE IF i \in forgotten THEN "none" ELSE s.loop[i]]
  <2>1. s \in BotStates /\ k \in WalkerStates
    BY <1>1 DEF Sound, Paired, BotStates
  <2>2. e \in WalkerStates /\ e.waiter = l /\ ~e.stopped
    BY <2>1 DEF WalkerStates, WalkerTimers
  <2>3. f \in [Loops -> LoopStates]
    BY <2>1 DEF BotStates, LoopStates
  <2>4. begun(aux) = [s EXCEPT !.walker = e, !.loop = f]
    BY <2>1 DEF BotStates, WalkerStates
  <2>5. \A i \in Loops : f[i] = "walk" <=> i = l
    BY <1>1, NobodyIsNoLoop DEF Sound, Paired
  <2> HIDE DEF e, f
  <2> DEFINE b == [s EXCEPT !.walker = e, !.loop = f]
  <2>6. b \in BotStates /\ b.walker = e /\ b.loop = f /\ b.cave = s.cave
    BY <2>1, <2>2, <2>3 DEF BotStates
  <2>7. begun(aux) = b
    BY <2>4
  <2> HIDE DEF b, begun
  <2>8. Sound(b)
    BY <2>2, <2>5, <2>6 DEF Sound, Paired
  <2>9. b.loop[l] = "walk"
    BY <2>5, <2>6
  <2> QED
    BY <2>6, <2>7, <2>8, <2>9
<1> HIDE DEF begun
<1> QED
  BY <1>1, <1>2, <1>3, RecalcAndWalkKeeps DEF Leads

(* A bot that is on and has not missed a way point has a timer of its own or a
   loop under way. *)
Onward(w) ==
  /\ w.cave.stopped => ~w.cave.enabled
  /\ w.cave.enabled /\ ~w.cave.paused /\ ~w.cave.missed =>
       w.cave.next \/ w.cave.lost > 0 \/ \E l \in Loops : w.loop[l] # "none"

BotIInv == Attended(BotNow) /\ Onward(BotNow)

LEMMA LeadsOnward ==
  ASSUME NEW w, Onward(w), NEW v, Leads(w, v)
  PROVE  Attended(v) /\ Onward(v)
BY DEF Leads, Onward

LEMMA BecomesOne ==
  ASSUME NEW S, BotBecomes(S), \A v \in S : Attended(v) /\ Onward(v)
  PROVE  BotIInv'
<1>1. PICK v \in S : walker' = v.walker /\ loop' = v.loop /\ cave' = v.cave
  BY DEF BotBecomes
<1>2. Attended(v) /\ Onward(v) /\ v \in BotStates
  BY DEF Attended, Sound, Paired
<1>3. BotNow' = v
  BY <1>1, <1>2 DEF BotNow, BotStates
<1> QED
  BY <1>2, <1>3 DEF BotIInv

LEMMA CaveSet ==
  ASSUME NEW w, Attended(w), NEW c \in CaveStates, NEW v, v = [w EXCEPT !.cave = c]
  PROVE  Attended(v) /\ v.cave = c /\ v.loop = w.loop /\ v.walker = w.walker
<1>1. v \in BotStates /\ v.cave = c /\ v.loop = w.loop /\ v.walker = w.walker
  BY DEF BotStates, Attended, Sound, Paired
<1> QED BY <1>1 DEF Attended, Sound, Paired

LEMMA LoopSet ==
  ASSUME NEW w, Attended(w), NEW l \in Loops, w.loop[l] # "walk",
         NEW x \in LoopStates, x # "walk", NEW v, v = [w EXCEPT !.loop[l] = x]
  PROVE  Attended(v) /\ v.cave = w.cave /\ v.loop[l] = x /\ v.walker = w.walker
<1>1. /\ v \in BotStates /\ v.cave = w.cave /\ v.walker = w.walker
      /\ v.loop = [w.loop EXCEPT ![l] = x] /\ w.loop \in [Loops -> LoopStates]
  BY DEF BotStates, Attended, Sound, Paired
<1> QED BY <1>1 DEF Attended, Sound, Paired

LEMMA ClearNextKeeps ==
  ASSUME NEW w, Attended(w)
  PROVE  /\ Attended(ClearNext(w)) /\ ClearNext(w).loop = w.loop
         /\ ClearNext(w).cave.enabled = w.cave.enabled
         /\ ClearNext(w).cave.stopped = w.cave.stopped
         /\ ClearNext(w).cave.paused = w.cave.paused
         /\ ClearNext(w).cave.lost = w.cave.lost
<1> DEFINE c == [w.cave EXCEPT !.next = FALSE]
<1>1. w \in BotStates /\ w.cave \in CaveStates
  BY DEF Attended, Sound, Paired, BotStates
<1>2. /\ c \in CaveStates /\ c.enabled = w.cave.enabled /\ c.stopped = w.cave.stopped
      /\ c.paused = w.cave.paused /\ c.lost = w.cave.lost
  BY <1>1 DEF CaveStates
<1>3. ClearNext(w) = [w EXCEPT !.cave = c]
  BY <1>1 DEF ClearNext, BotStates, CaveStates
<1> HIDE DEF c
<1> QED BY <1>2, <1>3, CaveSet

LEMMA StopBotKeeps ==
  ASSUME NEW w, Attended(w)
  PROVE  Attended(StopBot(w)) /\ Onward(StopBot(w))
<1> DEFINE c == [w.cave EXCEPT !.enabled = FALSE, !.stopped = TRUE]
           v == [w EXCEPT !.cave.enabled = FALSE, !.cave.stopped = TRUE]
<1>1. w \in BotStates /\ w.cave \in CaveStates
  BY DEF Attended, Sound, Paired, BotStates
<1>2. c \in CaveStates /\ ~c.enabled /\ v = [w EXCEPT !.cave = c]
  BY <1>1 DEF BotStates, CaveStates
<1> HIDE DEF c, v
<1>3. Attended(v) /\ ~v.cave.enabled
  BY <1>2, CaveSet
<1>4. Attended(StopWalking(v)) /\ ~StopWalking(v).cave.enabled
  BY <1>3, StopKeeps DEF Leads, Attended, Sound
<1>5. StopBot(w) = ClearNext(StopWalking(v))
  BY DEF StopBot, v
<1> QED BY <1>4, <1>5, ClearNextKeeps DEF Onward

LEMMA PauseBotKeeps ==
  ASSUME NEW w, Attended(w), w.cave.stopped => ~w.cave.enabled
  PROVE  Attended(PauseBot(w)) /\ Onward(PauseBot(w))
<1>1. CASE w.cave.enabled
  <2> DEFINE c == [w.cave EXCEPT !.paused = TRUE]
             v == [w EXCEPT !.cave.paused = TRUE]
  <2>1. w \in BotStates /\ w.cave \in CaveStates
    BY DEF Attended, Sound, Paired, BotStates
  <2>2. /\ c \in CaveStates /\ c.paused /\ c.stopped = w.cave.stopped
        /\ c.enabled = w.cave.enabled /\ v = [w EXCEPT !.cave = c]
    BY <2>1 DEF BotStates, CaveStates
  <2> HIDE DEF c, v
  <2>3. Attended(v) /\ v.cave = c
    BY <2>2, CaveSet
  <2>4. Attended(StopWalking(v)) /\ StopWalking(v).cave = c
    BY <2>3, StopKeeps DEF Leads, Attended, Sound
  <2>5. PauseBot(w) = ClearNext(StopWalking(v))
    BY <1>1 DEF PauseBot, v
  <2> QED BY <2>2, <2>4, <2>5, ClearNextKeeps DEF Onward
<1>2. CASE ~w.cave.enabled
  BY <1>2 DEF PauseBot, Onward
<1> QED BY <1>1, <1>2

LEMMA AdvanceKeeps ==
  ASSUME NEW w, Attended(w), w.cave.stopped => ~w.cave.enabled,
         NEW l \in Loops, w.loop[l] # "walk", NEW v \in Advance(w, l)
  PROVE  Attended(v) /\ Onward(v)
<1> DEFINE d == [w EXCEPT !.loop[l] = "none"]
           c == [d.cave EXCEPT !.next = TRUE, !.lost = IF d.cave.next THEN @ + 1 ELSE @]
           u == [d EXCEPT !.cave.next = TRUE, !.cave.lost = IF d.cave.next THEN @ + 1 ELSE @]
<1>1. Attended(d) /\ d.cave = w.cave
  BY LoopSet DEF LoopStates
<1>2. v \in {StopBot(d), u}
  BY DEF Advance
<1> HIDE DEF d
<1>3. Attended(StopBot(d)) /\ Onward(StopBot(d))
  BY <1>1, StopBotKeeps
<1>4. d \in BotStates /\ d.cave \in CaveStates
  BY <1>1 DEF Attended, Sound, Paired, BotStates
<1>5. c \in CaveStates /\ c.next /\ c.stopped = d.cave.stopped /\ c.enabled = d.cave.enabled
  <2>1. (IF d.cave.next THEN d.cave.lost + 1 ELSE d.cave.lost) \in Nat
    BY <1>4 DEF CaveStates
  <2> QED BY <1>4, <2>1 DEF CaveStates
<1>6. u = [d EXCEPT !.cave = c]
  BY <1>4 DEF BotStates, CaveStates
<1> HIDE DEF c, u
<1>7. Attended(u) /\ u.cave = c
  BY <1>1, <1>5, <1>6, CaveSet
<1> QED
  BY <1>1, <1>2, <1>3, <1>5, <1>7 DEF Onward

LEMMA ProcessKeeps ==
  ASSUME NEW w, Attended(w), w.cave.stopped => ~w.cave.enabled,
         NEW v \in ProcessNextWaypoint(w)
  PROVE  Attended(v) /\ Onward(v)
<1>0. w \in BotStates /\ w.cave \in CaveStates /\ w.loop \in [Loops -> LoopStates]
  BY DEF Attended, Sound, Paired, BotStates
<1>1. CASE OnHold(w) \/ ~w.cave.enabled
  BY <1>1 DEF ProcessNextWaypoint, OnHold, Onward
<1>2. CASE v = PauseBot(w)
  BY <1>2, PauseBotKeeps
<1>3. CASE v = [w EXCEPT !.cave.missed = TRUE]
  <2> DEFINE c == [w.cave EXCEPT !.missed = TRUE]
  <2>1. c \in CaveStates /\ c.missed /\ c.stopped = w.cave.stopped /\ c.enabled = w.cave.enabled
    BY <1>0 DEF CaveStates
  <2>2. v = [w EXCEPT !.cave = c]
    BY <1>0, <1>3 DEF BotStates, CaveStates
  <2> HIDE DEF c
  <2> QED BY <2>1, <2>2, CaveSet DEF Onward
<1>4. ASSUME NEW l \in Loops, w.loop[l] = "none",
             v \in Advance([w EXCEPT !.cave.missed = FALSE], l)
                   \cup WalkTo([w EXCEPT !.cave.missed = FALSE], l)
      PROVE  Attended(v) /\ Onward(v)
  <2> DEFINE c == [w.cave EXCEPT !.missed = FALSE]
             u == [w EXCEPT !.cave.missed = FALSE]
  <2>1. c \in CaveStates /\ c.stopped = w.cave.stopped /\ c.enabled = w.cave.enabled
    BY <1>0 DEF CaveStates
  <2>2. u = [w EXCEPT !.cave = c]
    BY <1>0 DEF BotStates, CaveStates
  <2> HIDE DEF c, u
  <2>3. Attended(u) /\ u.cave = c /\ u.loop = w.loop
    BY <2>1, <2>2, CaveSet
  <2>4. CASE v \in Advance(u, l)
    BY <1>4, <2>1, <2>3, <2>4, AdvanceKeeps
  <2>5. CASE v \in WalkTo(u, l)
    BY <1>4, <2>1, <2>3, <2>5, WalkToKeeps DEF Onward, Attended
  <2> QED BY <1>4, <2>4, <2>5 DEF u
<1> QED
  BY <1>1, <1>2, <1>3, <1>4 DEF ProcessNextWaypoint

(* Nobody waits for a walker whose timers have all returned; the steps of one
   that walks are those of a path. *)
LEMMA BotParts ==
  ASSUME BotIInv
  PROVE  /\ BotNow \in BotStates /\ walker \in WalkerStates /\ cave \in CaveStates
         /\ loop \in [Loops -> LoopStates]
         /\ Attended(BotNow) /\ Sound(BotNow) /\ Paired(BotNow) /\ Onward(BotNow)
         /\ BotNow.walker = walker /\ BotNow.loop = loop /\ BotNow.cave = cave
         /\ cave.stopped => ~cave.enabled
BY DEF BotIInv, Attended, Sound, Paired, Onward, BotNow, BotStates

(* Without one of its timers of steps the state is sound, and has the rest. *)
LEMMA WithoutTimer ==
  ASSUME BotIInv, NEW t, NEW w, w = [BotNow EXCEPT !.walker.timers = @ \ {t}]
  PROVE  /\ Sound(w) /\ w.cave = cave /\ w.loop = loop
         /\ w.walker = [walker EXCEPT !.timers = @ \ {t}]
<1> DEFINE e == [walker EXCEPT !.timers = @ \ {t}]
<1>1. e \in WalkerStates /\ e.waiter = walker.waiter /\ e.stopped = walker.stopped
  BY BotParts DEF WalkerStates
<1>2. w = [BotNow EXCEPT !.walker = e]
  BY BotParts DEF BotNow
<1> HIDE DEF e
<1>3. Paired(w) /\ w.walker = e /\ w.loop = loop /\ w.cave = cave
  <2>1. Paired(BotNow) /\ e.waiter = BotNow.walker.waiter
    BY <1>1, BotParts
  <2>2. /\ Paired([BotNow EXCEPT !.walker = e]) /\ [BotNow EXCEPT !.walker = e].walker = e
        /\ [BotNow EXCEPT !.walker = e].loop = BotNow.loop
        /\ [BotNow EXCEPT !.walker = e].cave = BotNow.cave
    BY <1>1, <2>1, WalkerSet
  <2> QED BY <1>2, <2>2, BotParts
<1> QED
  BY <1>1, <1>3, BotParts DEF Sound, e

(* Without the timers of the steps and without steps that wait for an answer. *)
LEMMA ClearedKeeps ==
  ASSUME NEW w, Sound(w), NEW v, v = [ClearTimers(w) EXCEPT !.walker.pending = 0]
  PROVE  /\ Sound(v) /\ v.cave = w.cave /\ v.loop = w.loop
         /\ v.walker.walking = w.walker.walking /\ v.walker.stopped = w.walker.stopped
<1> DEFINE d == ClearTimers(w)
           e == [d.walker EXCEPT !.pending = 0]
<1>1. /\ Paired(d) /\ d.cave = w.cave /\ d.loop = w.loop /\ d.walker.waiter = w.walker.waiter
      /\ d.walker.walking = w.walker.walking /\ d.walker.stopped = w.walker.stopped
  BY ClearKeeps DEF Sound
<1>2. v = [d EXCEPT !.walker.pending = 0]
  OBVIOUS
<1> HIDE DEF d
<1>3. d \in BotStates /\ d.walker \in WalkerStates
  BY <1>1 DEF Paired, BotStates
<1>4. /\ e \in WalkerStates /\ e.waiter = d.walker.waiter /\ e.stopped = d.walker.stopped
      /\ e.walking = d.walker.walking
  BY <1>3 DEF WalkerStates
<1>5. v = [d EXCEPT !.walker = e]
  BY <1>2, <1>3 DEF BotStates, WalkerStates
<1> HIDE DEF e
<1>6. Paired(v) /\ v.walker = e /\ v.loop = d.loop /\ v.cave = d.cave
  <2>1. /\ Paired([d EXCEPT !.walker = e]) /\ [d EXCEPT !.walker = e].walker = e
        /\ [d EXCEPT !.walker = e].loop = d.loop /\ [d EXCEPT !.walker = e].cave = d.cave
    BY <1>1, <1>4, WalkerSet
  <2> QED BY <1>5, <2>1
<1> QED
  BY <1>1, <1>4, <1>6 DEF Sound

LEMMA PositionChangeStep == BotIInv /\ PositionChange => BotIInv'
<1> SUFFICES ASSUME BotIInv, PositionChange PROVE BotIInv'
  OBVIOUS
<1>1. walker' = [walker EXCEPT !.timers = @ \cup {"settle"}] /\ UNCHANGED <<loop, cave>>
  BY DEF PositionChange
<1>2. /\ walker' \in WalkerStates /\ walker'.waiter = walker.waiter
      /\ walker'.stopped = walker.stopped /\ walker'.walking = walker.walking
      /\ walker'.path = walker.path /\ walker'.recalc = walker.recalc
      /\ walker'.lost = walker.lost /\ walker.timers \subseteq walker'.timers
  BY <1>1, BotParts DEF WalkerStates, WalkerTimers
<1>3. BotNow' \in BotStates
  BY <1>1, <1>2, BotParts DEF BotNow, BotStates
<1>4. Attended(BotNow')
  BY <1>1, <1>2, <1>3, BotParts DEF Attended, Sound, Paired, BotNow, Recalculates
<1>5. Onward(BotNow')
  BY <1>1, BotParts DEF Onward, BotNow
<1> QED BY <1>4, <1>5 DEF BotIInv

LEMMA IfWalkingIs ==
  /\ Later(0, TRUE) \in RecalcTimers /\ Later(0, TRUE) # NoTimer
  /\ Later(0, FALSE) \in RecalcTimers /\ Later(0, FALSE) # NoTimer
  /\ ~Later(0, FALSE).ifWalking
BY DEF Later, RecalcTimers, NoTimer

LEMMA CancelWalkStep == BotIInv /\ CancelWalk => BotIInv'
<1> SUFFICES ASSUME BotIInv, CancelWalk PROVE BotIInv'
  OBVIOUS
<1> DEFINE w == [ClearTimers(BotNow) EXCEPT !.walker.pending = 0]
<1>1. /\ Sound(w) /\ w.cave = cave /\ w.loop = loop /\ w.walker.walking
  BY BotParts, ClearedKeeps DEF CancelWalk, Walking
<1>2. BotBecomes({FinishWalk(w, "failed"),
                  [RecalcLater(w, Later(0, TRUE)) EXCEPT !.walker.path = NoPath]})
  BY DEF CancelWalk
<1> HIDE DEF w
<1>3. Leads(w, FinishWalk(w, "failed"))
  BY <1>1, FinishKeeps DEF Sound
<1>4. Leads(w, [RecalcLater(w, Later(0, TRUE)) EXCEPT !.walker.path = NoPath])
  BY <1>1, IfWalkingIs, RecalcKeeps
<1>5. Onward(w)
  BY <1>1, BotParts DEF Onward
<1> QED
  BY <1>2, <1>3, <1>4, <1>5, LeadsOnward, BecomesOne

LEMMA WalkerTimerStep ==
  ASSUME BotIInv, NEW t \in walker.timers, WalkerTimer(t)
  PROVE  BotIInv'
<1> DEFINE w == [BotNow EXCEPT !.walker.timers = @ \ {t}]
<1>1. /\ Sound(w) /\ w.cave = cave /\ w.loop = loop
      /\ w.walker = [walker EXCEPT !.timers = @ \ {t}]
  BY WithoutTimer
<1>2. /\ w.walker.walking = walker.walking /\ w.walker.stopped = walker.stopped
      /\ w.walker.path = walker.path /\ w.walker.waiter = walker.waiter
      /\ w.walker.recalc = walker.recalc /\ w.walker.lost = walker.lost
      /\ w.walker.timers = walker.timers \ {t}
  BY <1>1, BotParts DEF WalkerStates
<1>3. t \in WalkerTimers
  BY BotParts DEF WalkerStates
<1>4. Onward(w)
  BY <1>1, BotParts DEF Onward
<1>5. walker.waiter # NoLoop =>
        Recalculates(w.walker) \/ (w.walker.walking /\ w.walker.path # NoPath)
  BY <1>2, BotParts DEF Attended, Recalculates
<1>6. (t \notin {"step", "stuck"} \/ ~walker.walking) => Attended(w)
  BY <1>1, <1>2, BotParts DEF Attended, Recalculates
<1>7. Leads(w, w) <=> Attended(w)
  BY DEF Leads
<1>8. CASE t = "step"
  <2>1. BotBecomes(SendNextStep(w))
    BY <1>8 DEF WalkerTimer
  <2> HIDE DEF w
  <2> QED
    BY <1>1, <1>2, <1>4, <1>5, <2>1, SendKeeps, LeadsOnward, BecomesOne
<1>9. CASE t = "stuck"
  <2> DEFINE c == [ClearTimers(w) EXCEPT !.walker.pending = 0]
  <2>1. BotBecomes(StuckDetected(w))
    BY <1>9 DEF WalkerTimer
  <2> HIDE DEF w
  <2>2. CASE ~Walking
    <3>1. Attended(w)
      BY <1>1, <1>2, <1>6, <2>2, BotParts DEF Walking, Attended, Sound
    <3> QED
      BY <1>4, <2>1, <2>2, <3>1, BecomesOne DEF StuckDetected
  <2>3. CASE Walking
    <3>1. Sound(c) /\ c.cave = cave /\ c.loop = loop /\ c.walker.walking
      BY <1>1, <1>2, <2>3, ClearedKeeps DEF Walking
    <3>2. StuckDetected(w)
            = WalkEnds(w) \cup {[RecalcLater(c, Later(0, TRUE)) EXCEPT !.walker.path = NoPath]}
      BY <2>3 DEF StuckDetected
    <3> HIDE DEF c
    <3>3. Leads(c, [RecalcLater(c, Later(0, TRUE)) EXCEPT !.walker.path = NoPath])
      BY <3>1, IfWalkingIs, RecalcKeeps
    <3>4. \A v \in WalkEnds(w) : Leads(w, v)
      BY <1>1, FinishKeeps DEF WalkEnds, Sound
    <3>5. Onward(c)
      BY <1>1, <1>4, <3>1 DEF Onward
    <3> QED
      BY <1>4, <2>1, <3>2, <3>3, <3>4, <3>5, LeadsOnward, BecomesOne
  <2> QED BY <2>2, <2>3
<1>10. CASE t = "settle"
  <2> DEFINE c == [w EXCEPT !.walker.pending = IF @ = 0 THEN 0 ELSE @ - 1,
                            !.walker.timers = @ \ {"stuck"}]
             e == [w.walker EXCEPT !.pending = IF @ = 0 THEN 0 ELSE @ - 1,
                                   !.timers = @ \ {"stuck"}]
  <2>1. BotBecomes(PositionSettled(w)) /\ Attended(w)
    BY <1>6, <1>10 DEF WalkerTimer
  <2>2. w \in BotStates /\ w.walker \in WalkerStates
    BY <1>1 DEF Sound, Paired, BotStates
  <2>3. PositionSettled(w) \subseteq {w, FinishWalk(c, "arrived")} \cup ArrivalCheck(c)
                                    \cup SendNextStep(c)
    BY DEF PositionSettled
  <2> HIDE DEF w
  <2>4. (IF w.walker.pending = 0 THEN 0 ELSE w.walker.pending - 1) \in Nat
    BY <2>2 DEF WalkerStates
  <2>5. /\ e \in WalkerStates /\ e.waiter = w.walker.waiter /\ e.stopped = w.walker.stopped
        /\ e.walking = w.walker.walking /\ e.path = w.walker.path
        /\ e.recalc = w.walker.recalc /\ e.lost = w.walker.lost
    BY <2>2, <2>4 DEF WalkerStates
  <2>6. c = [w EXCEPT !.walker = e]
    BY <2>2 DEF BotStates, WalkerStates
  <2> HIDE DEF c, e
  <2>7. Sound(c) /\ c.walker = e /\ c.loop = loop /\ c.cave = cave
    <3>1. Paired(c) /\ c.walker = e /\ c.loop = w.loop /\ c.cave = w.cave
      <4>1. Paired(w)
        BY <1>1 DEF Sound
      <4>2. /\ Paired([w EXCEPT !.walker = e]) /\ [w EXCEPT !.walker = e].walker = e
            /\ [w EXCEPT !.walker = e].loop = w.loop /\ [w EXCEPT !.walker = e].cave = w.cave
        BY <2>5, <4>1, WalkerSet
      <4> QED BY <2>6, <4>2
    <3> QED BY <1>1, <2>5, <3>1 DEF Sound
  <2>8. Onward(c) /\ Paired(c)
    BY <1>1, <1>4, <2>7 DEF Onward, Sound
  <2>9. Leads(c, FinishWalk(c, "arrived")) /\ \A v \in ArrivalCheck(c) : Leads(c, v)
    BY <2>7, <2>8, FinishKeeps, ArrivalKeeps
  <2>10. \A v \in SendNextStep(c) : Leads(c, v)
    <3>1. c.walker.waiter # NoLoop =>
            Recalculates(c.walker) \/ (c.walker.walking /\ c.walker.path # NoPath)
      BY <1>2, <1>5, <2>5, <2>7 DEF Recalculates
    <3> QED BY <2>7, <3>1, SendKeeps
  <2> QED
    BY <1>4, <2>1, <2>3, <2>8, <2>9, <2>10, LeadsOnward, BecomesOne
<1>11. CASE t = "aux"
  <2> DEFINE c == [ClearTimers(w) EXCEPT !.walker.pending = 0]
  <2>1. BotBecomes(SwitchToAuxCoord(w)) /\ Attended(w)
    BY <1>6, <1>11 DEF WalkerTimer
  <2>2. SwitchToAuxCoord(w) \subseteq {w, FinishWalk(w, "arrived")} \cup RecalcAndWalk(c, 0)
    BY DEF SwitchToAuxCoord
  <2> HIDE DEF w
  <2>3. Sound(c) /\ c.cave = cave /\ c.loop = loop
    BY <1>1, ClearedKeeps
  <2> HIDE DEF c
  <2>4. \A v \in RecalcAndWalk(c, 0) : Leads(c, v)
    BY <2>3, RecalcAndWalkKeeps
  <2>5. Leads(w, FinishWalk(w, "arrived"))
    BY <1>1, FinishKeeps DEF Sound
  <2>6. Onward(c)
    BY <1>1, <1>4, <2>3 DEF Onward
  <2> QED
    BY <1>4, <2>1, <2>2, <2>4, <2>5, <2>6, LeadsOnward, BecomesOne
<1> QED
  BY <1>3, <1>8, <1>9, <1>10, <1>11 DEF WalkerTimers

(* One that fires in vain, because the walker has stopped walking, leaves the
   other one, which does not ask. *)
LEMMA RecalcTimerStep ==
  ASSUME BotIInv, NEW t \in {walker.recalc} \cup walker.lost, RecalcTimer(t)
  PROVE  BotIInv'
<1> DEFINE others == (({walker.recalc} \cup walker.lost) \ {t, NoTimer})
                     \cup ({walker.recalc} \cap {t} \cap walker.lost)
           w == [BotNow EXCEPT !.walker.recalc = NoTimer, !.walker.lost = others]
           e == [walker EXCEPT !.recalc = NoTimer, !.lost = others]
<1>1. walker.recalc \in RecalcTimers \cup {NoTimer} /\ walker.lost \subseteq RecalcTimers
      /\ others \subseteq RecalcTimers
  BY BotParts DEF WalkerStates
<1>2. t \in RecalcTimers
  BY <1>1 DEF RecalcTimer
<1>3. BotBecomes(IF t.ifWalking /\ ~walker.walking THEN {w} ELSE RecalcAndWalk(w, t.attempt))
  BY DEF RecalcTimer
<1> HIDE DEF others
<1>4. /\ e \in WalkerStates /\ e.waiter = walker.waiter /\ e.stopped = walker.stopped
      /\ e.walking = walker.walking /\ e.lost = others /\ e.recalc = NoTimer
  BY <1>1, BotParts DEF WalkerStates
<1>5. w = [BotNow EXCEPT !.walker = e]
  BY BotParts DEF BotNow
<1> HIDE DEF w, e
<1>6. Sound(w) /\ w.walker = e /\ w.loop = loop /\ w.cave = cave
  <2>1. /\ Paired([BotNow EXCEPT !.walker = e]) /\ [BotNow EXCEPT !.walker = e].walker = e
        /\ [BotNow EXCEPT !.walker = e].loop = BotNow.loop
        /\ [BotNow EXCEPT !.walker = e].cave = BotNow.cave
    BY <1>4, BotParts, WalkerSet
  <2> QED BY <1>4, <1>5, <2>1, BotParts DEF Sound
<1>7. Onward(w)
  BY <1>6, BotParts DEF Onward
<1>8. CASE t.ifWalking /\ ~walker.walking
  <2>1. Attended(w)
    <3>1. CASE walker.waiter # NoLoop
      <4>1. PICK u \in ({walker.recalc} \cup walker.lost) \ {NoTimer} : ~u.ifWalking
        BY <1>8, <3>1, BotParts DEF Attended, Recalculates
      <4>2. u \in others
        BY <1>8, <4>1 DEF others
      <4>3. u # NoTimer
        BY <4>1
      <4> QED BY <1>4, <1>6, <4>1, <4>2, <4>3 DEF Attended, Recalculates
    <3>2. CASE walker.waiter = NoLoop
      BY <1>4, <1>6, <3>2 DEF Attended
    <3> QED BY <3>1, <3>2
  <2> QED BY <1>3, <1>7, <1>8, <2>1, BecomesOne
<1>9. CASE ~(t.ifWalking /\ ~walker.walking)
  <2>1. t.attempt \in Nat
    BY <1>2 DEF RecalcTimers
  <2>2. \A v \in RecalcAndWalk(w, t.attempt) : Leads(w, v)
    BY <1>6, <2>1, RecalcAndWalkKeeps
  <2> QED BY <1>3, <1>7, <1>9, <2>2, LeadsOnward, BecomesOne
<1> QED BY <1>8, <1>9

LEMMA AnsweredStep ==
  ASSUME BotIInv, NEW l \in Settled, Continue(l)
  PROVE  BotIInv'
<1>1. l \in Loops /\ loop[l] # "walk" /\ BotNow.loop[l] # "walk"
  BY BotParts DEF Settled
<1>2. CASE OnHold(BotNow)
  <2> DEFINE v == [BotNow EXCEPT !.loop[l] = "none"]
  <2>1. BotBecomes({v})
    BY <1>2 DEF Continue
  <2>2. Attended(v) /\ v.cave = cave
    BY <1>1, BotParts, LoopSet DEF LoopStates
  <2> HIDE DEF v
  <2>3. Onward(v)
    BY <1>2, <2>2, BotParts DEF Onward, OnHold
  <2> QED BY <2>1, <2>2, <2>3, BecomesOne
<1>3. CASE ~OnHold(BotNow)
  <2>1. ASSUME NEW x \in {"act", "retry"}
        PROVE  Attended([BotNow EXCEPT !.loop[l] = x]) /\ Onward([BotNow EXCEPT !.loop[l] = x])
    <3> DEFINE v == [BotNow EXCEPT !.loop[l] = x]
    <3>1. Attended(v) /\ v.cave = cave /\ v.loop[l] = x
      BY <1>1, BotParts, LoopSet DEF LoopStates
    <3> HIDE DEF v
    <3>2. Onward(v)
      BY <1>1, <3>1, BotParts DEF Onward
    <3> QED BY <3>1, <3>2 DEF v
  <2>2. \A v \in Advance(BotNow, l) : Attended(v) /\ Onward(v)
    BY <1>1, BotParts, AdvanceKeeps
  <2>3. \/ BotBecomes({[BotNow EXCEPT !.loop[l] = "act"]})
        \/ BotBecomes({[BotNow EXCEPT !.loop[l] = "retry"]} \cup Advance(BotNow, l))
    BY <1>3 DEF Continue
  <2> QED BY <2>1, <2>2, <2>3, BecomesOne
<1> QED BY <1>2, <1>3

LEMMA LoopSteps ==
  ASSUME BotIInv, NEW l \in Loops, RetryWalk(l) \/ Acted(l)
  PROVE  BotIInv'
<1>1. loop[l] # "walk" /\ BotNow.loop[l] # "walk"
  BY BotParts DEF RetryWalk, Acted
<1>2. CASE Acted(l)
  BY <1>1, <1>2, BotParts, AdvanceKeeps, BecomesOne DEF Acted
<1>3. CASE RetryWalk(l) /\ OnHold(BotNow)
  <2> DEFINE v == [BotNow EXCEPT !.loop[l] = "none"]
  <2>1. BotBecomes({v})
    BY <1>3 DEF RetryWalk
  <2>2. Attended(v) /\ v.cave = cave
    BY <1>1, BotParts, LoopSet DEF LoopStates
  <2> HIDE DEF v
  <2>3. Onward(v)
    BY <1>3, <2>2, BotParts DEF Onward, OnHold
  <2> QED BY <2>1, <2>2, <2>3, BecomesOne
<1>4. CASE RetryWalk(l) /\ ~OnHold(BotNow)
  <2>1. BotBecomes(WalkTo(BotNow, l))
    BY <1>4 DEF RetryWalk
  <2>2. \A v \in WalkTo(BotNow, l) : Attended(v) /\ v.cave = cave /\ v.loop[l] # "none"
    BY <1>1, BotParts, WalkToKeeps
  <2>3. \A v \in WalkTo(BotNow, l) : Onward(v)
    BY <2>2, BotParts DEF Onward
  <2> QED BY <2>1, <2>2, <2>3, BecomesOne
<1> QED BY <1>2, <1>3, <1>4

LEMMA LoopTimeoutStep ==
  ASSUME BotIInv, LoopTimeout
  PROVE  BotIInv'
<1> DEFINE c == [cave EXCEPT !.lost = @ - 1]
           w == [BotNow EXCEPT !.cave.lost = @ - 1]
<1>1. \/ BotBecomes(ProcessNextWaypoint(ClearNext(BotNow)))
      \/ cave.lost > 0 /\ BotBecomes(ProcessNextWaypoint(w))
  BY DEF LoopTimeout
<1>2. CASE BotBecomes(ProcessNextWaypoint(ClearNext(BotNow)))
  BY <1>2, BotParts, ClearNextKeeps, ProcessKeeps, BecomesOne
<1>3. CASE cave.lost > 0 /\ BotBecomes(ProcessNextWaypoint(w))
  <2>1. cave.lost - 1 \in Nat
    BY <1>3, BotParts DEF CaveStates
  <2>2. c \in CaveStates /\ c.stopped = cave.stopped /\ c.enabled = cave.enabled
    BY <2>1, BotParts DEF CaveStates
  <2>3. w = [BotNow EXCEPT !.cave = c]
    BY BotParts DEF BotNow
  <2> HIDE DEF c, w
  <2>4. Attended(w) /\ w.cave = c
    BY <2>2, <2>3, BotParts, CaveSet
  <2> QED
    BY <1>3, <2>2, <2>4, BotParts, ProcessKeeps, BecomesOne
<1> QED BY <1>1, <1>2, <1>3

LEMMA StartBotStep ==
  ASSUME BotIInv, StartBot
  PROVE  BotIInv'
<1> DEFINE c == [cave EXCEPT !.enabled = TRUE, !.stopped = FALSE, !.paused = FALSE]
           w == [BotNow EXCEPT !.cave.enabled = TRUE, !.cave.stopped = FALSE,
                               !.cave.paused = FALSE]
<1>1. BotBecomes({PauseBot(w)} \cup ProcessNextWaypoint(w))
  BY DEF StartBot
<1>2. c \in CaveStates /\ ~c.stopped
  BY BotParts DEF CaveStates
<1>3. w = [BotNow EXCEPT !.cave = c]
  BY BotParts DEF BotNow, CaveStates
<1> HIDE DEF c, w
<1>4. Attended(w) /\ w.cave = c
  BY <1>2, <1>3, BotParts, CaveSet
<1> QED
  BY <1>1, <1>2, <1>4, PauseBotKeeps, ProcessKeeps, BecomesOne

LEMMA ResumedKeeps ==
  ASSUME NEW w, Attended(w), Onward(w), NEW v \in Resumed(w)
  PROVE  Attended(v) /\ Onward(v)
<1> DEFINE c == [w.cave EXCEPT !.paused = FALSE]
           u == [w EXCEPT !.cave.paused = FALSE]
<1>1. v = w \/ v \in ProcessNextWaypoint(u)
  BY DEF Resumed
<1>2. w \in BotStates /\ w.cave \in CaveStates
  BY DEF Attended, Sound, Paired, BotStates
<1>3. c \in CaveStates /\ c.stopped = w.cave.stopped /\ c.enabled = w.cave.enabled
  BY <1>2 DEF CaveStates
<1>4. u = [w EXCEPT !.cave = c]
  BY <1>2 DEF BotStates, CaveStates
<1> HIDE DEF c, u
<1>5. Attended(u) /\ u.cave = c
  BY <1>3, <1>4, CaveSet
<1>6. u.cave.stopped => ~u.cave.enabled
  BY <1>3, <1>5 DEF Onward
<1> QED BY <1>1, <1>5, <1>6, ProcessKeeps

LEMMA ReconnectedStep ==
  ASSUME BotIInv, Reconnected
  PROVE  BotIInv'
<1> DEFINE c == [cave EXCEPT !.resumes = @ - 1]
           w == [BotNow EXCEPT !.cave.resumes = @ - 1]
<1>1. cave.resumes > 0 /\ BotBecomes(Resumed(w))
  BY DEF Reconnected
<1>2. /\ c \in CaveStates /\ c.stopped = cave.stopped /\ c.enabled = cave.enabled
      /\ c.paused = cave.paused /\ c.missed = cave.missed /\ c.next = cave.next
      /\ c.lost = cave.lost
  <2>1. cave.resumes - 1 \in Nat
    BY <1>1, BotParts DEF CaveStates
  <2> QED BY <2>1, BotParts DEF CaveStates
<1>3. w = [BotNow EXCEPT !.cave = c]
  BY BotParts DEF BotNow
<1> HIDE DEF c, w
<1>4. Attended(w) /\ w.cave = c /\ w.loop = loop
  BY <1>2, <1>3, BotParts, CaveSet
<1>5. Onward(w)
  BY <1>2, <1>4, BotParts DEF Onward
<1> QED BY <1>1, <1>4, <1>5, ResumedKeeps, BecomesOne

LEMMA SessionSteps ==
  ASSUME BotIInv, SessionLost \/ SessionStopped \/ SessionBack
  PROVE  BotIInv'
<1>1. CASE SessionLost
  <2>1. BotBecomes({PauseBot(BotNow)}) \/ BotNow' = PauseBot(BotNow)
    <3> DEFINE w == PauseBot(BotNow)
    <3>1. w \in BotStates
      BY BotParts, PauseBotKeeps DEF Attended, Sound, Paired
    <3>2. walker' = w.walker /\ loop' = w.loop /\ cave' = w.cave
      BY <1>1 DEF SessionLost
    <3> QED BY <3>1, <3>2 DEF BotNow, BotStates
  <2> QED BY <2>1, BotParts, PauseBotKeeps, BecomesOne DEF BotIInv
<1>2. CASE SessionStopped
  BY <1>2 DEF SessionStopped, BotIInv, BotNow
<1>3. CASE SessionBack
  <2> DEFINE c == [cave EXCEPT !.resumes = IF cave.enabled /\ cave.paused THEN @ + 1 ELSE @]
  <2>1. cave' = c /\ UNCHANGED <<walker, loop>>
    BY <1>3 DEF SessionBack
  <2>2. /\ c \in CaveStates /\ c.stopped = cave.stopped /\ c.enabled = cave.enabled
        /\ c.paused = cave.paused /\ c.missed = cave.missed /\ c.next = cave.next
        /\ c.lost = cave.lost
    <3>1. (IF cave.enabled /\ cave.paused THEN cave.resumes + 1 ELSE cave.resumes) \in Nat
      BY BotParts DEF CaveStates
    <3> QED BY <3>1, BotParts DEF CaveStates
  <2> HIDE DEF c
  <2>3. BotNow' = [BotNow EXCEPT !.cave = c]
    BY <2>1 DEF BotNow
  <2>4. Attended(BotNow') /\ BotNow'.cave = c /\ BotNow'.loop = loop
    BY <2>2, <2>3, BotParts, CaveSet
  <2>5. Onward(BotNow')
    BY <2>2, <2>4, BotParts DEF Onward
  <2> QED BY <2>4, <2>5 DEF BotIInv
<1> QED BY <1>1, <1>2, <1>3

LEMMA InitBotIInv == BotInit => BotIInv
<1> SUFFICES ASSUME BotInit PROVE BotIInv
  OBVIOUS
<1>1. BotNow = [walker |-> Resting, loop |-> [l \in Loops |-> "none"], cave |-> Unstarted]
  BY DEF BotInit, BotNow
<1>2. Resting \in WalkerStates /\ Resting.waiter = NoLoop
  BY DEF Resting, WalkerStates
<1>3. Unstarted \in CaveStates /\ ~Unstarted.enabled
  BY DEF Unstarted, CaveStates
<1>4. BotNow \in BotStates
  BY <1>1, <1>2, <1>3 DEF BotStates, LoopStates
<1>5. Attended(BotNow)
  BY <1>1, <1>2, <1>4, NobodyIsNoLoop DEF Attended, Sound, Paired
<1>6. Onward(BotNow)
  BY <1>1, <1>3 DEF Onward
<1> QED BY <1>5, <1>6 DEF BotIInv

LEMMA BotStep == BotIInv /\ [BotNext]_botVars => BotIInv'
<1> SUFFICES ASSUME BotIInv, [BotNext]_botVars PROVE BotIInv'
  OBVIOUS
<1>1. CASE \E l \in Settled : Continue(l)
  BY <1>1, AnsweredStep
<1>2. CASE PositionChange \/ CancelWalk
  BY <1>2, PositionChangeStep, CancelWalkStep
<1>3. CASE \E t \in walker.timers : WalkerTimer(t)
  BY <1>3, WalkerTimerStep
<1>4. CASE \E t \in {walker.recalc} \cup walker.lost : RecalcTimer(t)
  BY <1>4, RecalcTimerStep
<1>5. CASE \E l \in Loops : RetryWalk(l) \/ Acted(l)
  BY <1>5, LoopSteps
<1>6. CASE LoopTimeout \/ StartBot \/ Reconnected
  BY <1>6, LoopTimeoutStep, StartBotStep, ReconnectedStep
<1>7. CASE HaltBot
  BY <1>7, BotParts, StopBotKeeps, BecomesOne DEF HaltBot
<1>8. CASE HoldBot
  BY <1>8, BotParts, PauseBotKeeps, BecomesOne DEF HoldBot
<1>9. CASE ResumeBot
  BY <1>9, BotParts, ResumedKeeps, BecomesOne DEF ResumeBot
<1>10. CASE SessionLost \/ SessionStopped \/ SessionBack
  BY <1>10, SessionSteps
<1>11. CASE UNCHANGED botVars
  BY <1>11 DEF botVars, BotIInv, BotNow
<1> QED
  BY <1>1, <1>2, <1>3, <1>4, <1>5, <1>6, <1>7, <1>8, <1>9, <1>10, <1>11 DEF BotNext

(* A bot that is neither stopped nor paused goes on, whatever its walker, its
   session and the player's commands do to its timers. *)
THEOREM BotGoesOnHolds == BotSpec => []BotGoesOn
<1>1. BotIInv => BotGoesOn
  <2> SUFFICES ASSUME BotIInv, cave.enabled /\ ~cave.paused /\ ~cave.missed,
                      ~cave.next, ~(cave.lost > 0)
               PROVE  \E l \in Loops :
                        \/ loop[l] \in {"arrived", "failed", "retry", "act"}
                        \/ /\ loop[l] = "walk" /\ walker.waiter = l /\ ~walker.stopped
                           /\ \/ \E t \in ({walker.recalc} \cup walker.lost) \ {NoTimer} :
                                   t.ifWalking => walker.walking
                              \/ walker.walking /\ walker.timers \cap {"step", "stuck"} # {}
    BY DEF BotGoesOn
  <2>1. PICK l \in Loops : loop[l] # "none"
    BY BotParts DEF Onward
  <2>2. CASE loop[l] # "walk"
    BY <2>1, <2>2, BotParts DEF LoopStates
  <2>3. CASE loop[l] = "walk"
    BY <2>3, BotParts, NobodyIsNoLoop DEF Attended, Sound, Paired, Recalculates
  <2> QED BY <2>2, <2>3
<1> QED
  BY InitBotIInv, BotStep, <1>1, PTL DEF BotSpec
===============================================================================
