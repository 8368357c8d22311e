------------------------------ MODULE MCSocial ------------------------------
(***************************************************************************)
(* What players form with each other: parties, guilds, private channels,   *)
(* reports to the gamemasters, and the audiences of their casts; and a     *)
(* player that is a cave bot of the JavaScript client.  The six share no   *)
(* state, so a behaviour exercises one of them and leaves the others in    *)
(* their initial states.                                                   *)
(***************************************************************************)
EXTENDS Party, Guild, PrivateChannels, RuleViolations, Casting, CaveBot, TLC

VARIABLE part
formed == <<vars, guildVars, channelVars, reportVars, castVars>>
socialVars == <<part, formed, botVars>>

SocialInit ==
  /\ Init /\ GuildInit /\ ChannelInit /\ ReportInit /\ CastInit /\ BotInit
  /\ part \in {"party", "guild", "channels", "reports", "casts", "bot"}
  /\ part = "reports" \/ staff = {}

SocialNext ==
  /\ UNCHANGED part
  /\ \/ part = "bot" /\ BotNext /\ UNCHANGED formed
     \/ /\ UNCHANGED botVars
        /\ \/ part = "party" /\ Next /\ UNCHANGED <<guildVars, channelVars, reportVars, castVars>>
           \/ part = "guild" /\ GuildNext /\ UNCHANGED <<vars, channelVars, reportVars, castVars>>
           \/ part = "channels" /\ ChannelNext /\ UNCHANGED <<vars, guildVars, reportVars, castVars>>
           \/ part = "reports" /\ ReportNext /\ UNCHANGED <<vars, guildVars, channelVars, castVars>>
           \/ part = "casts" /\ CastNext /\ UNCHANGED <<vars, guildVars, channelVars, reportVars>>

SocialSpec == SocialInit /\ [][SocialNext]_socialVars

(* The players of the first four are the same, the addresses of parties are
   the ids of guilds, and nothing tells players or ids apart but their names. *)
SocialSymmetry == Permutations(Players) \cup Permutations(Guilds)

(* Bound: one invitation to a guild at a time. *)
OneInvitation ==
  Cardinality({x \in Persons \X Guilds :
                 x[2] \in invites[x[1]] \cup invitations[x[1]]}) <= 1
=============================================================================
