SPECIFICATION SocialSpec
CONSTANTS
  Players = {p, q, r}
  Parties = {s, t}
  Nobody = Nobody
  NoParty = NoParty
  Persons = {p, q, r}
  Guilds = {s, t}
  NoGuild = NoGuild
  Talkers = {p, q, r}
  Slots = {1, 2, 3}
  Visitors = {p, q, r}
  Nil = Nil
  Freed = Freed
  Screens = {s1, s2, s3}
  Heroes = {h1, h2}
  MaxRefs = 3
  NoScreen = NoScreen
  NoHero = NoHero
  Loops = {1, 2}
  NoLoop = NoLoop
  MaxPending = 1
  MaxSteps = 2
  Retries = 1
  MaxLost = 1
SYMMETRY SocialSymmetry
CONSTRAINT OneInvitation
INVARIANTS
  PartyAgrees
  NoLonelyParty
  NoGhostGuild
  OwnerLeads
  ChannelsInHand
  ReportsInHand
  PlayersStay
  BotGoesOn
PROPERTIES
  NobodyThrownOut
  StandingKept
