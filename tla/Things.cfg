SPECIFICATION ThingsSpec
CONSTANTS
  strong1 = strong1
  strong2 = strong2
  weak = weak
  box = box
  bag = bag
  coin = coin
  sword = sword
  Players <- MCPlayers
  Items <- MCItems
  Boxes <- MCBoxes
  Capacity <- MCCapacity
  Floor = Floor
  Gone = Gone
  Nobody = Nobody
  Nothing = Nothing
  BagCount = 3
  MaxSize <- MCSize
  MaxStack = 3
  MaxCoins = 5
  ring = ring
  worn = worn
  meat = meat
  rotten = rotten
  torch = torch
  lit = lit
  body = body
  chest = chest
  amulet = amulet
  vanish = vanish
  never = never
  Vanish = vanish
  Never = never
  Goods = {1, 2}
  MaxThere = 2
  MaxEntries = 2
  Kinds <- MCKinds
  DecayTo <- MCDecayTo
  DecayTime <- MCDecayTime
  StopTime <- MCStopTime
  EquipTo <- MCEquipTo
  DeEquipTo <- MCDeEquipTo
  TypeOf <- MCTypeOf
  OnTop = {}
  Doors = {}
  Rooted = {chest}
  Loaded = {1}
  Tenants = {strong1, strong2}
  HouseCount = 2
  Price = 1
  Rent = 2
  Period = 2
  Limit = 2
  Purse = {1}
  Bank = {1, 2}
  Deposit = {1, 3}
  SkipInitRent = {TRUE, FALSE}
  NoTenant = NoTenant
  hero = hero
  wolf = wolf
  rat = rat
  PlayerIds = {hero}
  MonsterIds = {wolf, rat}
  Tiles = {1, 2}
  Vectors = 2
  Lot <- MCLot
  NoTile = NoTile
  NoCreature = NoCreature
SYMMETRY ThingsSymmetry
CONSTRAINT FewAway
INVARIANTS
  PartnersAgree
  OffersKept
  NothingLost
  CountedOnce
  DecaysOnTime
  RefsHeld
  PointersGood
  SoonVisited
PROPERTIES
  SwapAtomic
  WarnedBeforeLost
