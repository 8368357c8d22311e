SPECIFICATION Spec
CONSTANTS
  Players = {p, q, r}
  Parties = {s, t}
  Nobody = Nobody
  NoParty = NoParty
INVARIANTS
  ChannelForCompanions
