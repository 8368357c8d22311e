SPECIFICATION HouseSpec
CONSTANTS
  Tenants = {s, t}
  HouseCount = 2
  Price = 1
  Rent = 2
  Period = 2
  Limit = 2
  Purse = {1}
  Bank = {1, 2}
  Deposit = {1, 3}
  SkipInitRent = {TRUE, FALSE}
  NoTenant = NoTenant
INVARIANTS
  OneHouse
