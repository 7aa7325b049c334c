CONSTANTS
  u1 = u1  u2 = u2  r1 = r1  r2 = r2  c1 = c1  c2 = c2
  User = {u1, u2}
  NoUser = NoUser
  Receptor = {r1, r2}
  NoReceptor = NoReceptor
  TenantOf <- MCTenantOf
  Call = {c1, c2}
  MaxToken = 6
  Logins = 2
  Disruptions = 2
  Patient = TRUE
SPECIFICATION FairSpec
INVARIANTS TypeOK StoresBelongToSession SessionIsLive
PROPERTIES LoadsEnd
CHECK_DEADLOCK FALSE
