SPECIFICATION Spec
SYMMETRY RequestSymmetry
CONSTANTS
  p1 = p1  p2 = p2  a1 = a1  a2 = a2  t1 = t1  t2 = t2
  e1 = e1  e2 = e2  w1 = w1  w2 = w2
  domain = domain  suffix = suffix  mail = mail
  NoProvider = NoProvider  NoEndpoint = NoEndpoint  Keep = Keep
  Provider = {p1, p2}
  Account = {a1, a2}
  Tenant = {t1, t2}
  TenantOf <- MCTenantOf
  Endpoint = {e1, e2}
  Password = {w1, w2}
  Entry = {domain, suffix}
  Email = {mail}
  DomainOf <- MCDomainOf
  Exchanges <- MCExchanges
  Seeds <- MCSeeds
  Worlds <- MCWorlds
  Patches <- MCPatches
  Edits <- MCEdits
  Request = {q1, q2}
  MaxOpenings = 1
INVARIANTS
  TypeOK
  LinksHold
  ErrorsAreExplained
  StoredIsVerified
  ChoiceIsKept
PROPERTIES
  EndpointIsConfirmed
  PanelKeepsEndpoint
CHECK_DEADLOCK FALSE
