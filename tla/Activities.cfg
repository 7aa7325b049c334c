CONSTANTS
  r1 = r1  r2 = r2  a1 = a1  a2 = a2  n1 = n1  n2 = n2  d1 = d1  d2 = d2  c1 = c1  c2 = c2
  Receptor = {r1, r2}
  Emisor = {1}
  Activity = {a1, a2}
  Nombre = {n1, n2}
  Doc = {d1, d2}
  ReceptorOf <- MCReceptorOf
  EmisorOf <- MCEmisorOf
  Lots <- MCLots
  Call = {c1, c2}
  NoActivity = NoActivity
  NoRow = NoRow
  Gone = Gone
  AnyReceptor = AnyReceptor
  MaxSuppliers = 1
SYMMETRY Symmetry
SPECIFICATION Spec
INVARIANTS ReferencesHold FilterAgrees
PROPERTIES CorrectionsSurvive
CHECK_DEADLOCK FALSE
