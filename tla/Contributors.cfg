CONSTANTS
  p = p  q = q  d1 = d1  d2 = d2  d3 = d3  d4 = d4  d5 = d5  j1 = j1  j2 = j2
  Contributor = {p, q}
  Doc = {d1, d2, d3, d4, d5}
  Of <- MCOf
  IdKind <- MCIdKind
  HasNrc <- MCHasNrc
  MaxParty = 4
  Job = {j1, j2}
  Null = Null
  Legacies <- MCLegacies
SYMMETRY Symmetry
SPECIFICATION Spec
INVARIANTS PurchasesKeepOwner ExportIsWhole
PROPERTIES KeyKeepsNrc StaysWhole
CHECK_DEADLOCK FALSE
