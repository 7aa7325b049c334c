SPECIFICATION Spec
SYMMETRY RunSymmetry
CONSTANTS
  r1 = r1  r2 = r2
  m1 = m1  m2 = m2  m3 = m3  m4 = m4  m5 = m5
  n1 = n1  n2 = n2
  b1 = b1  b2 = b2
  NoRun = NoRun
  NoMsg = NoMsg
  Absent = Absent
  Run = {r1, r2}
  Msg = {m2, m4}
  Name = {n1, n2}
  Body = {b1, b2}
  Attachments <- MCAttachments
  HasHeader <- HeaderButM4
  Day <- MCDay
  SyncDates = {1}
  SinceExclusive = FALSE
  Quotas = {3, 4}
  MaxUid = 3
  Slow = {}
  Budget <- PairsBudget
  Together <- PairsTogether
INVARIANTS
  MutualExclusion
  RowsHaveFiles
  NoOrphanFiles
  UsageReconciled
PROPERTIES
  NoMessageSkipped
  ImplementsArchive
