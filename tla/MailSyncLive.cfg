SPECIFICATION FairSpec
CONSTANTS
  r1 = r1  r2 = r2
  m1 = m1  m2 = m2  m3 = m3  m4 = m4  m5 = m5
  n1 = n1  n2 = n2
  b1 = b1  b2 = b2
  NoRun = NoRun
  NoMsg = NoMsg
  Absent = Absent
  Run = {r1, r2}
  Msg = {m1, m3}
  Name = {n1}
  Body = {b1}
  Attachments <- MCAttachments
  HasHeader <- EveryHasHeader
  Day <- MCDay
  SyncDates = {1}
  SinceExclusive = FALSE
  Quotas = {4}
  MaxUid = 2
  Slow = {}
  Budget <- FaultyBudget
  Together <- AnyTogether
PROPERTIES
  EveryMessageRecorded
  EveryRunEnds
