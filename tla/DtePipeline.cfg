CONSTANTS
  w1 = w1  w2 = w2  c1 = c1  c2 = c2
  NoWorker = NoWorker
  Attachment <- MCAttachment
  Code = {c1}
  CodeOf <- MCCodeOf
  Reading <- MCReading
  Worker = {w1, w2}
  Limit = 1
  Modes = {"failed"}
  Marks = {TRUE}
  MaxParser = 2
  Disruptions = 1
SYMMETRY MCSymmetry
SPECIFICATION Spec
INVARIANTS LedgerPointsAtBook DocumentIsAccounted
PROPERTIES ClassificationIsKept ImplementsContract
CHECK_DEADLOCK FALSE
