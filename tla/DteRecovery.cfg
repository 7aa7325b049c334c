CONSTANTS
  w1 = w1  w2 = w2  c1 = c1  c2 = c2
  NoWorker = NoWorker
  Attachment <- MCAttachment
  Code = {c1, c2}
  CodeOf <- MCCodes
  Reading <- MCReading
  Worker = {w1}
  Limit = 1
  Modes = {"failed"}
  Marks = {FALSE}
  MaxParser = 1
  Disruptions = 2
SPECIFICATION FairSpec
PROPERTIES EveryFileIsRead
CHECK_DEADLOCK FALSE
