CONSTANTS
  MaxDoc = 5
  Numeral <- MCNumeral
  Whole <- MCWhole
  Calendar <- MCCalendar
  Printed <- MCPrinted
  Digits <- MCDigits
  File <- MCFile
  Content <- MCContent
  Key <- MCKey
  KeyOf <- MCKeyOf
  Column = {"Q", "R"}
  Code = {"1"}
  Null = Null
  Epoch = 32
  Period <- MCPeriod
  BatchSize = 2
  MaxRows = 3
  Books <- MCBooks
  MaxEdits = 1
SPECIFICATION AnnexSpec
INVARIANTS FileIsTrue FileIsWhole
CHECK_DEADLOCK FALSE
