CONSTANTS
  w1 = w1  m1 = m1  m2 = m2
  NoMonth = NoMonth
  MaxRow = 3
  Month = {m1, m2}
  MonthOf <- MCOneMonth
  Months = {NoMonth, m1}
  Alls = {TRUE, FALSE}
  Writer = {w1}
  Limit = 1
  Threshold = 3
  Races = 0
  Disruptions = 3
SPECIFICATION FairSpec
INVARIANTS PulledUpToCursor
PROPERTIES GoodStaysGood EveryRowIsPulled
CHECK_DEADLOCK FALSE
