SPECIFICATION FairSpec
CONSTANTS
  Account = {a1}
  Request = {q1, q2}
  Failing = {q1, q2}
  Ops = {"create", "update", "remove", "manual", "suspend", "activate"}
  Bootstrap = Bootstrap
  MaxAccounts = 1
INVARIANTS
  ScheduleAgrees
PROPERTIES
  StoppedGoesQuiet
