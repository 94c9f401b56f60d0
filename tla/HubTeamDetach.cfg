SPECIFICATION LeavingSpec
CONSTANTS
  u1 = x1
  u2 = x2
  t1 = x1
  t2 = x2
  a1 = x1
  a2 = x2
  c1 = x1
  c2 = x2
  b1 = y1
  b2 = y2
  f1 = y1
  f2 = y2
  AnyBranch = AnyBranch
  TreeWorker = {w1}
  Lead = lead
  Client = {x1, x2}
  File = {y1, y2}
  MaxEdit = 2
  Extras = {}
  Team = {x1, x2}
  Worker = {x1, x2}
  TeamOf <- TwoTeams
  Branch = {y1, y2}
  Claims <- AnyClaims
  Place <- Places
  Within <- Inside
  MaxTeamWorker = 16
  MaxLocal = 2
  MaxGlobal = 2
  MaxPump = 1
  MaxTask = 2
  Ops <- Everything
INVARIANTS KickIsOwed
CHECK_DEADLOCK FALSE
