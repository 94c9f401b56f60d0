SPECIFICATION WorkSpec
CONSTANTS
  p1 = p1
  p2 = p2
  p3 = p3
  s1 = s1
  m1 = m1
  m2 = m2
  m3 = m3
  m4 = m4
  o1 = o1
  o2 = o2
  a = a
  b = b
  k3 = k3
  k4 = k4
  r1 = r1
  r2 = r2
  e1 = e1
  e2 = e2
  Zero = Zero
  Absent = Absent
  x1 = x1
  x2 = x2
  x3 = x3
  Nobody = Nobody
  None = None
  canceller = canceller
  worker = worker
  key = key
  Task = {"w1", "rd", "par", "sub", "glob"}
  Claim <- TaskClaims
  ParentOf <- TaskParents
  MaxWaiters = 2
  Calls = {a, b, k3, k4}
  Responses <- AllTurns
  Serial = {k4}
  Conflicts = {{b, k3}}
  Limit = 3
  RecoverLimit = 3
  MaxIter = 2
  MaxRun = 2
  MaxFault = 2
SYMMETRY Symmetry
INVARIANTS Exclusive SleepersAreBlocked TranscriptHolds  EventsAreAccounted GraphIsExact
  ProcessesAreOwned
PROPERTIES ConsentIsCurrent HostTellsTheTruth ImplementsLedger
CHECK_DEADLOCK FALSE
