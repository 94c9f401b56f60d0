\* Two attempts, automations or users at a time; and three actions.
SPECIFICATION AdmissionSpec
CONSTANTS
  a1 = x1
  a2 = x2
  c1 = x1
  c2 = x2
  k1 = k1
  s1 = s1
  d1 = d1
  d2 = d2
  r1 = r1
  Attempt = {x1, x2}
  Action = {y1, y2, y3}
  Path <- Paths
  Within <- Tree
  Rank <- Order
  Uses <- CallerUses
  MaxWaiting = 2
  MaxAction = 2
  MaxRetain = 1
  Session = {s1}
  Automation = {x1, x2}
  SessionOf <- Owners
  Draft = {d1, d2}
  Interval <- Minutes
  Route = {r1, r2}
  Configured = {r1}
  MaxAutomation = 2
  MaxTime = 4
  Ops = {}
  Client = {x1, x2}
  Gated = {"write"}
  External = "external"
  Call = {k1, k2}
  MaxRequest = 2
  MaxTurn = 2
  MaxAsk = 4
  MaxFault = 2
  Extras = {}
SYMMETRY Symmetry
INVARIANTS LeaseTypeOK WorkIsExclusive SleepersAreBlocked LeasesLast NoneIsStranded WaitsSurvive
PROPERTIES RunsAreWanted AnswersAreExact
CHECK_DEADLOCK FALSE
