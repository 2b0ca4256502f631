SPECIFICATION Spec
CONSTANTS
  l1 = l1
  l2 = l2
  l3 = l3
  LoginTasks = {l1, l2, l3}
  NoLogin = NoLogin
  Origin = Origin
  LoginScenarios <- AllLogins
  Emitters = {1, 2, 3, 4}
  Page = 2
  HistoryPage = 1
  QueueSize = 2
  EventScenarios <- AllEvents
  q1 = q1
  q2 = q2
  q3 = q3
  alice = alice
  bob = bob
  carol = carol
  Callers = {q1, q2, q3}
  Users = {alice, bob, carol}
  DefaultQuota = 1
  MaxQuota = 2
  MaxSessions = 2
  Absent = Absent
  Deleted = Deleted
  AccessScenarios <- AllAccess
  d1 = d1
  d2 = d2
  Dogs = {d1, d2}
  Health = Health
  NoOne = NoOne
  RestartLimit = 2
  MaxRestarts = 3
  OpsScenarios <- AllOps
  Accounts = {a1, a2}
  AlertWriters = {w1, w2}
  LastDay = 4
  DailyKeep = 2
  WeeklyKeep = 1
  MonthlyKeep = 1
  WeekLength = 2
  MonthLength = 4
  BackupScenarios <- AllBackups
INVARIANTS
  LoginsInv
  LiveEventsInv
  
  OpsInv
  BackupsInv
PROPERTIES
  LoginsStay
  SentInOrder
  ServicesSettle
CHECK_DEADLOCK FALSE
