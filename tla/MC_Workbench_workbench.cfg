SPECIFICATION WorkbenchSpec
CONSTANTS
  Slot1 = Slot1
  Var1 = Var1
  Secret1 = Secret1
  Secret2 = Secret2
  Profile1 = Profile1
  Profile2 = Profile2
  m1 = m1
  m2 = m2
  m3 = m3
  r1 = r1
  u1 = u1
  Slots = {Slot1}
  Others = {Var1}
  Secrets = {Secret1, Secret2}
  Profiles = {Profile1, Profile2}
  BoundTo <- MCBoundTo
  FirstFile <- MCFirstFile
  Nothing = Nothing
  MaxKeyEdits = 2
  MaxBadReads = 1
  MaxBadWrites = 1
  MaxKeyCrashes = 1
  Models = {m1, m2, m3}
  ProviderModels = {m3}
  Catalog <- MCCatalog
  Unread = Unread
  MaxCalls = 2
  MaxActions = 3
  MaxLosses = 2
  Runs = {r1, r2}
  Files = {f1, f2, f3}
  Unseen = Unseen
  MaxWrites = 1
  MaxSwitches = 3
  MaxDenied = 1
  Shells = {sh1, sh2}
  Urls = {u1, u2}
  NoOne = NoOne
  MaxStarts = 3
  MaxReloads = 1
  MaxPreviews = 1
  p1 = p1
  Steps = {1, 2, 3, 4}
  Here = 2
  MaxPlanSteps = 2
  PlanRuns = {p1, p2}
  NoAnswer = NoAnswer
  MaxReviews = 2
  GraphRuns = {g1, g2}
  GraphNodes = {gn1, gn2}
  NoRun = NoRun
  MaxChanges = 4
  MaxDrags = 2
  LogNodes = {ln1, ln2}
  Tools = {t1, t2}
  NoCall = NoCall
  MaxRecords = 4
  Kept = 3
  Places = 2
  MaxItems = 3
  Isolated = TRUE
  MaxPieces = 2
  MaxSubmits = 2
  MaxRequests = 3
  MaxClicks = 2
  MaxQueueFaults = 1
INVARIANTS UsersWorkIsKept ListsAreRight CopiesSettle NothingStaleIsShown NothingIsStuck ResourcesAreOwned
CHECK_DEADLOCK FALSE
