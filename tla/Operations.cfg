SPECIFICATION Spec
CONSTANTS
  Senders = {w1, w2}
  MaxDeliveries = 1
  MaxAttempts = 2
  MaxRevisions = 2
  MaxCrashes = 1
  OnTime = TRUE
  CheckedDrafts = {d1, d2}
  MaxIncidents = 4
  Operators = {o1, o2}
  OldRows = {r1, r2}
  Policies = {1, 2}
  MaxAge = 3
  MaxRetentionRuns = 2
  Visitors = {v1, v2}
  LastDay = 3
  RawDays = 1
  AggregateDays = 2
  PanelReleases = {p1, p2, p3}
  None = None
  SpareReleases = 0
  t1 = t1
  t2 = t2
  b1 = b1
  Tabs = {t1, t2}
  Browsers = {b1}
  BrowserOf <- MCBrowserOf
  MaxSessions = 3
  Clients = {c1, c2}
  Pollers = {q1}
  MaxOperations = 2
  PolicyIds = {1, 2}
  Approvers = {a1, a2}
  Submissions = {s1, s2}
  FormKeys = {k1}
  Routes <- MCRoutes
  Designs = {g1, g2}
  Master = master
  City = city
  Designers = {e1, e2}
  Authors = {h1, h2}
  Portraits = {i1}
  Officers = {f1, f2}
  MaxRecords = 4
INVARIANTS  IncidentsAgree PurgedAsConfirmed ConsentKept WayBack OneLiveSession OneWorkflowAtOnce LeadRouted LastApprovalRules LogTellsState
PROPERTIES WithinOutbox
CHECK_DEADLOCK FALSE
