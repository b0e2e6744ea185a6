SPECIFICATION Spec
CONSTANTS
  root = root
  about = about
  deep = deep
  map1 = map1
  map2 = map2
  Urls = {root, about, deep, map1, map2}
  Seed = root
  Links <- MCLinks
  Maps = {map1, map2}
  RootMap = map1
  Listed <- MCListed
  MaxPages = 2
  MaxDepth = 1
  MaxSeen = 4
  MaxMaps = 2
  Phrases = {p1, p2}
  MaxSelections = 2
  MaxSources = 2
  MaxRuns = 2
  Cities = {c1, c2}
  PageSlugs = {s1, s2}
  MaxStructuresOfMaster = 2
  MaxPlansOfChild = 3
  Proposals = {q1, q2}
  MaxAIRuns = 2
  MaxInputs = 2
  Estimates = {1}
  Bills = {0, 2}
  BudgetLimit = 1
  Revisions = {1, 2}
  Reviewers = {u1, u2}
  MaxBaseline = 2
INVARIANTS DoneIsComplete ProvenanceHeld  CalledOnce UsedOnce 
PROPERTIES CrawlEnds WithinLedger
CHECK_DEADLOCK FALSE
