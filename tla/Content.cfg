SPECIFICATION ContentSpec
CONSTANTS
  Slugs = {"about"}
  CommercialSlug = "about"
  MaxFacts = 2
  MaxCollections = 1
  MaxStructures = 1
  MaxPlans = 2
  MaxVersion = 3
  MaxCalls = 2
  home = home
  repair = repair
  c1 = c1
  c2 = c2
  c3 = c3
  Addresses = {home, repair}
  Content = {c1, c2, c3}
  Pages <- MCPages
  NoPage = NoPage
  MaxBuilds = 2
  MaxSchedules = 1
SYMMETRY Symmetry
INVARIANTS PinnedFactsConfirmed IndexedPassedQa 
CHECK_DEADLOCK FALSE
