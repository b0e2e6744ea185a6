SPECIFICATION DraftsSpec
CONSTANTS
  Slugs = {home, repair}
  Content = {c1, c2}
  NoPage = NoPage
  MaxDrafts = 2
  MaxCalls = 2
  MaxChecked = 2
SYMMETRY Symmetry
INVARIANTS OnSiteChecked
 
CHECK_DEADLOCK FALSE
