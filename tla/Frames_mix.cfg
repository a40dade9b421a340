SPECIFICATION FairSpec
CONSTANTS
  a = a
  b = b
  i = i
  j = j
  none = none
  Conns = {a, b}
  Ids = {i, j}
  NoId = none
  Requests = {1, 2, 3, 4, 5}
  Orders = {1, 2, 3, 4, 5}
  Lookers = {1, 2, 3, 4, 5}
  Slots = 1
  Rebind = FALSE
  Products = {"mug", "pen"}
  Wishes <- CartWishes
  Sources = {"assistant", "starter"}
  Stock <- CartStock
  MaxEdits = 1
  MaxFailures = 1
  Caches = {"key", "pod"}
  Keys = {"k"}
  MaxChanges = 1
  MaxLosses = 1
  Plans <- PlanList
  LastSecond = 4
  Names <- CartNames
CHECK_DEADLOCK FALSE
INVARIANT TypeOK GuardsMatch SlotsMatch CartAccounts MarketingKept LookupHonest PostedInOrder PagesStable
PROPERTY GuardGoes StaleEnds CartAnswered
