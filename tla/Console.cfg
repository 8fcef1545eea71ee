SPECIFICATION Spec
CONSTANTS
  Onramps = {n1}
  Offramps = {f1, f2}
  Applications = {a1, a2}
  Businesses = {b1, b2}
  House = House
  Ids = {i1}
  None = None
  Paid = 10
  Costs = {12, 15}
  MaxCap = 14
  MaxCalls = 2
  MaxElsewhere = 1
  MaxClicks = 4
  MaxBizClicks = 5
  SettingKeys = {k1, k2}
  Texts = {t1, t2}
  MaxSheetClicks = 3
  MaxOthers = 1
  MaxRows = 3
  Limit = 1
  Window = 1
  Slots = {s1}
  Free = Free
  MaxTime = 3
SYMMETRY Symmetry
INVARIANTS ActionIsForShown ReleaseIsOnRecord ShownIsOwn WalkIsComplete NothingTwice OwnEditsShown
PROPERTY ReleaseIsAgreed
CHECK_DEADLOCK FALSE
