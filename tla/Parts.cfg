SPECIFICATION PartsSpec
CONSTANTS
  a1 = a1
  a2 = a2
  b1 = b1
  b2 = b2
  None = None
  w1 = w1
  w2 = w2
  plain = plain
  equipped = equipped
  Bookings = {w1, w2}
  Loans = {l1}
  Versions = {b1, b2, plain, equipped}
  Equipped = {equipped}
  NoVersion = NoVersion
  Requests = {r1}
  Calls = {a1, a2}
  EquipmentRequests = {a1, a2}
  Screens = {b1, b2}
  Events = {"event"}
  MaxStock = 2
  Horizon = 2
  Accounts = {a1, a2}
  MaxNotices = 4
  PageSize = 1
  Subjects = {a1, a2}
  Changes = {b1, b2}
  Facilities = {"projector"}
  Layouts = {"theatre"}
  MonthEnd = 6
  MaxMinutes = 2
  MaxSearch = 4
  DayLength = 2
  People = {a1, a2}
SYMMETRY Interchangeable
INVARIANTS
  CheckedStaysInPlace
  PanelAgreesWithGate
  ReceiptCoversDemand
  AdministratorsRemain
  RefusedOnlyWhenLost
  ShowsWhatItAsked
  OwnSaveShown
  OutcomesTrue
  ShownIsBookable
  WaitingIsServed
  ReadersAgree
PROPERTIES
  DecidedAsReviewed
  OversoldByStockAlone
  ReadStaysRead
CHECK_DEADLOCK FALSE
