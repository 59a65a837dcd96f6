CONSTANTS
  Connections = {c1, c2}
  Accounts = {a1, a2}
  ClientIds = {k1, k2}
  OutboundCapacity = 2
  PendingCapacity = 1
  QueueCapacity = 2
  MaxRequests = 3
  FreshIds = TRUE
  Nobody = Nobody
SYMMETRY RoutingSymmetry
CONSTRAINT SomebodyStays
SPECIFICATION RoutingSpec
INVARIANTS
  ReportsStayPrivate
  RetainedBeforeLive
  ReportedOnce
  OwnReportsComeHome
PROPERTIES
  NothingQueuedAfterUnbinding
