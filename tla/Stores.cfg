\* Profiles for one number, trust for two; two clients, three phones and one contact;
\* two snapshots at once about two callers; two processes that open the database.
\* The clock is bounded, but commands always go on; a database that two processes
\* migrated at once may be one that nobody can open any more.
SPECIFICATION MCSpec
CONSTANTS
  n1 = n1
  n2 = n2
  n3 = n3
  a1 = a1
  a2 = a2
  p1 = p1
  Numbers = {n1, n2, n3}
  Analysts = {a1, a2}
  Measured <- MCMeasured
  ProfileLimit = 1
  HistoryLimit = 1
  TrustLimit = 2
  Lifetimes = {1}
  MaxTime = 1
  Never = Never
  NoProfile = NoProfile
  NoRow = NoRow
  NoNumber = NoNumber
  Clients = {c1, c2}
  Phones = {p1, p2, p3}
  ContactLimit = 1
  MaxRows = 1
  NoPhone = NoPhone
  Watchers = {w1, w2}
  Callers = {x1, x2}
  EventIds = {e1, e2}
  ObservationLimit = 1
  SnapshotLimit = 1
  HistoryDays = 1
  LastDay = 2
  NoSnapshot = NoSnapshot
  NoCaller = NoCaller
  Openers = {o1, o2}
  Entries = {b1, b2}
  NoTable = NoTable
SYMMETRY Symmetry
CHECK_DEADLOCK FALSE
INVARIANTS ProfilesBounded HistoryExplainsRisk TablesBounded MigrationSound
PROPERTIES LiveTrustStays NewestStay
