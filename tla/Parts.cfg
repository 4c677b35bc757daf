SPECIFICATION PartsSpec
CONSTANTS
  self = self
  peer = peer
  main = main
  w1 = w1
  m1 = m1
  c1 = c1
  c2 = c2
  a = a
  b = b
  Agent = {self, peer}
  Self = self
  Main = main
  Thread = {main}
  Text = {"working"}
  SpawnCapacity = 2
  SpawnReceived = FALSE
  MaxMessages = 1
  MaxUpdates = 3
  MaxLines = 4
  Priority = {0, 1}
  MaxItems = 2
  TriggerWorkflow = {w1}
  Manual = {m1}
  Cron = {c1, c2}
  BadSchedule = {c2}
  Policy = {"queue"}
  InnerCapacity = 1
  EventCapacity = 1
  Offered <- OfferedLists
  MaxCalls <- CallBounds
  MaxFires = 2
  Subject = {"step"}
  Outcome = {"failed"}
  MinInterval = 2
  MaxTime = 3
  MaxSends = 3
  Step = {a, b}
  OutputCap = 2
  MaxProduced = 3
  MaxSelects = 3
  ViewSession = {a, b}
  ViewStep = {"p", "q"}
  AutoDismiss = 2
  MaxNotes = 2
  MaxOther = 1
  MaxVisits = 2
  ListItem = {"item"}
  MaxKeys = 2
  MaxClicks = 4
INVARIANTS
  ServerAgrees
  BacklogAgrees
  EventsAreFired
  WindowKept
  ShowsOutput
  NotedOnce
  DialogsAgree
PROPERTIES
  ItemsKept
  ClickHitsRow
  FireIsSent
  StopEnds
  BecomesReady
  ToastsGo
CHECK_DEADLOCK FALSE
