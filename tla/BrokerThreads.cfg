SPECIFICATION FairSpec
CONSTANTS
  a1 = a1
  a2 = a2
  t1 = t1
  t2 = t2
  Agent = {a1, a2}
  Thread = {t1, t2}
  Text = {"working"}
  SpawnCapacity = 1
  SpawnReceived = TRUE
  MaxMessages = 2
  MaxUpdates = 2
INVARIANTS
  MailKept
  ResultComesFirst
PROPERTIES
  SpawnsAreCoordinators
  CallsReturn
