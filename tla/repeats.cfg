SPECIFICATION Spec
CONSTANTS
  Clients <- TheClients
  Keys <- TheKeys
  Bodies = {"b1", "b2"}
  Requests <- Repeats
  Outages = TRUE
CHECK_DEADLOCK FALSE
INVARIANTS TypeOK OneOrderPerKey ReplayIsOriginal ConflictIsReal
PROPERTY EntryStands
