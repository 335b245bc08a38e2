SPECIFICATION FairSpec
CONSTANTS
  Width = 4
  MaxTasks = 2
  Capacity = 1
  SeenCap = 1
  SeenKeep = 1
  MaxNotes = 2
  MaxEvents = 3
  Slots = {1, 2}
  Callable <- MCCallable
  Ids = {1, 2, 5}
  Alive = {1}
  Tagged = {1}
  Keys = {"", "a"}
  Configs <- MCConfigs
  MaxOpen = 1
  LineCap = 1
INVARIANTS CallsAreAsked ClientsAreServedInOrder
PROPERTIES RevokedHearsNothing ServerKeepsUp
CHECK_DEADLOCK FALSE
