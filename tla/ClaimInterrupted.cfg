SPECIFICATION PersistentSpec
CONSTANTS
  Items = {i1}
  MaxTries = 3
  TransferLimit = 1
  Stages = {"derivatives"}
  Faults = {}
  MaxOutages = 1
  Interventions = {}
  NoAnswer = NoAnswer
PROPERTIES
  ResumedIsDelivered
CHECK_DEADLOCK FALSE
