SPECIFICATION PersistentSpec
CONSTANTS
  Items = {i1}
  MaxTries = 3
  TransferLimit = 1
  Stages = {"faces"}
  Faults = {"face"}
  MaxOutages = 2
  Interventions = {"publish", "exclude", "hide", "reset"}
  NoAnswer = NoAnswer
PROPERTIES
  ResumedIsDelivered
CHECK_DEADLOCK FALSE
