SPECIFICATION Spec
CONSTANTS
  Items = {i1}
  MaxTries = 2
  TransferLimit = 1
  Stages = {"derivatives", "faces"}
  Faults = {"derive"}
  MaxOutages = 0
  Interventions = {}
  NoAnswer = NoAnswer
INVARIANTS
  DerivativesAreCapped
CHECK_DEADLOCK FALSE
