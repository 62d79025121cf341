SPECIFICATION FairSpec
CONSTANTS
  Items = {i1}
  MaxTries = 2
  TransferLimit = 1
  Stages = {"derivatives"}
  Faults = {"transfer", "source", "derive"}
  MaxOutages = 1
  Interventions = {"publish", "exclude", "hide"}
  NoAnswer = NoAnswer
INVARIANTS
  WorkstationTypeOK
  LocalFollowsServer
  AttemptsAreCapped
PROPERTIES
  DoneIsDelivered
  RunEndsUnlessReplayed
CHECK_DEADLOCK FALSE
