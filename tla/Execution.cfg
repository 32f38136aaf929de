SPECIFICATION FairSpec
CONSTANTS
  local1 = local1
  local2 = local2
  remote = remote
  Nobody = Nobody
  Commands <- MCCommands
  Admitted <- MCAdmitted
  Capacity = 2
  QueueMax = 1
INVARIANTS TypeOK CreditConservation NoCommandLost ClosesDrained
PROPERTIES StopTrueIsFinal AcceptedEnds StopCloses
