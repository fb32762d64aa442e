SPECIFICATION FairSpec
CONSTANTS
  Task = {t1}
  Sub = {k1, k2, k3}
  MaxAttempts = 1
  MaxDefers = 0
  MaxUnsettled = 2
  MinReclaimBatch = 2
  SharedAccount = FALSE
  None = None
PROPERTIES
  CapacityReturns
  AttestationEnds
CHECK_DEADLOCK FALSE
