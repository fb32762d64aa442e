SPECIFICATION Spec
CONSTANTS
  Task = {t1}
  Sub = {k1, k2, k3}
  MaxAttempts = 3
  MaxDefers = 1
  MaxUnsettled = 2
  MinReclaimBatch = 2
  SharedAccount = TRUE
  None = None
INVARIANTS
  TypeOK
  PaidOnce
  AttestationFitsSubmission
  DefersBudgeted
SYMMETRY Symmetry
