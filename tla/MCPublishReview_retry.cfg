SPECIFICATION Spec
CONSTANTS
  f1 = f1
  f2 = f2
  sha1 = sha1
  sha2 = sha2
  Findings <- MCFindings
  Shas <- MCShas
  Reviewed = sha1
  OnError = {"rollback"}
  AnswersGetLost = FALSE
  MayCrash = FALSE
  MaxAttempts = 2
  MaxDeletes = 0
  MaxPushes = 0
SYMMETRY MCSymmetry
INVARIANT OneOfEach
CHECK_DEADLOCK FALSE
