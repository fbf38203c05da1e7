SPECIFICATION Spec
CONSTANTS
  f1 = f1
  f2 = f2
  sha1 = sha1
  sha2 = sha2
  Findings <- MCFindings
  Shas <- MCShas
  Reviewed = sha1
  OnError = {"commit", "rollback"}
  AnswersGetLost = TRUE
  MayCrash = TRUE
  MaxAttempts = 3
  MaxDeletes = 2
  MaxPushes = 1
SYMMETRY MCSymmetry
INVARIANTS TypeOK IdsAgree DuplicatesBounded SuccessIsVisible
PROPERTY PostedOnReviewedHead
CHECK_DEADLOCK FALSE
