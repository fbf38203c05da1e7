SPECIFICATION PartsSpec
CONSTANTS
  Calls = 2
  Period = 3
  MaxTime = 8
  MaxDenials = 2
  Contenders = {"r1", "r2", "r3", "r4", "s1"}
  Keys = {"pr1", "pr2"}
  KeyOf <- MCKeyOf
  NoReview = "no review"
  Jobs = {"j1", "j2", "j3", "j4", "k1"}
  Pools = {"a", "b"}
  PoolOf <- MCPoolOf
  Limit <- MCLimit
  Spenders = {"r1", "r2"}
  Caps = {0, 2, 4}
  NoCap <- MCNoCap
  MaxCharge = 2
  MaxCost = 6
  Ids = {"r1", "r2", "r3"}
  Commits = {"c1", "c2"}
  CommitOf <- MCCommitOf
  Pulls = {"pr1"}
  PullOf <- MCPullOf
  NoId = "no id"
  Batches = {"b1", "b2"}
  Contents <- MCContents
  Floor = 2
  Quota = 3
  MaxLost = 1
  MayRaise = TRUE
  MaxCrashes = 2
  MaxPushes = 1
  MaxFiles = 2
  MaxLines = 3
  MaxCount = 2
  MaxGap = 1
  MaxCutLines = 2
  MaxRow = 2
  MaxNodes = 4
  MaxDepth = 3
  Corpora <- MCCorpora
  Findings <- MCFindings
  MaxFindings = 2
  Tolerance = 5
  MaxCommentLines = 2
  MaxWords = 3
INVARIANTS
  PartsTypeOK
  WindowBound DenialsJustified
  SupersessionSound
  SlotsSound
  OvershootBounded
  AtMostOneSettled CommitReviewedOnce OneIsLeft
  DiffTrue
  PublishSound
  ScopeTrue
  MatchingTrue ComparesLikeWithLike
  RecordTracksPosition ResultAgrees PostedAfterRecheck
PROPERTIES
  Terminates
CHECK_DEADLOCK FALSE
