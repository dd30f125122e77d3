CONSTANTS
  r1 = r1
  r2 = r2
  u1 = u1
  NoRunner = NoRunner
  NoRest = "none"
  Job <- MCJob
  Runner <- MCRunner
  JobLabels <- MCJobLabels
  RunnerLabels <- MCRunnerLabels
  Rest <- MCRest
  ClientRows <- MCClientRows
  MaxAttempt = 2
  MaxTime = 1
  Watcher = {u1}
  MaxLogLines = 2
  RingCap = 1
  PageSize = 1
  MaxResumes = 1
  MaxEntries = 3
  MaxLogFaults = 1
  AnnCount <- MCAnnCount
  AnnChunk = 1
  FinalAttempts = 2
  MaxApiFaults = 2
  CacheToken <- MCCacheToken
  CacheKey <- MCCacheKey
  DefaultRef = "main"
  Chunk <- MCChunk
  DeclaredSize <- MCDeclaredSize
  MaxEntryBytes = 1
  RepoQuota = 2
  MaxCaches = 2
  MaxTouches = 1
  MaxCacheFaults = 1
  ArtName = {"log"}
  Upload <- MCUpload
  ArtQuota = 2
  MaxArtifacts = 2
  MaxArtCalls = 2
  Host = {"h1"}
  HostSkew <- MCHostSkew
  MaxClockSkew = 1
  SessionTTL = 3
  RenewBefore = 1
  MaxPending = 1
  MaxNonce = 2
  MaxStarts = 2
  MaxMinutes = 7
  Slots = 2
  PoolSize = {1, 2}
  MaxImage = 2
  MaxHostFaults = 1
  JobPlan <- MCJobPlan
  StepTries = 2
  RetryOn = {"infra"}
  JobCount = 4
  MatrixKeys <- MCMatrixKeys
  MatrixValue <- MCMatrixValue
  MatrixDims = {{}, {"os"}, {"os", "x"}}
  MaxExcludes = 1
  MaxIncludes = 2
  Webhook <- MCWebhook
  WorkflowFile <- MCWorkflowFile
  ServedAccount = {"us"}
  MaxTries = 2
  MaxIngestFaults = 1
  Asker = {"a1"}
  IdTokenTTL = 1
  JobTokenTTL = 2
  LastAttempt = 2
  MaxRotations = 2
  MaxRingFaults = 1
  MaxTokenClock = 3
  Caller = {"c1", "c2"}
  MaxRetries = 1
  BaseBackoff = 1
  MaxBackoff = 2
  RefreshWindow = 1
  TokenLife = 3
  SlowestCall = 1
  NamedWait = {0, 5}
  ListPages = 2
  MaxPages = 2
  MaxHubClock = 5
  BoxJob = {"j1", "j2"}
  CachedJob = {"j1", "j2"}
  MaxBoxFaults = 2
  Script <- MCScript
  MaxWrite = 3
  Leaf <- MCLeaf
  Fold <- MCFold
  Parsed <- MCParsed
  MaxNodes = 3
  Commit = {"c1", "c2"}
  ActionFiles = {"action.yml", "index.js"}
  MaxResolves = 3
  MaxCacheCrashes = 2
SPECIFICATION ServicesSpec
CHECK_DEADLOCK FALSE
INVARIANTS
  CompletedNotDispatchable
  DispatchNamesHolder
  AggregateAgrees
  NeedsResultAgrees
  LostOnlyInRaces
  StreamsWhole
  NewestNotLost
  ServedArchivesWhole
  FinalizedIntact
  HonouredOnce
  TokenAccepted
  GreenIsEarned
  PostsCleanUp
  OrderIsCanonical
  IncludesDecide
  SuccessLeavesNothingOut
  IdTokensVerify
  TokenOutlivesCall
  CacheSharedOnlyWithLeft
  LinesWhole
  PausedIsOutput
  StatusOnlyIfNamed
  ActionsServedWhole
PROPERTIES
  EntryKeepsItsPlace
  ImplementsLeaseQueue
  ImplementsJobStore
  StoppedBeforeRemoved
