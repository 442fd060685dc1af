SPECIFICATION Spec
CONSTANTS
  NumDiscussions = 2
  Commands = {"ignore", "allow"}
  MaxReplies = 2
  MaxMoments = 2
  MaxEdits = 1
  MaxPhases = 2
  FailureThreshold = 5
  RecoveryTime = 2
  EngineRetries = 1
  UnitsPerPhase = 2
  GitLabRetries = 1
  MaxOperations = 3
  MaxDeleted = 1
  HeadRetries = 2
  MaxHead = 3
  Clients = {"a", "b"}
  Limit = 2
  Window = 2
  MaxTicks = 3
  ArrivingNotes <- FewNotes
  Findings = {f1, f2}
  EngineFindings <- TwoScores
  RulePolicies <- PlainPolicies
  Sample = 2
  MinimumScore = 6500
  ResolvedPenalty = 800
  ReplyPenalty = 500
  ReplyLimit = 2
  Starts = {1, 5}
  MaxPiece = 2
  Bucket = 3
  Issues = {"direct", "flow"}
  MaxLines = 3
  MaxHunks = 2
  Topics = {"malloc_free", "yaml_script", "generic"}
  Primaries = {"openai", "stub"}
  Fallbacks = {"openai", "stub"}
  SureConfidence = 85
  PublishScore = 65
  Band = 10
  DraftScores = {80}
  MaxJobs = 2
  EngineThreads = {"a", "b"}
  Stocked = {"active", "reference"}
  Rule <- ThreeRules
  Packs = {"core", "extra"}
  RuleContexts = {"analytics", "schema"}
  RuleDialects = {"mysql", "postgresql"}
  Categories = {"memory", "general"}
  Patterns = {"p", "q"}
  TopN = 2
  TopK = 1
  Aliases <- QImpliesP
  Signals <- MemorySignals
  Hints <- OneHintEach
  ReviewsAsked <- SomeReviews
  LanguageFiles <- KindsOfFiles
CHECK_DEADLOCK FALSE
INVARIANTS
  PartsTypeOK
  RepliesCountOnce
  LastWordRules
  WorkHorsesAreNeverRefused
  AnswersFitEffects
  NoteHeadIsReviewed
  RateHolds
  StrongFindingsSurvive
  CommentsHitTheirLine
  ChecksFailOpen
  OutageCostsOneDraft
  NoneIsLeftEmpty
  EmptyAnswersHaveACause
  ExcludedStaysSilent
  HintsAreHeard
  RegistriesAgree
PROPERTIES
  EngineIsHeardAgain
  NewestNoteIsCurrent
  AllowNeverHurts
