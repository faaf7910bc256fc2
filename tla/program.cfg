SPECIFICATION ProgramSpec
CONSTANTS
  Kind = {"email", "api_key"}
  SecretKind = {"api_key"}
  Code = {c1, c2}
  c1 = c1
  c2 = c2
  Purpose = {"support", "audit"}
  Confidence = {89, 90}
  Configs <- Matrices
  Unset = Unset
  Path <- Places
  Canonical <- Leads
  LockOf <- Locks
  TmpOf <- Tmps
  Duration = {"day", "long"}
  Absent = Absent
  Broken = Broken
  Inputs <- Runs
  Contents <- Files
  Text <- Texts
  Export <- SomeExports
  TokenCount = {0, 1, 3}
  TokenLimit = {1, 5}
  MinTokens = 3
  DefaultTokens = 4
  BytesPerToken = 1
  MinByteWindow = 2
  OverlapPart = 2
  Feature = TRUE
  NoLimit = Unset
  MaxCalls = 2
  MaxInstalls = 1
CHECK_DEADLOCK FALSE
INVARIANTS UnconfiguredNotLooser SpecialStaysAdequate JudgeCannotRelease
  DistrustNeverLoosens RepositoryHasNoSay KeyMeansEncrypted SurfacesAgree
  ReportNamesTheLayer NothingUnscanned 
PROPERTY DetectReturns
