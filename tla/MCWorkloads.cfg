SPECIFICATION WorkSpec
CONSTANTS
  x = x
  g = g
  gb = gb
  gs = gs
  h = h
  dot = dot
  rt = rt
  Names = {x, g, gb, gs, h, dot, rt}
  Documents = {x}
  Hidden = {dot}
  Stripped <- MCStripped
  Safe <- MCSafe
  Stem = gs
  Root = rt
  MaxEntries = 3
  Cap = 4
  Uploads <- MCUploads
  ChunkIds = {1, 2}
  MaxChunks = 2
  MaxPrepares = 2
  OldRows = {"o1", "o2"}
  WebRow = "w"
  Directories <- MCDirectories
  Normalizers = {"p", "q"}
  Inputs <- MCInputs
  e1 = e1
  e2 = e2
  c1 = c1
  c2 = c2
  Evals = {e1, e2}
  CasesOf <- MCCasesOf
  ConfigsOf <- MCConfigsOf
  NoConfig = "none"
  MaxStarts <- MCMaxStarts
  s1 = s1
  s2 = s2
  f1 = f1
  f2 = f2
  Sections = {s1, s2}
  SourcesOf <- MCSourcesOf
  Namings <- MCNamings
  PartValues <- MCPartValues
  SectionSlots = 1
  MaxGenerations = 2
  Collections = {"m", "n"}
  Missing = Missing
  Contents <- MCContents
  TypeOf <- MCTypeOf
  KindOf <- MCKindOf
  FieldsOf <- MCFieldsOf
  MatchesOf <- MCMatchesOf
  Plans <- MCPlans
  DirectFilters <- MCDirectFilters
  TopN = 3
  TopK = 2
  MaxWrites = 1
  SearchResults <- MCSearchResults
  CitesOf <- MCCitesOf
  TransportTries = 2
  MaxPieces = 3
  MaxChosen = 2
  PageRows = {1, 2}
  MaxFailures = 2
  MaxRefreshes = 1
  MaxChanges = 5
INVARIANTS
  WorkTypeOK
  UploadUnpacks
  PreparedWhole
  LogTellsMilestones
  OldOrNew
  ToldTruth
  CheckpointTruth
  InsightsFounded
  EvidenceWasThere
  CitationsTrue
  StreamTruth
  NormalizedInPlace
  StopsInformed
PROPERTIES EditsKept
CHECK_DEADLOCK FALSE
