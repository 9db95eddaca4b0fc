SPECIFICATION Spec
CONSTANTS
  t1 = t1
  t2 = t2
  x1 = x1
  x2 = x2
  f1 = f1
  n1 = n1
  n2 = n2
  c1 = c1
  c2 = c2
  None = None
  Tabs = {t1, t2}
  Executions = {x1, x2}
  Files = {f1}
  Names = {n1, n2}
  Drafts <- MCDrafts
  Scopes <- MCScopes
  Creators = {1, 2}
  Editors = {1, 2}
  Procedures = {"p", "q"}
  FileProcedures = {"p"}
  MaxTemplates = 2
  Unset = Unset
  TemplateScopes <- MCTemplateScopes
  SourceBlocks <- MCSourceBlocks
  DocumentBlocks <- MCDocumentBlocks
  Conversions <- MCConversions
  MaxBlocks = 4
  NoText = NoText
  Writers = {1, 2}
  ChannelCapacity = 1
  MaxLogged = 3
  MaxFailures = 1
  NotHeld = NotHeld
  Attempts = {1, 2}
  LinkRequests = {1, 2, 3}
  MaxTokens = 2
  MaxOutages = 1
  NotLinked = NotLinked
  Contents = {c1, c2}
  FileNames = {n1, n2}
  Settings <- MCSettings
  Installers = {1, 2}
  Bundles <- MCBundles
  Receipt = Receipt
  NoBundle = NoBundle
  MaxMishaps = 3
INVARIANTS
  TypeOK
  RecordedIsSomewhere
  ContentKept
  RefusedIsOnServer
  CreatedStays
  EditsSurvive
  
  ExportReadsBack
  OneUploadLink
  LoggedHasContent
  PublishedIsWhole
PROPERTIES
  EverythingArrives
  EditorsConverge
  AnnouncedIsShown
  StatusFollowsToken
CHECK_DEADLOCK FALSE
