SPECIFICATION Spec
CONSTANTS
  Order <- Names
  Literals <- LiteralNames
  Datatype <- Values
  BaseTypes <- DataTypes
  GraphqlSanitize <- Sanitize
  WorkLimit = 60
  Workers = {w1, w2}
  ChannelSize = 1
  Requests <- PrintRequests
  Questions <- AllQuestions
  Unclean <- TheFrames
  Restrictions <- RestrictionClasses
  Restricted <- RestrictedDocuments
  Half <- Halves
  Exact = 16777216
  SubSeconds = 1000
  AsciiLetters <- TheLetters
  OtherLetters = {"e'"}
  Digits = {"1"}
  Bytes <- ByteOrder
  JsonPrefix <- TheJsonPrefix
  Defaults <- TheDefaults
  Capacity = 2
INVARIANTS
  PrintsAsIfAlone
  DocumentsAreTrees
  SearchesAreRelations
  QueriesAndCountsAgree
  
  LinksGoBothWays
  FieldsSayWhatTheDocumentSays
  FramesKeepNames
  
  
PROPERTIES
  PrintingEnds
CHECK_DEADLOCK FALSE
