SPECIFICATION Spec
CONSTANTS
  Tasks <- MCTasks
  Bundle <- MCBundle
  Policy = "strict"
  Answers <- MCAnswers
  Resolve <- MCResolve
  AllowedDirs <- MCDirs
  Mappings <- MCMappings
  Links <- MCLinks
  InitialFiles <- MCFiles
  Volatile <- MCVolatile
  Matches <- MCMatches
  Hidden = {".git"}
  MaxSearchDepth = 1
  InlineLimit = 2
  MaxRedirects = 1
  DefaultSize = 9
  DefaultLifetime = 3600
  MaxDelivered = 3
INVARIANTS AnsweredInOrder RawIsAnnounced OnlyServedFiles HandlesMatchTasks CancelledNeverWaits
CHECK_DEADLOCK FALSE
