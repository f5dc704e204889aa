SPECIFICATION FairSpec
CONSTANTS
  ValidPrefixes = {"p", "q"}
  NoHost = NoHost
  NoProfile = NoProfile
  NoVersion = NoVersion
  Configuration <- MCConfiguration
  ChunkSize = 1
  OriginCookies <- SetCookies
  MaxEdits = 2
  MaxKills = 1
CHECK_DEADLOCK FALSE
INVARIANTS TypeOK MostSpecificWins IngestAccepted RowsAgree
PROPERTIES RequestAsConfigured EverySourceDue
