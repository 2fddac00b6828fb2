SPECIFICATION FairSpec
CONSTANTS
  Selections <- MCSelections
  MaxRuns = 4
  MaxEdits = 1
  MaxPushes = 1
  MaxFaults = 1
  MaxKills = 1
CHECK_DEADLOCK FALSE
INVARIANTS
  TypeOK
  PublishedIsWhole
  ReadyIsPublished
PROPERTIES
  RemoteKeepsCommits
  PublishesWhatWasBundled
  PublicationCompletes
