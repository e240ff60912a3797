SPECIFICATION FairSpec
CONSTANTS
  NumFeels = 2
  Settings <- MCSettings
INVARIANTS
  TypeOK
  ArraysParallel
  NothingRemovedFromEmpty
  OwnFeelsShownOnce
  EverySectionHasReactions
  TableLagsOnlyUntilReload
  TrashcanRowsExist
  TrashcanListsOwnFeels
PROPERTIES
  OpenSectionFollowsFeels
  NotedSectionLostOnlyToRemovals
  LiveFeelsGetShown
