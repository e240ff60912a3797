SPECIFICATION Spec
CONSTANTS
  Closed = Closed
  Names = {mixed, love}
  MixedEmotions = mixed
  NumFeels = 3
  Foreign = {1}
  MaxTrashcans = 2
  MaxInFlight = 1
INVARIANTS
  TypeOK
  CountsMatchLists
  DocumentFollowsProfile
  CountedFeelsWereDumped
PROPERTIES
  DeletesWhatWasTapped
  TappedFeelsAreDeleted
  CellsFollowList
  FeelsCountNeverDrops
