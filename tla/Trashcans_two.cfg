SPECIFICATION Spec
CONSTANTS
  Closed = Closed
  Names = {mixed, love}
  MixedEmotions = mixed
  NumFeels = 3
  Foreign = {1}
  MaxTrashcans = 2
  MaxInFlight = 2
PROPERTIES
  TappedFeelsAreDeleted
