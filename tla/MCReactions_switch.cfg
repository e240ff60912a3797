SPECIFICATION Spec
CONSTANTS
  alice = alice
  bob = bob
  phone = phone
  tablet = tablet
  Users = {alice, bob}
  Devices = {phone, tablet}
  UserOf <- MCUserOf
  Reacts = {Happy, Tease}
  Slots = {react0, react1}
  NumFeels = 1
  MaxTaps = 2
INVARIANTS
  DocumentsConsistent
  CellsConsistent
  ButtonsMatchLists
