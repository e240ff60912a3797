SPECIFICATION FairSpec
CONSTANTS
  alice = alice
  bob = bob
  phone = phone
  tablet = tablet
  Users = {alice, bob}
  Devices = {phone, tablet}
  UserOf <- MCUserOf
  Reacts = {Happy}
  Slots = {react0}
  NumFeels = 2
  MaxTaps = 2
INVARIANTS
  TypeOK
  VotesAuthentic
PROPERTIES
  ImplementsVotes
  AgreeAtRest
