SPECIFICATION FairSpec
CONSTANTS
  Accounts = {alice, bob}
  Nobody = Nobody
  Never = Never
  DefaultRememberMe = "on"
  MaxInFlight = 1
INVARIANTS
  TypeOK
  FeedOnlyForVerified
  LogInOpenedOnce
PROPERTIES
  OnlyRememberedSessionsResume
  LaunchIsLeft
