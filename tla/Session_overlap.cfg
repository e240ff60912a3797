SPECIFICATION Spec
CONSTANTS
  Accounts = {alice, bob}
  Nobody = Nobody
  Never = Never
  DefaultRememberMe = "on"
  MaxInFlight = 2
INVARIANTS
  FeedOnlyForVerified
