CONSTANTS
  s1 = s1
  s2 = s2
  s3 = s3
  alice = alice
  bob = bob
  forAlice = forAlice
  forBob = forBob
  shared = shared
  Nobody = Nobody
  MaxAttempts = 2
  Socket <- MCSocket
  User <- MCUser
  Channel <- MCChannel
  Own <- MCOwn
SPECIFICATION Spec
INVARIANT SubscribersAreServed
CHECK_DEADLOCK FALSE
