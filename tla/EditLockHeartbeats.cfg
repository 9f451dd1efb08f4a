CONSTANTS
  User = {alice, bob}
  Admin = {alice}
  Target = {suite}
  LockId = {i1, i2, i3, i4}
  NoLock = none
  Req = {r1, r2}
  Duration = 2
SPECIFICATION Spec
INVARIANT UnexpiredLockExcludes
