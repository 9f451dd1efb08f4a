SPECIFICATION Spec
CONSTANTS
  Req = {r1, r2}
  Person = {p1, z1, z2}
  Founder = p1
  GivenRole = {"MEMBER"}
  Invitation = {y1, y2}
  Admin = {y1, y2}
  AdminInvitation = {n1}
  Login = {l1, l2}
  Token = {t1, t2, t3}
  MaxFailedAttempts = 2
  Challenge = {y1, y2}
  Secret = {z1, z2}
  LastPeriod = 1
  AuthCode = {c1}
  Grant = {z1, z2}
  Access = {y1, y2}
  Second = 2
  Life = 5
  CacheTtl = 2
  MaxWait = 1
  Reviewer = {y1, y2}
  ReviewId = {v1}
  CommentId = {m1}
  Window = {w1}
  Row = {x1}
  MaxEdits = 2
  Field = {f1}
  MaxEntries = 3
  Email = {a1}
  Provider = {y1, y2}
  Mail = {z1, z2}
SYMMETRY Symmetry
CONSTRAINT Bound
INVARIANTS TypesOK SingleOwner InvitationsSettleOnce OnePendingInvitation SuperAdminRemains
  DetailIsCurrent RotationLinear EndedLoginsStayEnded AttemptsBounded SecondFactorOnce
  CodeCountsOnce CacheForgets QuietViewsAgree HistoryReplays WayInRemains MailedOnce
PROPERTIES SubmittedStays
CHECK_DEADLOCK FALSE
