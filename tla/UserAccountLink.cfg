CONSTANTS
  Req = {r1}
  Email = {a1, a2}
  Provider = {p1}
  Mail = {t1}
SPECIFICATION AccountSpec
INVARIANT LinkReachesUser
