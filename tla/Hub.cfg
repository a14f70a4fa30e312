SPECIFICATION FairSpec
CONSTANTS
  Agents = {a1, a2}
  Laptops = {a1}
  Admins = {m1, m2}
  Conns = {c1, c2}
  Reqs = {r1}
  Addrs = {d1}
  Statuses = {s1}
  None = None
INVARIANTS TypeOK RegistrationIsAlive
PROPERTIES OfflineByOwnConn StatusSurvivesReplacement SessionsAreALock EventuallyOffline
