\* One request at a time and nothing fails: the TTL of every write, with every
\* ticket of a session tracked and a remember-me login.
SPECIFICATION Spec
CONSTANTS
  t1 = t1  t2 = t2  c1 = c1  g1 = g1
  s1 = s1  s2 = s2  s3 = s3  p1 = p1  q1 = q1  web = web  mail = mail
  NoTicket = NoTicket  NoService = NoService
  Tgt <- OneTgt  RememberMe <- OneTgt  St <- ThreeSts  Pt <- NoIds
  Pgt <- NoIds  Service <- Services  Thread <- OneThread  Cleaner <- NoIds
  Registered <- Services  SsoService <- OnlyWeb  ProxyService <- NoIds
  MaxTimeToLive = 1  TimeToKill = 1  RememberMeIdle = 2  RememberMeTtl = 3
  StTimeToKill = 1  PtTimeToKill = 1  NumberOfUses = 1  PtNumberOfUses = 1
  Forever = 9  TrackOnlyLatest = FALSE  MaxNow = 3  MaxFaults = 0
  MaxAccepts = 1
SYMMETRY Interchangeable
CHECK_DEADLOCK FALSE
INVARIANTS RedisOutlastsPolicy
