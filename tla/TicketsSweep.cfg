\* Liveness and the whole family of tickets: one thread that grants and
\* proxies, a cleaner, one failed command or crash.
SPECIFICATION FairSpec
CONSTANTS
  t1 = t1  t2 = t2  c1 = c1  g1 = g1
  s1 = s1  s2 = s2  s3 = s3  p1 = p1  q1 = q1  web = web  mail = mail
  NoTicket = NoTicket  NoService = NoService
  Tgt <- OneTgt  RememberMe <- NoIds  St <- OneSt  Pt <- OnePt
  Pgt <- OnePgt  Service <- OnlyWeb  Thread <- OneThread  Cleaner <- OneCleaner
  Registered <- OnlyWeb  SsoService <- OnlyWeb  ProxyService <- OnlyWeb
  MaxTimeToLive = 2  TimeToKill = 2  RememberMeIdle = 2  RememberMeTtl = 3
  StTimeToKill = 1  PtTimeToKill = 1  NumberOfUses = 2  PtNumberOfUses = 1
  Forever = 9  TrackOnlyLatest = TRUE  MaxNow = 2  MaxFaults = 1
  MaxAccepts = 1
CHECK_DEADLOCK FALSE
PROPERTIES OverSessionsLeave ExpiredIsSwept
