\* Two request threads, every interleaving of their Redis commands, one
\* failed command or crash.
SPECIFICATION RememberedSpec
CONSTANTS
  t1 = t1  t2 = t2  c1 = c1  g1 = g1
  s1 = s1  s2 = s2  s3 = s3  p1 = p1  q1 = q1  web = web  mail = mail
  NoTicket = NoTicket  NoService = NoService
  Tgt <- OneTgt  RememberMe <- NoIds  St <- TwoSts  Pt <- NoIds
  Pgt <- NoIds  Service <- Services  Thread <- TwoThreads  Cleaner <- NoIds
  Registered <- Services  SsoService <- OnlyWeb  ProxyService <- NoIds
  MaxTimeToLive = 2  TimeToKill = 2  RememberMeIdle = 2  RememberMeTtl = 3
  StTimeToKill = 1  PtTimeToKill = 1  NumberOfUses = 1  PtNumberOfUses = 1
  Forever = 9  TrackOnlyLatest = TRUE  MaxNow = 2  MaxFaults = 1
  MaxAccepts = 1
SYMMETRY Interchangeable
CHECK_DEADLOCK FALSE
INVARIANTS TypeOK HardLimit
PROPERTIES TicketLife NoSsoNeedsFreshSession SignOutIsComplete SessionsCloseLast
