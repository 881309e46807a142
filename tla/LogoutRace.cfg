\* A login to a second service runs beside the logout.
SPECIFICATION Spec
CONSTANTS
  t1 = t1  t2 = t2  c1 = c1  g1 = g1
  s1 = s1  s2 = s2  s3 = s3  p1 = p1  q1 = q1  web = web  mail = mail
  NoTicket = NoTicket  NoService = NoService
  Tgt <- OneTgt  RememberMe <- NoIds  St <- TwoSts  Pt <- NoIds
  Pgt <- NoIds  Service <- Services  Thread <- TwoThreads  Cleaner <- NoIds
  Registered <- Services  SsoService <- OnlyWeb  ProxyService <- NoIds
  MaxTimeToLive = 2  TimeToKill = 1  RememberMeIdle = 2  RememberMeTtl = 3
  StTimeToKill = 1  PtTimeToKill = 1  NumberOfUses = 1  PtNumberOfUses = 1
  Forever = 9  TrackOnlyLatest = FALSE  MaxNow = 2  MaxFaults = 0
  MaxAccepts = 1
CHECK_DEADLOCK FALSE
INVARIANTS DestroyInvalidatesDerived
