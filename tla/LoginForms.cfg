\* Two requests of one browser session, interleaved at every access to the
\* HTTP session, the tickets and the throttle.
SPECIFICATION FlowSpec
CONSTANTS
  t1 = t1  t2 = t2  k1 = k1
  NoRecord = NoRecord  NoKey = NoKey
  Key <- OneKey  Thread <- TwoThreads  Cleaner <- NoCleaner  Setups <- ClocksAgree
  Threshold = 1  RangeSeconds = 1  CaptchaThreshold = 2  PerSecond = 1
  MaxNow = 1  MaxFailures = 3  MaxFaults = 0
  MaxTexts = 2  MaxTgts = 1  MaxPages = 1  Link <- Links
SYMMETRY Interchangeable
CHECK_DEADLOCK FALSE
INVARIANTS FormsFollowFlag
PROPERTIES SpentCaptchaIsRefused
