SPECIFICATION FairSpec
CONSTANTS
  t1 = t1  t2 = t2  c1 = c1  k1 = k1
  NoRecord = NoRecord  NoKey = NoKey
  Key <- MCKey  Thread <- MCThread  Cleaner <- MCCleaner  Setups <- MCSetups
  Threshold = 2  RangeSeconds = 1  CaptchaThreshold = 2  PerSecond = 3
  MaxNow = 6  MaxFailures = 3  MaxFaults = 1
CHECK_DEADLOCK FALSE
INVARIANTS CountIsBacked CaptchaNeedsFailures FlagNeedsRecord
PROPERTIES DenialNeedsRecentFailure AgedRecordsFade FailuresArePaced
