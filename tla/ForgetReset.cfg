\* Two accounts, two executions with the Back button, mail and SMS.
SPECIFICATION Spec
CONSTANTS
  u1 = u1  u2 = u2  a1 = a1  a2 = a2  e1 = e1  e2 = e2
  NoUser = NoUser  NoAddress = NoAddress
  User <- TwoUsers  Address <- TwoAddresses  Execution <- TwoExecutions
  MailBook <- OneEach  PhoneBook <- OneEach
  Expire = 2  SmsLimit = 1  MaxNow = 2  MaxSecrets = 2
SYMMETRY Interchangeable
CHECK_DEADLOCK FALSE
INVARIANTS TypeOK SecretGoesToOwner PasswordIsProven
PROPERTIES OpensWithLiveSecret
