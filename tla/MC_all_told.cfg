\* The initial session ends while two others watch its console.
SPECIFICATION SsFairSpec
CONSTANTS
  Sessions = {"s1", "s2", "s3"}
  UserOf <- MCUser
  KeyOf <- MCKey
  Consoles <- MCConsoles
  SsNone = none
  MaxChunks = 0
  MaxKeys = 0
  MaxSsFaults = 0
PROPERTY AllToldOfTheEnd
CHECK_DEADLOCK FALSE
