CONSTANTS
  ann = ann
  ben = ben
  cyn = cyn
  User = {ann, ben, cyn}
  Patient = {ann, ben}
  MaxCalls = 3
  Phone = {p1}
  Stored <- Owners
  Amount <- Amounts
  MaxInt = 4
  Lifetime = 0
  MaxClock = 1
  None = None
SPECIFICATION FairSpec
INVARIANTS TypeOK UploadsKept ReadingsByTheLoggedIn ListsWereCurrent ExportsWereMailed
PROPERTIES CallsEnd
