CONSTANTS
  ann = ann
  old = old
  new = new
  Email = {ann}
  Password = {old, new}
  Browser = {b1, b2}
  Request = {r1, r2}
  Form <- ChangeForms
  ValidateInterval = 1
  MaxDuration = 1
  MaxClock = 0
  MaxStamps = 3
  None = None
SPECIFICATION Spec
PROPERTIES ChangedByOwner
CHECK_DEADLOCK FALSE
