CONSTANTS
  ann = ann
  old = old
  new = new
  Email = {ann}
  Password = {old, new}
  Browser = {b1, b2}
  Request = {r1, r2}
  Form <- SessionForms
  ValidateInterval = 0
  MaxDuration = 1
  MaxClock = 2
  MaxStamps = 2
  None = None
SPECIFICATION Spec
VIEW Live
SYMMETRY Symmetric
INVARIANTS TypeOK SessionsWereGood
PROPERTIES OldSessionsEnd RegisteredOnce
CHECK_DEADLOCK FALSE
