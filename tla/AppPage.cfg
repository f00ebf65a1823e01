CONSTANTS
  ann = ann
  ben = ben
  annForm = annForm
  annOther = annOther
  benForm = benForm
  kim = kim
  lou = lou
  Device = {p1}
  Email = {ann, ben}
  Form = {}
  EmailOf <- FormEmails
  Doctor = {kim, lou}
  DoctorsOf <- FormDoctors
  Registered = {ben}
  PageSize = 2
  MaxReadings = 3
  MaxRequests = 1
  MaxQueue = 2
  None = None
SPECIFICATION Spec
INVARIANTS HistoryShowsLatest
