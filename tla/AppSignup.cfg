CONSTANTS
  ann = ann
  ben = ben
  annForm = annForm
  annOther = annOther
  benForm = benForm
  kim = kim
  lou = lou
  Device = {p1, p2}
  Email = {ann, ben}
  Form = {annForm, annOther}
  EmailOf <- FormEmails
  Doctor = {kim, lou}
  DoctorsOf <- FormDoctors
  Registered = {ben}
  PageSize = 2
  MaxReadings = 0
  MaxRequests = 1
  MaxQueue = 2
  None = None
SPECIFICATION Spec
SYMMETRY Devices
INVARIANTS TypeOK UserKnownOnStart
PROPERTIES RecordsKept SignupCarriesThrough
