CONSTANTS
  ann = ann
  ben = ben
  annForm = annForm
  annOther = annOther
  benForm = benForm
  kim = kim
  lou = lou
  Device = {p1}
  Email = {ann, ben}
  Form = {annForm, annOther, benForm}
  EmailOf <- FormEmails
  Doctor = {kim, lou}
  DoctorsOf <- FormDoctors
  Registered = {ben}
  PageSize = 2
  MaxReadings = 2
  MaxRequests = 2
  MaxQueue = 3
  None = None
SPECIFICATION FairSpec
INVARIANTS ReadingsUnderOwner ShownBelongToOwner
PROPERTIES WritesSurvive RecordsKept SavedReadingIsShown
