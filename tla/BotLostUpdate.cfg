CONSTANTS
  ann = ann
  ben = ben
  Member = {ann, ben}
  Delivery = {d1, d2}
  MaxWorkers = 2
  Message <- LostMessages
  NickWords <- PlainNames
  Gabriels = {}
  Seed <- SeedBoth
  NotFound = NotFound
SPECIFICATION Spec
INVARIANTS AnnouncedPointsAddUp
