CONSTANTS
  ann = ann
  ben = ben
  Member = {ann, ben}
  Delivery = {d1, d2}
  MaxWorkers = 2
  Message <- EndMessages
  NickWords <- OddNames
  Gabriels = {ben}
  Seed <- SeedBoth
  NotFound = NotFound
SPECIFICATION FairSpec
PROPERTIES EveryDeliveryEnds
