CONSTANTS
  ann = ann
  ben = ben
  Member = {ann, ben}
  Delivery = {d1, d2, d3}
  MaxWorkers = 2
  Message <- ConcurrentMessages
  NickWords <- PlainNames
  Gabriels = {ben}
  Seed <- SeedTwins
  NotFound = NotFound
SPECIFICATION HSpec
SYMMETRY Deliveries
INVARIANTS TypeOK PointsWereAnnounced TwinRowsAgree PointsLostOnlyIfOvertaken
PROPERTIES BystandersKeepPoints AnnouncedBeforeSaved SavesTakeEffect
