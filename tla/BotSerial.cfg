CONSTANTS
  ann = ann
  ben = ben
  Member = {ann, ben}
  Delivery = {d1, d2, d3, d4}
  MaxWorkers = 1
  Message <- SerialMessages
  NickWords <- OddNames
  Gabriels = {}
  Seed <- SeedAnn
  NotFound = NotFound
SPECIFICATION Spec
VIEW Alive
SYMMETRY Deliveries
INVARIANTS ReplyChainEnds
PROPERTIES LedgerKept
