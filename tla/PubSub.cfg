CONSTANTS
  m1 = m1
  m2 = m2
  NoBody = NoBody
  Messages = {m1, m2}
  Programs <- MCPrograms
  Urls <- MCUrls
  Content <- MCContent
  Samples <- MCSamples
  Short <- MCShort
  TopicsOf <- MCTopicsOf
  MaxRuns = 2
  MaxLost = 1
  MaxAsk = 2
  Cuts = {5}
SPECIFICATION FairSpec
INVARIANTS
  TypeOK
  SetupKept
  SuccessReachesAll
  OneFailureEach
  GroupHandlesOnce
  QueuedUnlessMuted
  ServingIsReachable
  RequestsRouted
  EncodingKept
PROPERTIES
  DeliveryEnds
CHECK_DEADLOCK FALSE
