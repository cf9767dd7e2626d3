SPECIFICATION FairSpec
CONSTANTS
  Surfaces = {s1}
  Calls = {c1, c2}
  NoCall = NoCall
  MaxGeneration = 2
INVARIANTS
  TypeOK
  NoStrandedIncarnation
  LeasedIncarnationStays
  LeaseCountExact
PROPERTIES
  DeliveryIsHonest
  ObservationsMoveForward
  CallsReturn
