SPECIFICATION FairSpec
CONSTANTS
  Keys = {k1}
  Released = Released
  Slots = 2
  MaxReports = 3
  MaxUnpairs = 1
INVARIANTS
  RestStrandsNothing
  HostHasNewest
PROPERTIES
  AcceptedInOrder
  NoCrossDelivery
  ImplementsReportChannel
  DeliveryProgress
