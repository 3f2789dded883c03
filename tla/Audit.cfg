SPECIFICATION FairAuditSpec
CONSTANTS
  h1 = h1
  h2 = h2
  a1 = a1
  a2 = a2
  cpu = cpu
  ram = ram
  disk = disk
  Own = Own
  NoName = NoName
  Handlers <- mcHandlers
  Observers <- mcBoth
  Arrays <- mcArrays
  Requests <- mcTwo
  MaxEvents = 2
INVARIANTS ArrayInv RecordsAreHonest
PROPERTY EventsAreHandled
