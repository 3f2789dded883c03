SPECIFICATION AuditSpec
CONSTANTS
  h1 = h1
  h2 = h2
  a1 = a1
  a2 = a2
  cpu = cpu
  ram = ram
  disk = disk
  Own = Own
  NoName = NoName
  Handlers <- mcHandlers
  Observers <- mcFile
  Arrays <- mcArrays
  Requests <- mcRequests
  MaxEvents = 2
INVARIANT RecordHasOwnNames
SYMMETRY Symmetry
