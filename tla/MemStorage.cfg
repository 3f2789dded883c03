SPECIFICATION FairMemSpec
CONSTANTS
  Nil = Nil
  Nobody = Nobody
  p1 = p1
  p2 = p2
  p3 = p3
  cpu = cpu
  low = low
  Half = 2
  Names <- mcNames
  GaugeValues <- mcGauges
  Procs <- mcProcs
  Writes <- mcWrites
INVARIANTS MemTypeOK LockInv
PROPERTIES ImplementsContract CallsReturn
