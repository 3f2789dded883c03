SPECIFICATION ServiceSpec
CONSTANTS
  Nil = Nil
  Nobody = Nobody
  p1 = p1
  p2 = p2
  p3 = p3
  cpu = cpu
  low = low
  high = high
  Half = 3
  MaxRequests = 4
  Names <- mcNames
  GaugeValues <- mcGauges
  Procs <- mcProcs
  Writes <- mcWrites
  Requests <- mcRequests
INVARIANT ServiceInv
PROPERTY WholeRequestsOnly
SYMMETRY Symmetry
