SPECIFICATION TimeoutSpec
CONSTANTS
  Nil = Nil
  NoConn = NoConn
  p1 = p1
  p2 = p2
  c1 = c1
  c2 = c2
  cpu = cpu
  low = low
  Half = 2
  Names <- mcNames
  GaugeValues <- mcGauges
  Procs <- mcTwo
  Conns <- mcConns
  Calls <- mcCalls
INVARIANTS PoolAccounted DBInv
PROPERTY DBCallsReturn
