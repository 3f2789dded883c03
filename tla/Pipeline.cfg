SPECIFICATION PipelineSpec
CONSTANTS
  Nil = Nil
  NoObject = NoObject
  h1 = h1
  h2 = h2
  w1 = w1
  w2 = w2
  b1 = b1
  b2 = b2
  cpu = cpu
  low = low
  nan = nan
  Half = 1
  Names <- mcNames
  GaugeValues <- mcGauges
  Unencodable <- mcNaN
  Handlers <- mcHandlers
  Writers <- mcWriters
  Buffers <- mcBuffers
  Requests <- mcRequests
  Configs <- mcConfigs
INVARIANTS PipelineTypeOK StatusIsTrue ServerErrorHasCause DamagedIsNotStored ResponseIsOwn LogIsHonest AgentIsHeard AnswersAreReal
SYMMETRY Symmetry
