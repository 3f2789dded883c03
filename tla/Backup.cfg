SPECIFICATION FairBackupSpec
CONSTANTS
  Nil = Nil
  cpu = cpu
  low = low
  nan = nan
  Half = 2
  Names <- mcNames
  GaugeValues <- mcGauges
  Writes <- mcWrites
  Unencodable <- mcUnencodable
  Configs <- mcConfigs
  MaxWrites = 2
  MaxStarts = 2
  MaxFailures = 1
INVARIANTS BackupInv BrokenHasCause
PROPERTIES SavedIsCut RestoreBringsBack StartKeepsBackup WritesGetSaved
