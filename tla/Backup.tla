------------------------------- MODULE Backup -------------------------------
(***************************************************************************)
(* The backup file of the server: FileManager (internal/storage/           *)
(* filemanager), the life cycle storage.NewStorage and storage.Close give  *)
(* it and the connection to the database (internal/postgres), and the      *)
(* process around them, which may be stopped or crash at any moment.  The  *)
(* store is the contract of interfaces.Store: writes and reads of a map    *)
(* are single steps.  The database may fail any of them.                   *)
(*                                                                         *)
(* SaveData reads the counters, then the gauges, then truncates the file,  *)
(* then writes it.  RunBackup calls it at every tick and ignores its       *)
(* errors; Close calls it once more, in its caller's goroutine.            *)
(***************************************************************************)
EXTENDS Metrics, SequencesExt

CONSTANTS Writes,        \* the sequences of metrics clients send
          Unencodable,   \* the gauge values JSON cannot express: NaN, +Inf, -Inf
          Configs,       \* the configurations to start from, see cfg
          MaxWrites,     \* bound: how many writes clients send
          MaxStarts,     \* bound: how often the process starts
          MaxFailures    \* bound: how many calls of disk and database fail

ASSUME BackupAssumption ==
  /\ Unencodable \subseteq GaugeValues
  /\ Configs \subseteq [interval : Nat, path : BOOLEAN, restore : BOOLEAN,
                        database : BOOLEAN, closes : BOOLEAN]
  /\ {MaxWrites, MaxStarts, MaxFailures} \subseteq Nat
  /\ Writes \subseteq Seq(Metric)

Savers == {"start", "ticker", "final"}   \* the three callers of SaveData
Maps   == {"counters", "gauges"}

VARIABLES
  cfg,       \* interval: cfg.StoreInterval; path: cfg.FileStoragePath is not empty;
             \* restore: cfg.Restore; database: cfg.Database is not empty; closes:
             \* the program calls storage.Close before it ends
  process,   \* "down", "opening" and "loading" (the file), "saving" (at startup),
             \* "up", "closing", "closed"
  backend,   \* what curStore is: "memory" or "database"
  open,      \* postgres.Pool is there and can be used
  tables,    \* the tables that exist in the database
  mem,       \* the contents of the memory store
  rows,      \* the contents of the database
  file,      \* the backup file
  todo,      \* the items of the file LoadData has yet to load
  save,      \* how far each saver's SaveData is, and what it has read
  done,      \* fm.Done is closed
  ticking,   \* RunBackup's loop is running
  failures,  \* how many calls of disk and database have failed
  starts,    \* how often the process has started
  log,       \* history: the store's contents since it was loaded, in order
  since,     \* history: the length of log when a save began
  unlucky,   \* history: the items this LoadData met an error of the database at
  before,    \* history: the file when the process started
  unread,    \* history: the disk failed when this LoadData read a good file
  causes     \* history: what happened to saves since one of them was completed

loadVars   == <<todo, unlucky, before, unread>>
dbVars     == <<backend, open, tables>>
loopVars   == <<done, ticking>>
backupVars == <<cfg, process, dbVars, mem, rows, file, loadVars, save, loopVars, failures,
                starts, log, since, causes>>

Missing == [state |-> "missing"]
Broken  == [state |-> "broken"]    \* truncated, or partly written
Saved(data) == [state |-> "saved", data |-> data]

NoMap  == [n \in Names |-> Nil]
NoSave == [pc |-> "idle", counters |-> NoMap, gauges |-> NoMap, lost |-> {}]

BackupInit ==
  /\ cfg \in Configs
  /\ process = "down"
  /\ backend = "memory"
  /\ open = FALSE
  /\ tables = {}
  /\ mem = EmptyContents
  /\ rows = EmptyContents
  /\ file = Missing
  /\ todo = {}
  /\ save = [s \in Savers |-> NoSave]
  /\ done = FALSE
  /\ ticking = FALSE
  /\ failures = 0
  /\ starts = 0
  /\ log = <<>>
  /\ since = [s \in Savers |-> 0]
  /\ unlucky = {}
  /\ before = Missing
  /\ unread = FALSE
  /\ causes = {}

Store == IF backend = "database" THEN rows ELSE mem
SetStore(contents) ==
  IF backend = "database" THEN rows' = contents /\ UNCHANGED mem
  ELSE mem' = contents /\ UNCHANGED rows

Fail == failures < MaxFailures /\ failures' = failures + 1

\* A BIGINT does not wrap around: the statement is refused.
Fits(st, m) == backend = "database" /\ m.mtype = "counter" =>
                 OrZero(st.counters[m.id]) + m.delta \in Int64
Write1(st, m) == IF Fits(st, m) THEN Put(st, m) ELSE st

(***************************************************************************)
(* LoadData, item by item: a gauge is set; a counter is incremented by     *)
(* what is missing to the value in the file, unless nothing is missing.    *)
(***************************************************************************)
ItemsOf(f) == IF f.state # "saved" THEN {}
              ELSE {i \in Maps \X Names : f.data[i[1]][i[2]] # Nil}

\* Faulty variant: the value in the file is added to the one in the store.
MissingTwice(seen, want) == want

\* What LoadData increments a counter by that it sees as seen.
MissingTo(seen, want) == IF seen # Nil THEN Wrap(want - seen) ELSE want

\* The metric LoadData stores for an item.  (No metric at all if inc is 0.)
ToStore(map, n, seen) ==
  IF map = "gauges"
  THEN [id |-> n, mtype |-> "gauge", delta |-> Nil, value |-> file.data.gauges[n]]
  ELSE [id |-> n, mtype |-> "counter", delta |-> MissingTo(seen, file.data.counters[n]),
        value |-> Nil]

LoadItem(map, n) ==
  /\ process = "loading"
  /\ <<map, n>> \in todo
  /\ map = "gauges" => \A i \in todo : i[1] = "gauges"
  /\ todo' = todo \ {<<map, n>>}
  /\ LET Loaded(seen) == LET m == ToStore(map, n, seen)
                         IN  IF m.delta = 0 THEN Store ELSE Write1(Store, m)
         refused == ~Fits(Store, ToStore(map, n, Store[map][n]))
     IN  \/ /\ SetStore(Loaded(Store[map][n]))
            /\ unlucky' = IF refused THEN unlucky \cup {<<map, n>>} ELSE unlucky
            /\ UNCHANGED failures
         \* the database fails: GetCounter answers (0, false), or the write
         \* ends with an error, which is ignored, and may have taken effect
         \/ /\ backend = "database" /\ Fail
            /\ \E contents \in {Loaded(Nil), Loaded(Store[map][n]), Store} : SetStore(contents)
            /\ unlucky' = unlucky \cup {<<map, n>>}
  /\ UNCHANGED <<cfg, process, dbVars, file, save, loopVars, starts, log, since, before,
                 unread, causes>>

(***************************************************************************)
(* SaveData, for each of its callers.                                      *)
(***************************************************************************)
\* Without a path SaveData returns at once.
StartSave(s, at) ==
  /\ save' = IF cfg.path THEN [save EXCEPT ![s] = [NoSave EXCEPT !.pc = "counters"]] ELSE save
  /\ since' = [since EXCEPT ![s] = at]

\* GetAllCounters, then GetAllGauges: nil if the query fails, as it does when
\* the pool is closed.
ReadMap(s) ==
  LET map == save[s].pc
      next == IF map = "counters" THEN "gauges" ELSE "create"
  IN  /\ map \in Maps
      /\ \/ /\ backend = "database" => open
            /\ save' = [save EXCEPT ![s].pc = next, ![s][map] = Store[map]]
            /\ UNCHANGED failures
         \/ /\ backend = "database"
            /\ IF open THEN Fail ELSE UNCHANGED failures
            /\ save' = [save EXCEPT ![s].pc = next, ![s].lost = @ \cup {map}]
      /\ UNCHANGED <<cfg, process, dbVars, mem, rows, file, loadVars, loopVars, starts, log,
                     since, causes>>

\* Faulty variant: RunBackup's loop ends with the first error.
CreateEndsBackup(s) ==
  /\ save[s].pc = "create"
  /\ \/ /\ save' = [save EXCEPT ![s].pc = "write"]
        /\ file' = Broken
        /\ UNCHANGED <<failures, ticking>>
     \/ /\ Fail
        /\ save' = [save EXCEPT ![s] = NoSave]
        /\ ticking' = FALSE
        /\ UNCHANGED file
  /\ UNCHANGED <<cfg, process, dbVars, mem, rows, loadVars, done, starts, log, since, causes>>

\* Faulty variant: the file is truncated when it cannot be opened for writing.
CreateLosesFile(s) ==
  /\ save[s].pc = "create"
  /\ file' = Broken
  /\ \/ /\ save' = [save EXCEPT ![s].pc = "write"]
        /\ UNCHANGED failures
     \/ /\ Fail
        /\ save' = [save EXCEPT ![s] = NoSave]
  /\ UNCHANGED <<cfg, process, dbVars, mem, rows, loadVars, loopVars, starts, log, since, causes>>

\* os.Create truncates the file, or fails and leaves it alone.
Create(s) ==
  /\ save[s].pc = "create"
  /\ \/ /\ save' = [save EXCEPT ![s].pc = "write"]
        /\ file' = Broken
        /\ UNCHANGED failures
     \/ /\ Fail
        /\ save' = [save EXCEPT ![s] = NoSave]
        /\ UNCHANGED file
  /\ UNCHANGED <<cfg, process, dbVars, mem, rows, loadVars, loopVars, starts, log, since, causes>>

\* Faulty variant: the counters that are written are those of the live store.
SnapshotLive(s) == [counters |-> Store.counters, gauges |-> save[s].gauges]

Snapshot(s) == [counters |-> save[s].counters, gauges |-> save[s].gauges]
Encodable(s) == Range(save[s].gauges) \cap Unencodable = {}

\* Encode writes everything in one piece from the start of the file, fails
\* before it writes anything, or the disk takes only a part.
Encode(s) ==
  /\ save[s].pc = "write"
  /\ save' = [save EXCEPT ![s] = NoSave]
  /\ \/ /\ Encodable(s)
        /\ file' = Saved(Snapshot(s))
        /\ causes' = {}
        /\ UNCHANGED failures
     \/ /\ ~Encodable(s)
        /\ causes' = causes \cup {"gauge"}
        /\ UNCHANGED <<file, failures>>
     \/ /\ Encodable(s)
        /\ Fail
        /\ file' = Broken
        /\ causes' = causes \cup {"disk"}
  /\ UNCHANGED <<cfg, process, dbVars, mem, rows, loadVars, loopVars, starts, log, since>>

(***************************************************************************)
(* storage.NewStorage.                                                     *)
(***************************************************************************)
\* Faulty variant: the pool is kept although a table could not be created.
ConnectKeepsPool ==
  \/ /\ open' = TRUE /\ backend' = "database"
     /\ tables' = {"gauge", "counter"}
     /\ UNCHANGED failures
  \/ /\ Fail
     /\ \E made \in {{}, {"gauge"}} : tables' = tables \cup made
     /\ open' = TRUE /\ backend' = "database"

\* postgres.Connect opens the pool, pings and creates the tables.  If one of
\* these fails there is no pool, and the store is the memory.
Connect ==
  \/ /\ open' = TRUE /\ backend' = "database"
     /\ tables' = {"gauge", "counter"}
     /\ UNCHANGED failures
  \/ /\ Fail
     /\ \E made \in {{}, {"gauge"}} : tables' = tables \cup made
     /\ open' = FALSE /\ backend' = "memory"

\* The choice of the store.
Start ==
  /\ process = "down"
  /\ starts < MaxStarts
  /\ starts' = starts + 1
  /\ IF cfg.database THEN Connect
     ELSE backend' = "memory" /\ UNCHANGED <<open, tables, failures>>
  /\ process' = "opening"
  /\ before' = file
  /\ UNCHANGED <<cfg, mem, rows, file, save, loopVars, log, since, todo, unlucky, unread, causes>>

\* LoadData opens the file and decodes all of it.  If there is no good file, or
\* the disk fails, it returns an error, which NewStorage ignores.
OpenFile ==
  /\ process = "opening"
  /\ process' = "loading"
  /\ \/ /\ todo' = IF cfg.restore /\ cfg.path THEN ItemsOf(file) ELSE {}
        /\ UNCHANGED <<unread, failures>>
     \/ /\ cfg.restore /\ cfg.path /\ file.state = "saved"
        /\ Fail
        /\ unread' = TRUE
        /\ UNCHANGED todo
  /\ UNCHANGED <<cfg, dbVars, mem, rows, file, save, loopVars, starts, log, since, unlucky,
                 before, causes>>

\* Faulty variant: NewStorage does not wait for LoadData.
LoadedAtOnce == TRUE

LoadDone == todo = {}

\* RunBackup's goroutine, or the single save; only then does the server listen.
NewStorage ==
  /\ process = "loading"
  /\ LoadDone
  /\ log' = <<Store>>
  /\ IF cfg.interval > 0
     THEN /\ process' = "up"
          /\ ticking' = TRUE
          /\ UNCHANGED <<save, since>>
     ELSE /\ process' = "saving"
          /\ StartSave("start", 1)
          /\ UNCHANGED ticking
  /\ UNCHANGED <<cfg, dbVars, mem, rows, file, loadVars, done, failures, starts, causes>>

Listen ==
  /\ process = "saving"
  /\ save["start"] = NoSave
  /\ process' = "up"
  /\ UNCHANGED <<cfg, dbVars, mem, rows, file, loadVars, save, loopVars, failures, starts, log,
                 since, causes>>

(***************************************************************************)
(* The process.                                                            *)
(***************************************************************************)
\* A client's write: MetricsStore's Begin .. Publish, or as many of its
\* statements as the database accepts.
Write(ms) ==
  /\ process = "up"
  /\ Len(log) <= MaxWrites
  /\ LET contents == FoldLeft(Write1, Store, ms)
     IN  SetStore(contents) /\ log' = Append(log, contents)
  /\ UNCHANGED <<cfg, process, dbVars, file, loadVars, save, loopVars, failures, starts, since,
                 causes>>

\* RunBackup: a tick.  When fm.Done is closed too, select picks either.
Tick ==
  /\ ticking
  /\ save["ticker"] = NoSave
  /\ StartSave("ticker", Len(log))
  /\ UNCHANGED <<cfg, process, dbVars, mem, rows, file, loadVars, loopVars, failures, starts,
                 log, causes>>

BackupEnds ==
  /\ ticking
  /\ done
  /\ save["ticker"] = NoSave
  /\ ticking' = FALSE
  /\ UNCHANGED <<cfg, process, dbVars, mem, rows, file, loadVars, save, done, failures, starts,
                 log, since, causes>>

\* storage.Close, after the HTTP server has been shut down.
Close ==
  /\ process = "up"
  /\ cfg.closes
  /\ process' = "closing"
  /\ done' = TRUE
  /\ StartSave("final", Len(log))
  /\ UNCHANGED <<cfg, dbVars, mem, rows, file, loadVars, ticking, failures, starts, log, causes>>

\* postgres.Close: the loop may still be saving.
Closed ==
  /\ process = "closing"
  /\ save["final"] = NoSave
  /\ process' = "closed"
  /\ open' = FALSE
  /\ UNCHANGED <<cfg, backend, tables, mem, rows, file, loadVars, save, loopVars, failures,
                 starts, log, since, causes>>

\* The process is gone, with every goroutine and everything in memory.
Gone ==
  /\ process' = "down"
  /\ backend' = "memory"
  /\ open' = FALSE
  /\ mem' = EmptyContents
  /\ todo' = {}
  /\ unlucky' = {}
  /\ before' = Missing
  /\ unread' = FALSE
  /\ save' = [s \in Savers |-> NoSave]
  /\ done' = FALSE
  /\ ticking' = FALSE
  /\ log' = <<>>
  /\ since' = [s \in Savers |-> 0]
  /\ causes' = IF \E s \in Savers : save[s].pc = "write" THEN causes \cup {"end"} ELSE causes
  /\ UNCHANGED <<cfg, tables, rows, file, failures, starts>>

\* main returns: after storage.Close, or, as cmd/server/main.go is, without.
Exit ==
  /\ process = IF cfg.closes THEN "closed" ELSE "up"
  /\ Gone

Crash ==
  /\ process # "down"
  /\ Gone

\* The instance is over.
Over ==
  /\ process = "down"
  /\ starts = MaxStarts
  /\ UNCHANGED backupVars

BackupNext ==
  \/ \E s \in Savers : ReadMap(s) \/ Create(s) \/ Encode(s)
  \/ Start
  \/ OpenFile
  \/ \E i \in todo : LoadItem(i[1], i[2])
  \/ NewStorage
  \/ Listen
  \/ \E ms \in Writes : Write(ms)
  \/ Tick
  \/ BackupEnds
  \/ Close
  \/ Closed
  \/ Exit
  \/ Crash
  \/ Over

BackupSpec == BackupInit /\ [][BackupNext]_backupVars

\* The scheduler runs every goroutine, and the ticker ticks.
Fairness ==
  /\ \A s \in Savers : WF_backupVars(ReadMap(s) \/ Create(s) \/ Encode(s))
  /\ WF_backupVars(Start \/ OpenFile \/ NewStorage \/ Listen
                     \/ \E i \in todo : LoadItem(i[1], i[2]))
  /\ WF_backupVars(Tick)
  /\ WF_backupVars(Closed)

FairBackupSpec == BackupSpec /\ Fairness
-----------------------------------------------------------------------------
BackupTypeOK ==
  /\ process \in {"down", "opening", "loading", "saving", "up", "closing", "closed"}
  /\ backend \in {"memory", "database"}
  /\ {mem, rows} \subseteq Contents
  /\ file.state \in {"missing", "broken", "saved"}
  /\ file.state = "saved" => file.data \in Contents
  /\ todo \cup unlucky \subseteq ItemsOf(file)  \/ process \notin {"loading"}
  /\ \A s \in Savers :
       /\ save[s].pc \in {"idle", "counters", "gauges", "create", "write"}
       /\ Snapshot(s) \in Contents
       /\ save[s].lost \subseteq Maps
       /\ since[s] \in 0 .. Len(log)
  /\ {open, done, ticking, unread} \subseteq BOOLEAN
  /\ process = "down" => log = <<>> /\ ~done /\ ~ticking
  /\ process \notin {"down", "opening", "loading"} => log # <<>> /\ log[Len(log)] = Store

\* The server never works on a database that lacks a table, and uses the
\* database exactly while there is a pool, also after starts whose connection
\* or migration failed half-way (postgres.go:42, "soft" fallback of
\* storage.go:42).
DatabaseIsReady ==
  /\ backend = "database" => tables = {"gauge", "counter"} /\ cfg.database
  /\ process \notin {"down", "closed"} => (open <=> backend = "database")

\* The parts of the server's storage fit together.
BackupInv == BackupTypeOK /\ DatabaseIsReady

\* What SaveData writes was never in the store at one moment, because it reads
\* the two maps one after the other; but each map is one the store had while
\* the save ran, and the gauges are not older than the counters, however many
\* saves are under way on the same file and whichever of them comes last.  Only
\* if a query of the database fails a map is missing from the file, and the
\* good backup is gone all the same.
SavedIsCut ==
  [][file' # file /\ file'.state = "saved" =>
       \E s \in Savers : \E i, j \in since[s] .. Len(log) :
         /\ save[s].pc = "write"
         /\ i <= j
         /\ file'.data.counters = IF "counters" \in save[s].lost THEN NoMap ELSE log[i].counters
         /\ file'.data.gauges = IF "gauges" \in save[s].lost THEN NoMap ELSE log[j].gauges
         /\ save[s].lost # {} => backend = "database" /\ (failures > 0 \/ ~open)]_backupVars

\* The file is unusable only while a save is between Create and Encode, or if
\* something happened to such a save: the process ended, orderly or not, the
\* disk failed, or there was a gauge that JSON cannot express.
BrokenHasCause ==
  file.state = "broken" /\ causes = {} => \E s \in Savers : save[s].pc = "write"

\* After a start with Restore every metric in the file has the value it has in
\* the file, also when the store, a database, already had another one, and when
\* an earlier start was cut off while it loaded: the increment "brings the
\* counter to the absolute value" (filemanager.go:94).  An error of the database
\* at one metric does not spoil another.  Only when the disk fails as LoadData
\* reads the file nothing is restored, and the server starts all the same
\* (storage.go:61).
RestoreBringsBack ==
  [][process = "loading" /\ process' \notin {"loading", "down"} /\ cfg.restore /\ cfg.path
       /\ ~unread =>
       \A i \in ItemsOf(file) \ unlucky :
         IF i[1] = "counters"
         THEN OrZero(Store.counters[i[2]]) = file.data.counters[i[2]]
         ELSE Store.gauges[i[2]] = file.data.gauges[i[2]]]_backupVars

\* With an interval of 0 the server writes the file as soon as it has started.
\* With Restore nothing of the old file gets lost by that, except what the
\* database failed to load or to return, and unless the disk failed when the
\* file was read: then the empty store is saved over it (storage.go:61, 65-66).
StartKeepsBackup ==
  [][save["start"].pc = "write" /\ save'["start"].pc = "idle" /\ file'.state = "saved"
       /\ cfg.restore /\ save["start"].lost = {} /\ ~unread =>
       \A i \in ItemsOf(before) \ unlucky :
         IF i[1] = "counters"
         THEN OrZero(file'.data.counters[i[2]]) = before.data.counters[i[2]]
         ELSE file'.data.gauges[i[2]] = before.data.gauges[i[2]]]_backupVars

\* As long as the server runs with an interval, every write ends up in the file,
\* although single saves fail: RunBackup goes on after an error
\* (filemanager.go:115).  Only a gauge that JSON cannot express stops the saving.
WritesGetSaved ==
  \A v \in 1 .. MaxWrites + 1 :
    process = "up" /\ cfg.interval > 0 /\ cfg.path /\ Len(log) = v ~>
      \/ process # "up"
      \/ Range(Store.gauges) \cap Unencodable # {}
      \/ /\ file.state = "saved"
         /\ \E i \in v .. Len(log) :
              /\ file.data.counters = log[i].counters
              /\ \E j \in i .. Len(log) : file.data.gauges = log[j].gauges
=============================================================================
