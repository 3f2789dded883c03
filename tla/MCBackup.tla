------------------------------ MODULE MCBackup ------------------------------
(* Backup on instances TLC can explore.                                    *)
EXTENDS Backup

CONSTANTS cpu, low, nan

mcNames == {cpu}
mcGauges == {low, nan}
mcUnencodable == {nan}

counter(d) == [id |-> cpu, mtype |-> "counter", delta |-> d, value |-> Nil]
gauge(v)   == [id |-> cpu, mtype |-> "gauge", delta |-> Nil, value |-> v]

\* A batch that writes both maps, and a gauge that breaks the encoder.
mcWrites == {<<counter(-1), gauge(low)>>, <<gauge(nan)>>}

config(i, p, r, d, c) ==
  [interval |-> i, path |-> p, restore |-> r, database |-> d, closes |-> c]

\* Memory and database, the loop and the single save, with Close and without
\* (cmd/server/main.go never calls storage.Close), without Restore, and without
\* a file.
mcConfigs == {config(300, TRUE, TRUE, FALSE, FALSE), config(300, TRUE, TRUE, TRUE, TRUE),
              config(0, TRUE, TRUE, FALSE, FALSE), config(0, TRUE, TRUE, TRUE, TRUE),
              config(0, TRUE, FALSE, FALSE, TRUE), config(0, FALSE, TRUE, FALSE, TRUE)}
=============================================================================
