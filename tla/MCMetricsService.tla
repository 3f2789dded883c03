-------------------------- MODULE MCMetricsService --------------------------
(* MetricsService on an instance TLC can explore.                          *)
EXTENDS MetricsService

CONSTANTS p1, p2, p3, cpu, low, high

mcProcs == {p1, p2, p3}
mcNames == {cpu}
mcGauges == {low, high}

counter(d) == [id |-> cpu, mtype |-> "counter", delta |-> d, value |-> Nil]
gauge(v)   == [id |-> cpu, mtype |-> "gauge", delta |-> Nil, value |-> v]
other      == [id |-> cpu, mtype |-> "other", delta |-> 1, value |-> low]

\* A batch whose gauge and counter belong together and cross the top of
\* int64, a batch and an update with a later invalid item, single updates,
\* reads of what may not be there, and the list.
mcWrites == {<<gauge(low), counter(2), gauge(high)>>, <<counter(1)>>, <<gauge(low)>>,
             <<counter(1), gauge(Nil)>>, <<counter(Nil)>>}
mcRequests ==
  {[op |-> "UpdateBatch", items |-> <<gauge(low), counter(2), gauge(high)>>],
   [op |-> "UpdateBatch", items |-> <<counter(1), gauge(Nil)>>],
   [op |-> "Update", items |-> <<counter(1)>>],
   [op |-> "Update", items |-> <<gauge(low)>>],
   [op |-> "Get", items |-> <<gauge(Nil)>>],
   [op |-> "Get", items |-> <<other>>],
   [op |-> "List", items |-> <<>>]}

Symmetry == Permutations(mcProcs)
=============================================================================
