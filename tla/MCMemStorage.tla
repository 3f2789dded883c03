---------------------------- MODULE MCMemStorage ----------------------------
(* MemStorage on an instance TLC can explore.                              *)
EXTENDS MemStorage

CONSTANTS p1, p2, p3, cpu, low

mcProcs == {p1, p2, p3}
mcNames == {cpu}
mcGauges == {low}

counter(n, d) == [id |-> n, mtype |-> "counter", delta |-> d, value |-> Nil]
gauge(n, v)   == [id |-> n, mtype |-> "gauge", delta |-> Nil, value |-> v]

\* A batch that repeats a metric and crosses the top of int64, and a batch with
\* a negative delta and an item the store skips.
mcWrites == {<<counter(cpu, 1), gauge(cpu, low), counter(cpu, 1)>>,
             <<counter(cpu, -1), gauge(cpu, Nil)>>}
=============================================================================
