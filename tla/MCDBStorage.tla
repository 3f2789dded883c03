---------------------------- MODULE MCDBStorage ----------------------------
(* DBStorage on instances TLC can explore.                                 *)
EXTENDS DBStorage

CONSTANTS p1, p2, c1, c2, cpu, low

mcNames == {cpu}
mcGauges == {low}

counter(d) == [id |-> cpu, mtype |-> "counter", delta |-> d, value |-> Nil]
gauge(v)   == [id |-> cpu, mtype |-> "gauge", delta |-> Nil, value |-> v]

write(op, items) == [op |-> op, items |-> items, query |-> Nil]
read(map)        == [op |-> "read", items |-> <<>>,
                     query |-> [map |-> map, ids |-> mcNames]]

mcTwo   == {p1, p2}
mcConns == {c1, c2}

\* Single writes that overflow the column the third time, a batch with an
\* item the store skips, and a read.
mcCalls == {write("one", <<counter(-1)>>),
            write("batch", <<counter(-1), gauge(Nil), counter(0)>>),
            read("counters")}

\* A batch that visibly is stored in two steps.
mcTwoSteps == {write("batch", <<counter(-1), gauge(low)>>)}
=============================================================================
