------------------------------- MODULE Metrics -------------------------------
(***************************************************************************)
(* The data every component of the server works on: a metric as it travels *)
(* (internal/dto), the contents of a store (internal/interfaces) and what  *)
(* storing one metric does to these contents.                              *)
(*                                                                         *)
(* A gauge value (float64) is only ever copied and compared, so it is a    *)
(* member of an arbitrary set.  A counter is a Go int64: its additions     *)
(* wrap around, and Half stands for 2^63.                                  *)
(***************************************************************************)
EXTENDS Integers

CONSTANTS Names,        \* metric names (ID)
          GaugeValues,  \* the float64 values in use
          Half,         \* int64 ranges over -Half .. Half - 1
          Nil           \* a nil pointer, and the absence of a key in a map

ASSUME MetricsAssumption ==
  /\ Half \in Nat \ {0}
  /\ Nil \notin Int
  /\ Nil \notin GaugeValues

Int64 == -Half .. Half - 1

\* Faulty variant: arithmetic that does not wrap around.
WrapMissing(x) == x

\* The result of int64 arithmetic whose exact result is x.
Wrap(x) == ((x + Half) % (2 * Half)) - Half

\* dto.Metrics. "other" stands for every type string the server does not know.
Metric == [id    : Names,
           mtype : {"gauge", "counter", "other"},
           delta : Int64 \cup {Nil},
           value : GaugeValues \cup {Nil}]

\* The two maps of a store.
Contents == [counters : [Names -> Int64 \cup {Nil}],
             gauges   : [Names -> GaugeValues \cup {Nil}]]

EmptyContents == [counters |-> [n \in Names |-> Nil],
                  gauges   |-> [n \in Names |-> Nil]]

\* A counter that is not in the map reads as 0.
OrZero(x) == IF x = Nil THEN 0 ELSE x

\* The contents after metric m is stored: a counter grows by its delta, a
\* gauge is overwritten, anything else (unknown type, nil value) is skipped.
Put(st, m) ==
  IF m.mtype = "counter" /\ m.delta # Nil
  THEN [st EXCEPT !.counters[m.id] = Wrap(OrZero(@) + m.delta)]
  ELSE IF m.mtype = "gauge" /\ m.value # Nil
       THEN [st EXCEPT !.gauges[m.id] = m.value]
       ELSE st

\* The questions a store answers: GetCounter and GetGauge ask for one name,
\* GetAllCounters and GetAllGauges for every name.
Queries == [map : {"counters", "gauges"}, ids : {{n} : n \in Names} \cup {Names}]

Answers == UNION {[ids -> Int64 \cup GaugeValues \cup {Nil}] : ids \in SUBSET Names}

Answer(st, q) ==
  [n \in q.ids |-> IF q.map = "counters" THEN st.counters[n] ELSE st.gauges[n]]
==============================================================================
