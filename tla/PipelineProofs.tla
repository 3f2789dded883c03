--------------------------- MODULE PipelineProofs ---------------------------
(***************************************************************************)
(* That status, audit event, log, body and store agree on every request,   *)
(* whatever other requests do meanwhile: for every number of handlers,     *)
(* pooled writers and buffers, and every set of requests and of metrics.   *)
(***************************************************************************)
EXTENDS Pipeline, SequenceTheorems, WellFoundedInduction, TLAPS

(***************************************************************************)
(* What the calls of the service do to the contents of the store.          *)
(***************************************************************************)
\* int64 arithmetic stays in int64.
LEMMA WrapType == \A x \in Int : Wrap(x) \in Int64
<1> SUFFICES ASSUME NEW x \in Int PROVE Wrap(x) \in Int64
  OBVIOUS
<1>1. Half \in Nat /\ Half > 0
  BY MetricsAssumption
<1>2. (x + Half) % (2 * Half) \in 0 .. (2 * Half - 1)
  BY <1>1
<1> QED
  BY <1>1, <1>2 DEF Wrap, Int64

\* Storing any metric leaves well-formed contents.
LEMMA PutType == \A s \in Contents, m \in Metric : Put(s, m) \in Contents
<1> SUFFICES ASSUME NEW s \in Contents, NEW m \in Metric
             PROVE  Put(s, m) \in Contents
  OBVIOUS
<1>1. /\ m.id \in Names
      /\ s.counters \in [Names -> Int64 \cup {Nil}]
      /\ s.gauges \in [Names -> GaugeValues \cup {Nil}]
      /\ m.delta \in Int64 \cup {Nil}
      /\ m.value \in GaugeValues \cup {Nil}
  BY DEF Contents, Metric
<1>2. CASE m.mtype = "counter" /\ m.delta # Nil
  <2>1. m.delta \in Int
    BY <1>1, <1>2, MetricsAssumption DEF Int64
  <2>2. OrZero(s.counters[m.id]) \in Int
    BY <1>1, MetricsAssumption DEF OrZero, Int64
  <2>3. Wrap(OrZero(s.counters[m.id]) + m.delta) \in Int64
    BY <2>1, <2>2, WrapType
  <2> QED
    BY <1>1, <1>2, <2>3 DEF Put, Contents
<1>3. CASE m.mtype = "gauge" /\ m.value # Nil
  BY <1>1, <1>3 DEF Put, Contents
<1>4. CASE ~(m.mtype = "counter" /\ m.delta # Nil) /\ ~(m.mtype = "gauge" /\ m.value # Nil)
  BY <1>4 DEF Put
<1> QED
  BY <1>2, <1>3, <1>4

\* No metric ever disappears.
Keeps(from, to) ==
  /\ \A n \in Names : from.counters[n] # Nil => to.counters[n] # Nil
  /\ \A n \in Names : from.gauges[n] # Nil => to.gauges[n] # Nil

\* Storing a metric keeps the others, and a good one is there afterwards.
LEMMA PutKeeps ==
  ASSUME NEW s \in Contents, NEW m \in Metric
  PROVE  /\ Keeps(s, Put(s, m))
         /\ Verdict(m) = "nil" => IF m.mtype = "gauge" THEN Put(s, m).gauges[m.id] # Nil
                                                       ELSE Put(s, m).counters[m.id] # Nil
<1>1. /\ m.id \in Names
      /\ m.mtype \in {"gauge", "counter", "other"}
      /\ s.counters \in [Names -> Int64 \cup {Nil}]
      /\ s.gauges \in [Names -> GaugeValues \cup {Nil}]
      /\ m.delta \in Int64 \cup {Nil}
      /\ Nil \notin Int64
  BY MetricsAssumption DEF Contents, Metric, Int64
<1>2. CASE m.mtype = "counter" /\ m.delta # Nil
  <2>1. Put(s, m) = [s EXCEPT !.counters[m.id] = Wrap(OrZero(@) + m.delta)]
    BY <1>2 DEF Put
  <2>2. m.delta \in Int /\ OrZero(s.counters[m.id]) \in Int
    BY <1>1, <1>2, MetricsAssumption DEF OrZero, Int64
  <2>3. Wrap(OrZero(s.counters[m.id]) + m.delta) \in Int64
    BY <2>2, WrapType
  <2>4. /\ Put(s, m).counters[m.id] \in Int64
        /\ \A n \in Names \ {m.id} : Put(s, m).counters[n] = s.counters[n]
        /\ Put(s, m).gauges = s.gauges
    BY <1>1, <2>1, <2>3 DEF Contents
  <2>5. Keeps(s, Put(s, m))
    BY <1>1, <2>4 DEF Keeps
  <2> QED
    BY <1>1, <1>2, <2>4, <2>5
<1>3. CASE m.mtype = "gauge" /\ m.value # Nil
  <2>1. Put(s, m) = [s EXCEPT !.gauges[m.id] = m.value]
    BY <1>3 DEF Put
  <2>2. /\ \A n \in Names : Put(s, m).gauges[n] = IF n = m.id THEN m.value ELSE s.gauges[n]
        /\ Put(s, m).counters = s.counters
    BY <1>1, <2>1 DEF Contents
  <2>3. Keeps(s, Put(s, m))
    BY <1>1, <1>3, <2>2 DEF Keeps
  <2> QED
    BY <1>1, <1>3, <2>2, <2>3
<1>4. CASE ~(m.mtype = "counter" /\ m.delta # Nil) /\ ~(m.mtype = "gauge" /\ m.value # Nil)
  <2>1. Put(s, m) = s
    BY <1>4 DEF Put
  <2>2. Verdict(m) # "nil"
    BY <1>1, <1>4 DEF Verdict
  <2> QED
    BY <2>1, <2>2 DEF Keeps
<1> QED
  BY <1>2, <1>3, <1>4

LEMMA Induction ==
  ASSUME NEW T, 0 \in T, \A n \in Nat : n \in T => n + 1 \in T
  PROVE  Nat \subseteq T
<1> SUFFICES ASSUME Nat \ T # {} PROVE FALSE
  OBVIOUS
<1>1. PICK x \in Nat \ T : \A y \in Nat \ T : <<y, x>> \notin OpToRel(<, Nat)
  BY NatLessThanWellFounded, WFMin
<1>2. x # 0
  OBVIOUS
<1>3. x - 1 \in Nat /\ x - 1 < x
  BY <1>2
<1>4. x - 1 \in T
  BY <1>1, <1>3 DEF OpToRel
<1> QED
  BY <1>3, <1>4

LEMMA MaxFacts ==
  ASSUME NEW n \in Nat, NEW s \in SUBSET (1 .. n), s # {}
  PROVE  Max(s) \in s /\ \A y \in s : y <= Max(s)
<1> DEFINE T == {k \in Nat : \A r \in SUBSET (1 .. k) : r # {} => \E x \in r : \A y \in r : x >= y}
<1>1. 0 \in T
  <2>1. SUBSET (1 .. 0) = {{}}
    OBVIOUS
  <2> QED
    BY <2>1
<1>2. ASSUME NEW k \in Nat, k \in T PROVE k + 1 \in T
  <2> SUFFICES ASSUME NEW r \in SUBSET (1 .. k + 1), r # {}
               PROVE  \E x \in r : \A y \in r : x >= y
    OBVIOUS
  <2>1. CASE k + 1 \in r
    BY <2>1
  <2>2. CASE k + 1 \notin r
    <3>1. r \in SUBSET (1 .. k)
      BY <2>2
    <3> QED
      BY <1>2, <3>1
  <2> QED
    BY <2>1, <2>2
<1> HIDE DEF T
<1>3. n \in T
  BY <1>1, <1>2, Induction
<1>4. \E x \in s : \A y \in s : x >= y
  BY <1>3 DEF T
<1>5. Max(s) \in s /\ \A y \in s : Max(s) >= y
  BY <1>4 DEF Max
<1> QED
  BY <1>5

\* What Batch chooses its function to satisfy, and that there is one.
Folds(g, items, n) ==
  g = [s \in SUBSET (1 .. n) |-> IF s = {} THEN st ELSE Put(g[s \ {Max(s)}], items[Max(s)])]

LEMMA FoldExists ==
  ASSUME NEW items \in Seq(Metric)
  PROVE  \E g : Folds(g, items, Len(items))
<1> DEFINE Step(g, s) == IF s = {} THEN st ELSE Put(g[s \ {Max(s)}], items[Max(s)])
           T == {k \in Nat : \E g : Folds(g, items, k)}
<1>1. 0 \in T
  <2>1. SUBSET (1 .. 0) = {{}}
    OBVIOUS
  <2>2. Folds([s \in SUBSET (1 .. 0) |-> st], items, 0)
    BY <2>1 DEF Folds
  <2> QED
    BY <2>2
<1>2. ASSUME NEW k \in Nat, k \in T PROVE k + 1 \in T
  <2>1. PICK g : Folds(g, items, k)
    BY <1>2
  <2>2. \A s \in SUBSET (1 .. k) : g[s] = Step(g, s)
    BY <2>1 DEF Folds
  <2> DEFINE h == [s \in SUBSET (1 .. k + 1) |->
                     IF k + 1 \in s THEN Put(g[s \ {k + 1}], items[k + 1]) ELSE g[s]]
  <2>3. ASSUME NEW s \in SUBSET (1 .. k + 1) PROVE h[s] = Step(h, s)
    <3>1. CASE k + 1 \in s
      <4>1. Max(s) = k + 1
        <5>1. k + 1 \in Nat /\ s # {}
          BY <3>1
        <5>2. Max(s) \in s /\ \A y \in s : y <= Max(s)
          BY <5>1, MaxFacts
        <5>3. Max(s) \in 1 .. k + 1 /\ k + 1 <= Max(s)
          BY <3>1, <5>2
        <5> QED
          BY <5>3
      <4>2. s \ {k + 1} \in SUBSET (1 .. k) /\ k + 1 \notin s \ {k + 1}
        OBVIOUS
      <4>3. h[s \ {k + 1}] = g[s \ {k + 1}]
        BY <4>2
      <4> QED
        BY <3>1, <4>1, <4>3
    <3>2. CASE k + 1 \notin s
      <4>1. s \in SUBSET (1 .. k)
        BY <3>2
      <4>2. /\ s \ {Max(s)} \in SUBSET (1 .. k + 1)
            /\ k + 1 \notin s \ {Max(s)}
        BY <3>2
      <4>3. h[s \ {Max(s)}] = g[s \ {Max(s)}]
        BY <4>2
      <4>4. h[s] = g[s]
        BY <3>2
      <4> QED
        BY <2>2, <4>1, <4>3, <4>4
    <3> QED
      BY <3>1, <3>2
  <2>4. Folds(h, items, k + 1)
    <3>1. h = [s \in SUBSET (1 .. k + 1) |-> h[s]]
      OBVIOUS
    <3> HIDE DEF h
    <3>2. h = [s \in SUBSET (1 .. k + 1) |-> Step(h, s)]
      BY <2>3, <3>1
    <3> QED
      BY <3>2 DEF Folds
  <2> QED
    BY <2>4
<1> HIDE DEF T
<1>3. Len(items) \in T
  BY <1>1, <1>2, Induction, LenProperties
<1> QED
  BY <1>3 DEF T

\* When a batch is stored the contents are well-formed, and nothing that was
\* there disappears.
LEMMA BatchKeeps ==
  ASSUME st \in Contents, NEW items \in Seq(Metric)
  PROVE  Batch(items) \in Contents /\ Keeps(st, Batch(items))
<1> DEFINE n == Len(items)
           Is(f) == f = [s \in SUBSET DOMAIN items |->
                           IF s = {} THEN st ELSE Put(f[s \ {Max(s)}], items[Max(s)])]
           g == CHOOSE f : Is(f)
<1>1. n \in Nat /\ DOMAIN items = 1 .. n
  BY LenProperties
<1>a. Batch(items) = g[DOMAIN items]
  BY ONLY DEF Batch, FoldLeft, MapThenFoldSet
<1>2. Batch(items) = g[1 .. n]
  BY <1>1, <1>a
<1>3. Folds(g, items, n)
  <2>1. PICK f : Folds(f, items, n)
    BY FoldExists
  <2>2. Is(f)
    BY <1>1, <2>1 DEF Folds
  <2>3. Is(g)
    BY <2>2
  <2> HIDE DEF g
  <2> QED
    BY <1>1, <2>3 DEF Folds
<1> HIDE DEF g
<1>4. \A s \in SUBSET (1 .. n) :
        g[s] = IF s = {} THEN st ELSE Put(g[s \ {Max(s)}], items[Max(s)])
  BY <1>3 DEF Folds
<1> DEFINE T == {k \in Nat : k <= n => g[1 .. k] \in Contents /\ Keeps(st, g[1 .. k])}
<1>5. 0 \in T
  <2>1. 1 .. 0 = {} /\ {} \in SUBSET (1 .. n)
    OBVIOUS
  <2>2. g[1 .. 0] = st
    BY <1>4, <2>1
  <2> QED
    BY <2>2 DEF Keeps
<1>6. ASSUME NEW k \in Nat, k \in T PROVE k + 1 \in T
  <2> SUFFICES ASSUME k + 1 <= n PROVE g[1 .. k + 1] \in Contents /\ Keeps(st, g[1 .. k + 1])
    OBVIOUS
  <2>1. /\ 1 .. k + 1 \in SUBSET (1 .. n) /\ 1 .. k + 1 # {} /\ k + 1 \in 1 .. n
        /\ (1 .. k + 1) \ {k + 1} = 1 .. k
    BY <1>1, SMTT(40)
  <2>2. Max(1 .. k + 1) = k + 1
    <3>1. Max(1 .. k + 1) \in 1 .. k + 1 /\ \A y \in 1 .. k + 1 : y <= Max(1 .. k + 1)
      BY <1>1, <2>1, MaxFacts
    <3> QED
      BY <3>1
  <2>3. g[1 .. k + 1] = Put(g[1 .. k], items[k + 1])
    BY <1>4, <2>1, <2>2
  <2>4. g[1 .. k] \in Contents /\ Keeps(st, g[1 .. k])
    BY <1>1, <1>6
  <2>5. items[k + 1] \in Metric
    BY <1>1, <2>1, ElementOfSeq
  <2> DEFINE c == g[1 .. k]
  <2>6. Put(c, items[k + 1]) \in Contents /\ Keeps(c, Put(c, items[k + 1]))
    BY <2>4, <2>5, PutType, PutKeeps
  <2> QED
    BY <2>3, <2>4, <2>6 DEF Keeps
<1> HIDE DEF T
<1>7. n \in T
  BY <1>1, <1>5, <1>6, Induction
<1> QED
  BY <1>1, <1>2, <1>7 DEF T
-----------------------------------------------------------------------------
(***************************************************************************)
(* The inductive invariant.                                                *)
(***************************************************************************)
Labels   == {"idle", "gunzip", "hash", "handle", "readback", "batch", "encode", "write",
             "log", "unwind", "done"}
Statuses == {0, 200, 400, 404, 500}
Values   == {Nil} \cup Int64 \cup GaugeValues
Parts    == [what : {"error", "answer", "end", "closeError"}, of : Handlers]

Types ==
  /\ config \in Configs
  /\ st \in Contents
  /\ pc \in [Handlers -> Labels]
  /\ req \in [Handlers -> Requests \cup {NoRequest}]
  /\ resp \in [Handlers -> [status : Statuses, parts : Seq(Parts)]]
  /\ seen \in [Handlers -> Statuses]
  /\ logged \in [Handlers -> Statuses \cup {Nil}]
  /\ answer \in [Handlers -> Values]
  /\ applied \in [Handlers -> SUBSET Nat]
  /\ lost \in [Handlers -> SUBSET Nat]
  /\ event \in [Handlers -> BOOLEAN]
  /\ missed \in [Handlers -> BOOLEAN]
  /\ writer \in [Handlers -> Writers \cup {NoObject}]
  /\ target \in [Writers -> Handlers \cup {NoObject}]
  /\ buffer \in [Handlers -> Buffers \cup {NoObject}]
  /\ content \in [Buffers -> Handlers \cup {NoObject}]

\* A pooled object works for the request that has it.
Shared(h) ==
  /\ writer[h] # NoObject => target[writer[h]] = h
  /\ buffer[h] # NoObject => content[buffer[h]] = h

\* What a request has and has not yet, by how far it is.
Flow(h) ==
  /\ IF pc[h] = "idle" THEN req[h] = NoRequest ELSE req[h] \in Requests
  /\ pc[h] \in {"idle", "gunzip", "done"} => writer[h] = NoObject
  /\ pc[h] \notin {"idle", "gunzip", "done"} =>
       req[h].coding # "noGzip" /\ (writer[h] # NoObject <=> req[h].accept)
  /\ IF pc[h] = "write" THEN buffer[h] \in Buffers /\ answer[h] \notin Unencodable
                        ELSE buffer[h] = NoObject
  /\ pc[h] \notin {"unwind", "done"} => logged[h] = Nil
  /\ pc[h] \notin {"log", "unwind", "done"} => resp[h] = NoResponse /\ seen[h] = 0
  /\ pc[h] \in {"idle", "gunzip", "hash", "handle"} =>
       applied[h] = {} /\ lost[h] = {} /\ ~event[h] /\ ~missed[h]

\* The hash check, and what a request must be to store something.
Passed(h) == Checked(h) => Readable(req[h]) /\ SumMatches(req[h])
Stores(h) == /\ req[h].route \in {"update", "updateURL", "updates"}
             /\ Decodes(req[h])
             /\ Bad(req[h].items) = {}

Work(h) ==
  /\ pc[h] \in {"handle", "readback", "batch", "encode", "write"} => Passed(h)
  /\ Tried(h) # {} => Passed(h) /\ Stores(h) /\ Tried(h) \subseteq DOMAIN req[h].items
  /\ lost[h] # {} => Fallible /\ req[h].route = "updates"
  /\ missed[h] => Fallible
  /\ event[h] => Stores(h) /\ Everything(h)
  /\ pc[h] = "batch" => /\ Fallible /\ req[h].route = "updates" /\ Stores(h)
                        /\ ~event[h] /\ ~missed[h]
  /\ pc[h] = "readback" =>
       /\ req[h].route \in {"update", "updateURL"}
       /\ applied[h] = {1} /\ ~event[h] /\ ~missed[h]
  /\ pc[h] \in {"encode", "write"} =>
       \/ req[h].route = "update" /\ applied[h] = {1} /\ event[h]
       \/ req[h].route = "value" /\ Decodes(req[h]) /\ applied[h] = {} /\ ~event[h]

\* The answer to a request that did not panic, and what it says.
Outcome(h) ==
  /\ resp[h].status \in {200, 400, 404, 500}
  /\ resp[h].status \in {400, 404} => applied[h] = {} /\ ~event[h]
  /\ resp[h].status = 200 /\ req[h].route \in {"update", "updateURL", "updates"} =>
       event[h] /\ Everything(h)
  /\ event[h] /\ resp[h].status # 200 => resp[h].status = 500 /\ answer[h] \in Unencodable
  /\ resp[h].status = 500 =>
       \/ Checked(h) /\ ~Readable(req[h])
       \/ answer[h] \in Unencodable
       \/ missed[h]
  /\ resp[h].status = 500 /\ applied[h] # {} => event[h] \/ missed[h]
  /\ resp[h].status = 404 => req[h].route \in {"value", "valueURL"}
  /\ resp[h].status \in {200, 404} /\ req[h].route \in {"update", "value", "valueURL"} =>
       req[h].items # Nil
  /\ \/ seen[h] = resp[h].status
     \/ seen[h] = 0 /\ resp[h].status = 200 /\ req[h].route = "valueURL"
  /\ /\ req[h].route \in {"update", "updates"}
     /\ req[h].coding = "gzip"
     /\ req[h].sum \in {"none", "ofBody"}
     /\ req[h].items # Nil /\ Bad(req[h].items) = {}
     => resp[h].status \notin {400, 404}

\* The parts of the body: the handler's, and what the way back adds.
Main(h) ==
  IF \/ req[h].route = "ping"
     \/ req[h].route \in {"updateURL", "updates"} /\ ~Failed(h)
  THEN <<>> ELSE <<Part(IF Failed(h) THEN "error" ELSE "answer", h)>>
Ending(h) == IF req[h].accept THEN <<Part("end", h)>> ELSE <<>>
Late(h)   == IF req[h].coding = "truncated" THEN <<Part("closeError", h)>> ELSE <<>>

End(h) ==
  /\ pc[h] \in {"log", "unwind"} => Outcome(h) /\ resp[h].parts = Main(h)
  /\ pc[h] = "unwind" => logged[h] = seen[h]
  /\ pc[h] = "done" =>
       IF req[h].coding = "noGzip"
       THEN /\ resp[h] = [status |-> 400, parts |-> <<Part("error", h)>>]
            /\ applied[h] = {} /\ ~event[h]
       ELSE IF Cut(h)
       THEN /\ req[h].route = "ping" /\ ~Fallible
            /\ logged[h] = Nil /\ applied[h] = {} /\ ~event[h]
       ELSE /\ Outcome(h) /\ logged[h] = seen[h]
            /\ resp[h].parts = (Main(h) \o Ending(h)) \o Late(h)

\* The history of the metric, and the answer taken from it.
Real(h) == answer[h] \in past[h] \/ (missed[h] /\ answer[h] = Sent(Item(h)))

History(h) ==
  req[h].route \in {"update", "value", "valueURL"} /\ req[h].items # Nil =>
    /\ pc[h] \in {"handle", "readback"} => Stored(Item(h)) \in past[h]
    /\ pc[h] = "readback" => Stored(Item(h)) # Nil
    /\ pc[h] \in {"encode", "write"} => Real(h)
    /\ pc[h] \in {"log", "unwind", "done"} =>
         /\ resp[h].status = 200 => Real(h)
         /\ resp[h].status = 404 => Nil \in past[h] \/ missed[h]

RInv(h) == Shared(h) /\ Flow(h) /\ Work(h) /\ End(h) /\ History(h)

PInv == Types /\ \A h \in Handlers : RInv(h)

\* What is known of a request.
LEMMA RequestFacts ==
  ASSUME NEW r \in Requests
  PROVE  /\ r.route \in Routes /\ r.coding \in Codings /\ r.sum \in Sums /\ r.accept \in BOOLEAN
         /\ r # NoRequest
         /\ r.items # Nil => r.items \in Seq(Metric)
         /\ r.route \in {"update", "updateURL", "updates", "value", "valueURL"} /\ Decodes(r) => r.items # Nil
         /\ r.route \in {"update", "updates", "value"} /\ Decodes(r) => Readable(r)
         /\ r.route \in {"update", "updateURL", "value", "valueURL"} /\ r.items # Nil =>
              DOMAIN r.items = {1} /\ Head(r.items) = r.items[1] /\ Head(r.items) \in Metric
<1>1. /\ r.route \in Routes /\ r.coding \in Codings /\ r.sum \in Sums /\ r.accept \in BOOLEAN
      /\ r.items # Nil => r.items \in Seq(Metric)
      /\ r.items # Nil /\ r.route \in {"update", "updateURL", "value", "valueURL"} => Len(r.items) = 1
      /\ r.route = "valueURL" => r.items # Nil
  BY PipelineAssumption
<1>2. r # NoRequest
  BY <1>1 DEF NoRequest, Routes
<1>3. /\ r.route \in {"update", "updates", "value"} /\ Decodes(r) => Readable(r) /\ r.items # Nil
      /\ r.route = "updateURL" /\ Decodes(r) => r.items # Nil
  BY DEF Decodes
<1>4. ASSUME r.items # Nil, r.route \in {"update", "updateURL", "value", "valueURL"}
      PROVE  DOMAIN r.items = {1} /\ Head(r.items) = r.items[1] /\ Head(r.items) \in Metric
  <2>1. r.items \in Seq(Metric) /\ Len(r.items) = 1
    BY <1>1, <1>4
  <2>2. DOMAIN r.items = {1}
    BY <2>1, LenProperties
  <2>3. r.items[1] \in Metric
    BY <2>1, ElementOfSeq
  <2> QED
    BY <2>1, <2>2, <2>3
<1> QED
  BY <1>1, <1>2, <1>3, <1>4

\* The metric of a request, its value in the store, and that it stays there.
LEMMA StoredFacts ==
  ASSUME NEW m \in Metric, st \in Contents
  PROVE  /\ Stored(m) \in Values /\ Sent(m) \in Values
         /\ st' \in Contents /\ Keeps(st, st') /\ Stored(m) # Nil => Stored(m)' # Nil
<1>1. m.id \in Names /\ m.delta \in Int64 \cup {Nil} /\ m.value \in GaugeValues \cup {Nil}
  BY DEF Metric
<1>2. Stored(m) \in Values /\ Sent(m) \in Values
  BY <1>1 DEF Stored, Sent, Values, Contents
<1>3. ASSUME Keeps(st, st'), Stored(m) # Nil PROVE Stored(m)' # Nil
  BY <1>1, <1>3 DEF Stored, Keeps
<1> QED
  BY <1>2, <1>3

\* A pooled object that a request has works for it, so the body goes where it
\* belongs.
LEMMA SinkIsOwn ==
  ASSUME NEW h \in Handlers, Shared(h)
  PROVE  Sink(h) = h
BY DEF Sink, Shared

Reply(code, parts) == [status |-> code, parts |-> parts]

LEMMA AnsweredFacts ==
  ASSUME Types, NEW h \in Handlers, Shared(h), resp[h] = NoResponse,
         NEW code \in Statuses \ {0}, NEW part \in Parts, Answered(h, code, part)
  PROVE  /\ resp' = [resp EXCEPT ![h] = Reply(code, <<part>>)]
         /\ seen' = [seen EXCEPT ![h] = code]
         /\ Reply(code, <<part>>) \in [status : Statuses, parts : Seq(Parts)]
<1> DEFINE rs == [resp EXCEPT ![h] = WithStatus(@, code)]
<1>1. Sink(h) = h /\ DOMAIN resp = Handlers
  BY SinkIsOwn DEF Types
<1>2. rs[h] = Reply(code, <<>>)
  BY <1>1 DEF WithStatus, NoResponse, Reply
<1>3. WithPart(rs[h], part) = Reply(code, <<part>>)
  <2>1. WithStatus(Reply(code, <<>>), 200) = Reply(code, <<>>)
    BY DEF WithStatus, Reply, Statuses
  <2>2. Append(<<>>, part) = <<part>>
    OBVIOUS
  <2> QED
    BY <1>2, <2>1, <2>2 DEF WithPart, Reply
<1>4. resp' = [rs EXCEPT ![h] = WithPart(@, part)]
  BY <1>1 DEF Answered
<1>5. resp' = [resp EXCEPT ![h] = Reply(code, <<part>>)]
  <2>1. resp' = [rs EXCEPT ![h] = Reply(code, <<part>>)]
    BY <1>1, <1>3, <1>4
  <2> QED
    BY <1>1, <2>1
<1>6. Reply(code, <<part>>) \in [status : Statuses, parts : Seq(Parts)]
  BY DEF Reply
<1> QED
  BY <1>5, <1>6 DEF Answered

LEMMA StatusFacts ==
  ASSUME Types, NEW h \in Handlers, resp[h] = NoResponse, NEW code \in Statuses \ {0}, Status(h, code)
  PROVE  /\ resp' = [resp EXCEPT ![h] = Reply(code, <<>>)]
         /\ seen' = [seen EXCEPT ![h] = code]
         /\ Reply(code, <<>>) \in [status : Statuses, parts : Seq(Parts)]
<1>1. WithStatus(resp[h], code) = Reply(code, <<>>)
  BY DEF WithStatus, NoResponse, Reply
<1>2. Reply(code, <<>>) \in [status : Statuses, parts : Seq(Parts)]
  BY DEF Reply
<1> QED
  BY <1>1, <1>2 DEF Status, Types
-----------------------------------------------------------------------------
(***************************************************************************)
(* A request that is not the one that moves.                               *)
(***************************************************************************)
Untouched(r) ==
  /\ config' = config
  /\ pc'[r] = pc[r] /\ req'[r] = req[r] /\ resp'[r] = resp[r] /\ seen'[r] = seen[r]
  /\ logged'[r] = logged[r] /\ answer'[r] = answer[r] /\ applied'[r] = applied[r]
  /\ lost'[r] = lost[r]
  /\ event'[r] = event[r] /\ missed'[r] = missed[r]
  /\ writer'[r] = writer[r] /\ buffer'[r] = buffer[r]
  /\ writer[r] # NoObject => target'[writer[r]] = target[writer[r]]
  /\ buffer[r] # NoObject => content'[buffer[r]] = content[buffer[r]]

\* What is remembered of a request's metric.
LEMMA PastFacts ==
  ASSUME Remember, NEW h \in Handlers,
         req[h].route \in {"update", "value", "valueURL"}, req[h].items # Nil
  PROVE  /\ pc'[h] \in {"handle", "readback"} => Stored(Item(h))' \in past'[h]
         /\ pc'[h] \notin {"idle", "gunzip", "hash", "handle", "readback"} => past'[h] = past[h]
         /\ pc'[h] = pc[h] /\ pc[h] \in {"handle", "readback"} => past[h] \subseteq past'[h]
BY DEF Remember

LEMMA UntouchedKeeps ==
  ASSUME PInv, NEW r \in Handlers, Untouched(r), Remember, st' \in Contents, Keeps(st, st')
  PROVE  RInv(r)'
<1>0. Types /\ Shared(r) /\ Flow(r) /\ Work(r) /\ End(r) /\ History(r)
  BY DEF PInv, RInv
<1>1. Shared(r)'
  BY <1>0 DEF Shared, Untouched
<1>2. Flow(r)'
  BY <1>0 DEF Flow, Untouched
<1>3. /\ Fallible' <=> Fallible
      /\ Checked(r)' <=> Checked(r)
      /\ Everything(r)' <=> Everything(r)
  BY DEF Fallible, Checked, Everything, Tried, Untouched
<1>4. Work(r)'
  BY <1>0, <1>3 DEF Work, Untouched, Passed, Stores, Tried
<1>5. /\ Outcome(r) => Outcome(r)'
      /\ Main(r)' = Main(r) /\ Ending(r)' = Ending(r) /\ Late(r)' = Late(r)
      /\ Cut(r)' <=> Cut(r)
  BY <1>3 DEF Outcome, Main, Ending, Late, Cut, Failed, Untouched
<1>6. End(r)'
  BY <1>0, <1>3, <1>5 DEF End, Untouched
<1>7. History(r)'
  <2> SUFFICES ASSUME req[r].route \in {"update", "value", "valueURL"}, req[r].items # Nil
               PROVE  History(r)'
    BY DEF History, Untouched
  <2>1. pc[r] # "idle" => Item(r) \in Metric
    BY <1>0, RequestFacts DEF Flow, Item
  <2>2. Item(r)' = Item(r)
    BY DEF Item, Untouched
  <2>3. pc[r] = "readback" => Stored(Item(r))' # Nil
    <3> SUFFICES ASSUME pc[r] = "readback" PROVE Stored(Item(r))' # Nil
      OBVIOUS
    <3>1. Item(r) \in Metric /\ Stored(Item(r)) # Nil
      BY <1>0, <2>1 DEF History
    <3> DEFINE m == Item(r)
    <3>2. Stored(m)' = IF m.mtype = "gauge" THEN st'.gauges[m.id] ELSE st'.counters[m.id]
      BY <2>2 DEF Stored
    <3>3. m.id \in Names
      BY <3>1 DEF Metric
    <3> HIDE DEF m
    <3>4. Stored(m) # Nil
      BY <3>1 DEF m
    <3>5. Stored(m)' # Nil
      BY <3>2, <3>3, <3>4 DEF Stored, Keeps
    <3> QED
      BY <3>5 DEF m
  <2>4. /\ pc[r] \in {"handle", "readback"} => Stored(Item(r))' \in past'[r]
        /\ pc[r] \in {"encode", "write", "log", "unwind", "done"} => past'[r] = past[r]
    BY PastFacts DEF Untouched
  <2>5. pc[r] \in {"encode", "write", "log", "unwind", "done"} => (Real(r)' <=> Real(r))
    BY <2>2, <2>4 DEF Real, Sent, Untouched
  <2> QED
    BY <1>0, <2>3, <2>4, <2>5 DEF History, Untouched
<1> QED
  BY <1>1, <1>2, <1>4, <1>6, <1>7 DEF RInv
-----------------------------------------------------------------------------
(***************************************************************************)
(* The request that moves: what every step does and leaves alone.          *)
(***************************************************************************)
Replies == [status : Statuses, parts : Seq(Parts)]

Moves(h) ==
  /\ config' = config /\ st' \in Contents /\ Keeps(st, st')
  /\ \E l \in Labels : pc' = [pc EXCEPT ![h] = l]
  /\ req' = req \/ \E r \in Requests \cup {NoRequest} : req' = [req EXCEPT ![h] = r]
  /\ resp' = resp \/ \E r \in Replies : resp' = [resp EXCEPT ![h] = r]
  /\ seen' = seen \/ \E s \in Statuses : seen' = [seen EXCEPT ![h] = s]
  /\ logged' = logged \/ \E s \in Statuses \cup {Nil} : logged' = [logged EXCEPT ![h] = s]
  /\ answer' = answer \/ \E v \in Values : answer' = [answer EXCEPT ![h] = v]
  /\ applied' = applied \/ \E k \in SUBSET Nat : applied' = [applied EXCEPT ![h] = k]
  /\ lost' = lost \/ \E k \in SUBSET Nat : lost' = [lost EXCEPT ![h] = k]
  /\ event' = event \/ \E e \in BOOLEAN : event' = [event EXCEPT ![h] = e]
  /\ missed' = missed \/ \E e \in BOOLEAN : missed' = [missed EXCEPT ![h] = e]
  /\ writer' = writer \/ \E w \in Writers \cup {NoObject} : writer' = [writer EXCEPT ![h] = w]
  /\ buffer' = buffer \/ \E b \in Buffers \cup {NoObject} : buffer' = [buffer EXCEPT ![h] = b]
  /\ target' \in [Writers -> Handlers \cup {NoObject}]
  /\ content' \in [Buffers -> Handlers \cup {NoObject}]
  /\ \A r \in Handlers \ {h} :
       /\ writer[r] # NoObject => target'[writer[r]] = target[writer[r]]
       /\ buffer[r] # NoObject => content'[buffer[r]] = content[buffer[r]]

\* A step that sets a variable for one request, if at all.
LEMMA OneChanges ==
  ASSUME NEW f, NEW g, NEW S, NEW h \in Handlers, f \in [Handlers -> S],
         g = f \/ \E v \in S : g = [f EXCEPT ![h] = v]
  PROVE  g \in [Handlers -> S] /\ \A r \in Handlers \ {h} : g[r] = f[r]
OBVIOUS

LEMMA MovesFacts ==
  ASSUME Types, NEW h \in Handlers, Moves(h)
  PROVE  Types' /\ \A r \in Handlers \ {h} : Untouched(r)
<1> DEFINE Others(f, g) == \A r \in Handlers \ {h} : g[r] = f[r]
<1>1. pc' \in [Handlers -> Labels] /\ Others(pc, pc')
  <2>1. pc \in [Handlers -> Labels]
    BY DEF Types
  <2>2. \E v \in Labels : pc' = [pc EXCEPT ![h] = v]
    BY DEF Moves
  <2> QED
    BY <2>1, <2>2, OneChanges
<1>2. req' \in [Handlers -> Requests \cup {NoRequest}] /\ Others(req, req')
  <2>1. req \in [Handlers -> Requests \cup {NoRequest}]
    BY DEF Types
  <2>2. req' = req \/ \E v \in Requests \cup {NoRequest} : req' = [req EXCEPT ![h] = v]
    BY DEF Moves
  <2> QED
    BY <2>1, <2>2, OneChanges
<1>3. resp' \in [Handlers -> Replies] /\ Others(resp, resp')
  <2>1. resp \in [Handlers -> Replies]
    BY DEF Types, Replies
  <2>2. resp' = resp \/ \E v \in Replies : resp' = [resp EXCEPT ![h] = v]
    BY DEF Moves
  <2> QED
    BY <2>1, <2>2, OneChanges
<1>4. seen' \in [Handlers -> Statuses] /\ Others(seen, seen')
  <2>1. seen \in [Handlers -> Statuses]
    BY DEF Types
  <2>2. seen' = seen \/ \E v \in Statuses : seen' = [seen EXCEPT ![h] = v]
    BY DEF Moves
  <2> QED
    BY <2>1, <2>2, OneChanges
<1>5. logged' \in [Handlers -> Statuses \cup {Nil}] /\ Others(logged, logged')
  <2>1. logged \in [Handlers -> Statuses \cup {Nil}]
    BY DEF Types
  <2>2. logged' = logged \/ \E v \in Statuses \cup {Nil} : logged' = [logged EXCEPT ![h] = v]
    BY DEF Moves
  <2> QED
    BY <2>1, <2>2, OneChanges
<1>6. answer' \in [Handlers -> Values] /\ Others(answer, answer')
  <2>1. answer \in [Handlers -> Values]
    BY DEF Types
  <2>2. answer' = answer \/ \E v \in Values : answer' = [answer EXCEPT ![h] = v]
    BY DEF Moves
  <2> QED
    BY <2>1, <2>2, OneChanges
<1>7. applied' \in [Handlers -> SUBSET Nat] /\ Others(applied, applied')
  <2>1. applied \in [Handlers -> SUBSET Nat]
    BY DEF Types
  <2>2. applied' = applied \/ \E v \in SUBSET Nat : applied' = [applied EXCEPT ![h] = v]
    BY DEF Moves
  <2> QED
    BY <2>1, <2>2, OneChanges
<1>a. lost' \in [Handlers -> SUBSET Nat] /\ Others(lost, lost')
  <2>1. lost \in [Handlers -> SUBSET Nat]
    BY DEF Types
  <2>2. lost' = lost \/ \E v \in SUBSET Nat : lost' = [lost EXCEPT ![h] = v]
    BY DEF Moves
  <2> QED
    BY <2>1, <2>2, OneChanges
<1>8. event' \in [Handlers -> BOOLEAN] /\ Others(event, event')
  <2>1. event \in [Handlers -> BOOLEAN]
    BY DEF Types
  <2>2. event' = event \/ \E v \in BOOLEAN : event' = [event EXCEPT ![h] = v]
    BY DEF Moves
  <2> QED
    BY <2>1, <2>2, OneChanges
<1>9. missed' \in [Handlers -> BOOLEAN] /\ Others(missed, missed')
  <2>1. missed \in [Handlers -> BOOLEAN]
    BY DEF Types
  <2>2. missed' = missed \/ \E v \in BOOLEAN : missed' = [missed EXCEPT ![h] = v]
    BY DEF Moves
  <2> QED
    BY <2>1, <2>2, OneChanges
<1>10. writer' \in [Handlers -> Writers \cup {NoObject}] /\ Others(writer, writer')
  <2>1. writer \in [Handlers -> Writers \cup {NoObject}]
    BY DEF Types
  <2>2. writer' = writer \/ \E v \in Writers \cup {NoObject} : writer' = [writer EXCEPT ![h] = v]
    BY DEF Moves
  <2> QED
    BY <2>1, <2>2, OneChanges
<1>11. buffer' \in [Handlers -> Buffers \cup {NoObject}] /\ Others(buffer, buffer')
  <2>1. buffer \in [Handlers -> Buffers \cup {NoObject}]
    BY DEF Types
  <2>2. buffer' = buffer \/ \E v \in Buffers \cup {NoObject} : buffer' = [buffer EXCEPT ![h] = v]
    BY DEF Moves
  <2> QED
    BY <2>1, <2>2, OneChanges
<1>12. /\ config' \in Configs /\ st' \in Contents
       /\ target' \in [Writers -> Handlers \cup {NoObject}]
       /\ content' \in [Buffers -> Handlers \cup {NoObject}]
  BY DEF Types, Moves
<1>13. Types'
  BY <1>1, <1>2, <1>3, <1>4, <1>5, <1>6, <1>7, <1>a, <1>8, <1>9, <1>10, <1>11, <1>12
     DEF Types, Replies
<1>14. ASSUME NEW r \in Handlers \ {h} PROVE Untouched(r)
  BY <1>1, <1>2, <1>3, <1>4, <1>5, <1>6, <1>7, <1>a, <1>8, <1>9, <1>10, <1>11 DEF Moves, Untouched
<1> QED
  BY <1>13, <1>14

\* A store that is left alone keeps everything.
LEMMA StoreStays == Types /\ st' = st => st' \in Contents /\ Keeps(st, st')
BY DEF Types, Keeps

\* A request whose handler has come to an end.
LEMMA EndsWell ==
  ASSUME PInv, NEW h \in Handlers,
         pc[h] \in {"hash", "handle", "readback", "batch", "encode", "write"}, pc'[h] = "log",
         config' = config, req' = req, logged' = logged, writer' = writer, target' = target,
         buffer'[h] = NoObject,
         Work(h)', Outcome(h)', resp'[h].parts = Main(h)', History(h)'
  PROVE  RInv(h)'
<1>0. Shared(h) /\ Flow(h)
  BY DEF PInv, RInv
<1>1. Shared(h)'
  BY <1>0 DEF Shared
<1>2. Flow(h)'
  BY <1>0 DEF Flow
<1>3. End(h)'
  BY DEF End
<1> QED
  BY <1>1, <1>2, <1>3 DEF RInv

\* What holds of a step that refuses a request, wherever that happens.
Refusal(h, code) ==
  /\ Fail(h, code)
  /\ pc[h] \in {"hash", "handle", "batch", "encode"}
  /\ UNCHANGED <<config, req, logged, answer, lost, event, wires>>
  /\ st' \in Contents /\ Keeps(st, st')
  /\ applied' = applied \/ \E k \in SUBSET Nat : applied' = [applied EXCEPT ![h] = k]
  /\ missed' = missed \/ \E e \in BOOLEAN : missed' = [missed EXCEPT ![h] = e]
  /\ req[h].route # "ping"
  /\ code # 500 => applied'[h] = {} /\ ~event[h]
  /\ event[h] => applied'[h] = applied[h] /\ answer[h] \in Unencodable
  /\ code = 500 => (Checked(h) /\ ~Readable(req[h])) \/ answer[h] \in Unencodable \/ missed'[h]
  /\ code = 500 /\ applied'[h] # {} => event[h] \/ missed'[h]
  /\ missed'[h] => Fallible
  /\ code = 404 => /\ req[h].route \in {"value", "valueURL"} /\ req[h].items # Nil
                   /\ Nil \in past[h] \/ missed'[h]
  /\ /\ req[h].route \in {"update", "updates"}
     /\ req[h].coding = "gzip"
     /\ req[h].sum \in {"none", "ofBody"}
     /\ req[h].items # Nil /\ Bad(req[h].items) = {}
     => code = 500
  /\ Tried(h)' # {} => Passed(h) /\ Stores(h) /\ Tried(h)' \subseteq DOMAIN req[h].items

LEMMA Refused ==
  ASSUME PInv, NEW h \in Handlers, NEW code \in {400, 404, 500}, Refusal(h, code), Remember
  PROVE  Moves(h) /\ RInv(h)'
<1> USE DEF Refusal
<1>0. Types /\ Shared(h) /\ Flow(h) /\ Work(h)
  BY DEF PInv, RInv
<1>1. resp[h] = NoResponse /\ buffer[h] = NoObject /\ Part("error", h) \in Parts /\ code \in Statuses \ {0}
  BY <1>0 DEF Flow, Part, Parts, Statuses
<1>2. /\ resp' = [resp EXCEPT ![h] = Reply(code, <<Part("error", h)>>)]
      /\ seen' = [seen EXCEPT ![h] = code]
      /\ Reply(code, <<Part("error", h)>>) \in Replies
      /\ pc' = [pc EXCEPT ![h] = "log"]
  BY <1>0, <1>1, AnsweredFacts DEF Fail, Goto, Replies
<1>3. UNCHANGED <<writer, target, buffer, content>>
  BY DEF wires
<1>4. Moves(h)
  BY <1>0, <1>1, <1>2, <1>3, ZenonT(40) DEF Moves, Types, Labels
<1>5. /\ pc'[h] = "log" /\ resp'[h].status = code /\ resp'[h].parts = <<Part("error", h)>>
      /\ seen'[h] = code
  BY <1>0, <1>2 DEF Types, Reply
<1>7. /\ Fallible' <=> Fallible
      /\ Checked(h)' <=> Checked(h)
      /\ Passed(h)' <=> Passed(h)
      /\ Stores(h)' <=> Stores(h)
  BY DEF Fallible, Checked, Passed, Stores
<1>8. event[h] => (Everything(h)' <=> Everything(h))
  BY <1>5, <1>7 DEF Everything, Tried
<1>9. Work(h)'
  BY <1>0, <1>5, <1>7, <1>8 DEF Work
<1>10. Outcome(h)'
  <2>1. event'[h] = event[h] /\ answer' = answer /\ req' = req
    OBVIOUS
  <2>2. code \in {400, 404} => applied'[h] = {} /\ ~event'[h]
    <3>1. code \in {400, 404} => code # 500
      OBVIOUS
    <3>2. code \in {400, 404} => applied'[h] = {} /\ ~event[h]
      BY <3>1, Zenon
    <3> QED
      BY <1>5, <2>1, <3>2, Zenon
  <2>3. event'[h] => code = 500 /\ answer[h] \in Unencodable
    BY <2>1
  <2>4. /\ code = 500 => (Checked(h)' /\ ~Readable(req[h])) \/ answer[h] \in Unencodable \/ missed'[h]
        /\ code = 500 /\ applied'[h] # {} => event'[h] \/ missed'[h]
    BY <1>7, <2>1
  <2>5. code # 200 /\ (code = 404 => req[h].items # Nil)
    OBVIOUS
  <2> QED
    BY <1>5, <2>1, <2>2, <2>3, <2>4, <2>5 DEF Outcome
<1>11. resp'[h].parts = Main(h)'
  <2>1. Failed(h)'
    BY <1>5 DEF Failed
  <2> QED
    BY <1>5, <2>1 DEF Main
<1>12. History(h)'
  <2>1. req[h].route \in {"update", "value", "valueURL"} /\ req[h].items # Nil => past'[h] = past[h]
    BY <1>5, PastFacts
  <2> QED
    BY <1>5, <2>1 DEF History
<1> QED
  BY <1>1, <1>3, <1>4, <1>5, <1>9, <1>10, <1>11, <1>12, EndsWell

LEMMA RefusedEarly ==
  ASSUME PInv, NEW h \in Handlers, NEW code \in {400, 404, 500}, Fail(h, code), Remember,
         pc[h] \in {"hash", "handle", "encode"},
         UNCHANGED <<config, st, req, logged, answer, applied, lost, event, missed, wires>>,
         req[h].route # "ping",
         pc[h] = "encode" => code = 500 /\ answer[h] \in Unencodable,
         code = 500 => (Checked(h) /\ ~Readable(req[h])) \/ answer[h] \in Unencodable,
         code # 404,
         /\ req[h].route \in {"update", "updates"}
         /\ req[h].coding = "gzip"
         /\ req[h].sum \in {"none", "ofBody"}
         /\ req[h].items # Nil /\ Bad(req[h].items) = {}
         => code = 500
  PROVE  Moves(h) /\ RInv(h)'
<1>0. Types /\ Flow(h) /\ Work(h)
  BY DEF PInv, RInv
<1>1. applied' = applied /\ missed' = missed
  OBVIOUS
<1>9. applied'[h] = applied[h] /\ missed'[h] = missed[h]
  BY <1>1
<1>2. st' \in Contents /\ Keeps(st, st')
  BY <1>0, StoreStays
<1>3. pc[h] \in {"hash", "handle"} => applied[h] = {} /\ ~event[h]
  BY <1>0 DEF Flow
<1>4. code # 500 => applied'[h] = {} /\ ~event[h]
  <2>1. code # 500 => pc[h] \in {"hash", "handle"}
    OBVIOUS
  <2> QED
    BY <1>3, <1>9, <2>1, Zenon
<1>5. event[h] => applied'[h] = applied[h] /\ answer[h] \in Unencodable
  <2>1. event[h] => pc[h] = "encode"
    BY <1>3
  <2> QED
    BY <1>1, <2>1
<1>6. Tried(h)' # {} => Passed(h) /\ Stores(h) /\ Tried(h)' \subseteq DOMAIN req[h].items
  BY <1>0, <1>1 DEF Work, Tried
<1>7. code # 404
  OBVIOUS
<1>8. UNCHANGED <<config, req, logged, answer, lost, event, wires>>
  OBVIOUS
<1>a. missed'[h] => Fallible
  BY <1>0, <1>9 DEF Work
<1>b. applied'[h] # {} => event[h]
  <2>1. applied'[h] # {} => pc[h] = "encode"
    BY <1>3, <1>9
  <2> QED
    BY <1>0, <1>9, <2>1 DEF Work
<1>10. Refusal(h, code)
  BY <1>1, <1>2, <1>4, <1>5, <1>6, <1>7, <1>8, <1>a, <1>b DEF Refusal
<1> QED
  BY <1>10, Refused

LEMMA HashCheckMoves ==
  ASSUME PInv, NEW h \in Handlers, HashCheck(h), Remember
  PROVE  Moves(h) /\ RInv(h)'
<1>0. /\ Types /\ Shared(h) /\ Flow(h) /\ Work(h) /\ End(h) /\ History(h)
      /\ pc[h] = "hash" /\ req[h] \in Requests
      /\ UNCHANGED <<config, st, req, logged, answer, applied, lost, event, missed, wires>>
  BY DEF PInv, RInv, Flow, HashCheck
<1>1. CASE (Checked(h) => Readable(req[h]) /\ SumMatches(req[h])) /\ Goto(h, "handle")
           /\ UNCHANGED <<resp, seen>>
  <2>1. pc' = [pc EXCEPT ![h] = "handle"] /\ pc'[h] = "handle"
    BY <1>0, <1>1 DEF Goto, Types
  <2>2. UNCHANGED <<resp, seen, writer, target, buffer, content>>
    BY <1>0, <1>1 DEF wires
  <2>3. Moves(h)
    BY <1>0, <2>1, <2>2, StoreStays DEF Moves, Labels, Types
  <2>4. Shared(h)' /\ Flow(h)'
    BY <1>0, <2>1, <2>2 DEF Shared, Flow
  <2>5. Passed(h)' /\ applied'[h] = {} /\ ~event'[h] /\ lost'[h] = {} /\ ~missed'[h]
    BY <1>0, <1>1 DEF Passed, Checked, Flow
  <2>6. Work(h)' /\ End(h)'
    BY <2>1, <2>5 DEF Work, End, Tried, Fallible
  <2>7. History(h)'
    <3>1. req[h].route \in {"update", "value", "valueURL"} /\ req[h].items # Nil =>
             Stored(Item(h))' \in past'[h]
      BY <2>1, PastFacts
    <3> QED
      BY <1>0, <2>1, <3>1 DEF History
  <2> QED
    BY <2>3, <2>4, <2>6, <2>7 DEF RInv
<1>2. CASE Checked(h) /\ ~Readable(req[h]) /\ Fail(h, 500)
  BY <1>0, <1>2, RefusedEarly DEF Checked
<1>3. CASE Checked(h) /\ Readable(req[h]) /\ ~SumMatches(req[h]) /\ Fail(h, 400)
  BY <1>0, <1>3, RefusedEarly DEF Checked, SumMatches
<1> QED
  BY <1>1, <1>2, <1>3 DEF HashCheck

LEMMA CannotDecodeMoves ==
  ASSUME PInv, NEW h \in Handlers, CannotDecode(h), Remember
  PROVE  Moves(h) /\ RInv(h)'
<1>1. ~Decodes(req[h]) /\ pc[h] = "handle"
  BY DEF CannotDecode
<1>2. req[h].route # "ping"
  BY <1>1 DEF Decodes
<1>3. ~(/\ req[h].route \in {"update", "updates"}
        /\ req[h].coding = "gzip"
        /\ req[h].items # Nil)
  BY <1>1 DEF Decodes, Readable
<1> QED
  BY <1>1, <1>2, <1>3, RefusedEarly DEF CannotDecode

LEMMA RejectWriteMoves ==
  ASSUME PInv, NEW h \in Handlers, RejectWrite(h), Remember
  PROVE  Moves(h) /\ RInv(h)'
<1>1. pc[h] = "handle" /\ req[h].route \in {"update", "updates"}
  BY DEF RejectWrite, Serving
<1>2. PICK i \in Bad(req[h].items) : Fail(h, HttpStatus(Verdict(req[h].items[i])))
  BY DEF RejectWrite
<1>3. HttpStatus(Verdict(req[h].items[i])) = 400
  BY DEF Bad, Verdict, HttpStatus
<1>4. Fail(h, 400)
  BY <1>2, <1>3
<1> QED
  BY <1>1, <1>2, <1>4, RefusedEarly DEF RejectWrite

LEMMA EncodeFailsMoves ==
  ASSUME PInv, NEW h \in Handlers, EncodeFails(h), Remember
  PROVE  Moves(h) /\ RInv(h)'
<1>1. pc[h] = "encode" /\ answer[h] \in Unencodable /\ Fail(h, 500)
  BY DEF EncodeFails
<1>2. req[h].route # "ping"
  BY <1>1 DEF PInv, RInv, Work
<1> QED
  BY <1>1, <1>2, RefusedEarly DEF EncodeFails

\* The request a handler serves, and the metric it names.
LEMMA ServingFacts ==
  ASSUME PInv, NEW h \in Handlers, NEW routes, Serving(h, routes)
  PROVE  /\ pc[h] = "handle" /\ req[h] \in Requests /\ req[h].route \in routes /\ Decodes(req[h])
         /\ Types /\ Shared(h) /\ Flow(h) /\ Passed(h) /\ Sink(h) = h
         /\ resp[h] = NoResponse /\ seen[h] = 0 /\ logged[h] = Nil /\ buffer[h] = NoObject
         /\ applied[h] = {} /\ lost[h] = {} /\ ~event[h] /\ ~missed[h]
         /\ req[h].route \in {"update", "updateURL", "updates", "value", "valueURL"} => req[h].items \in Seq(Metric)
         /\ req[h].route \in {"update", "updateURL", "value", "valueURL"} =>
              /\ Item(h) \in Metric /\ DOMAIN req[h].items = {1} /\ Item(h) = req[h].items[1]
              /\ Stored(Item(h)) \in Values /\ Sent(Item(h)) \in Values
         /\ req[h].route \in {"update", "value", "valueURL"} => req[h].items # Nil /\ Stored(Item(h)) \in past[h]
<1>1. /\ pc[h] = "handle" /\ req[h].route \in routes /\ Decodes(req[h])
  BY DEF Serving
<1>2. Types /\ Shared(h) /\ Flow(h) /\ Work(h) /\ History(h)
  BY DEF PInv, RInv
<1>3. req[h] \in Requests
  BY <1>1, <1>2 DEF Flow
<1>4. Passed(h) /\ Sink(h) = h
  BY <1>1, <1>2, SinkIsOwn DEF Work
<1>5. /\ resp[h] = NoResponse /\ seen[h] = 0 /\ logged[h] = Nil /\ buffer[h] = NoObject
  BY <1>1, <1>2 DEF Flow
<1>6. applied[h] = {} /\ lost[h] = {} /\ ~event[h] /\ ~missed[h]
  BY <1>1, <1>2 DEF Flow
<1>7. /\ req[h].route \in {"update", "updateURL", "updates", "value", "valueURL"} =>
           req[h].items # Nil /\ req[h].items \in Seq(Metric)
      /\ req[h].route \in {"update", "updateURL", "value", "valueURL"} =>
           Item(h) \in Metric /\ DOMAIN req[h].items = {1} /\ Item(h) = req[h].items[1]
  BY <1>1, <1>3, RequestFacts DEF Item
<1>8. req[h].route \in {"update", "updateURL", "value", "valueURL"} =>
        Stored(Item(h)) \in Values /\ Sent(Item(h)) \in Values
  BY <1>2, <1>7, StoredFacts DEF Types
<1>9. req[h].route \in {"update", "value", "valueURL"} => Stored(Item(h)) \in past[h]
  BY <1>1, <1>2, <1>7 DEF History
<1> QED
  BY <1>1, <1>2, <1>3, <1>4, <1>5, <1>6, <1>7, <1>8, <1>9

\* A request whose batch is under way.
LEMMA BatchFacts ==
  ASSUME PInv, NEW h \in Handlers, pc[h] = "batch"
  PROVE  /\ Types /\ Shared(h) /\ Flow(h) /\ Work(h) /\ Passed(h) /\ Stores(h)
         /\ req[h] \in Requests /\ req[h].route = "updates" /\ Fallible
         /\ req[h].items \in Seq(Metric)
         /\ resp[h] = NoResponse /\ seen[h] = 0 /\ buffer[h] = NoObject
         /\ ~event[h] /\ ~missed[h]
         /\ Tried(h) \subseteq DOMAIN req[h].items
<1>1. Types /\ Shared(h) /\ Flow(h) /\ Work(h)
  BY DEF PInv, RInv
<1>2. req[h] \in Requests /\ req[h].route = "updates" /\ Stores(h)
  BY <1>1 DEF Flow, Work
<1>3. req[h].items \in Seq(Metric)
  BY <1>2, RequestFacts DEF Stores
<1> QED
  BY <1>1, <1>2, <1>3 DEF Flow, Work

\* A call of the service that fails in the database.
LEMMA CallFails ==
  ASSUME PInv, NEW h \in Handlers, Remember,
         pc[h] \in {"handle", "batch"}, Stores(h), Fallible, Fail(h, 500),
         UNCHANGED <<config, req, logged, answer, lost, event, wires>>,
         missed' = [missed EXCEPT ![h] = TRUE],
         st' \in Contents, Keeps(st, st'),
         applied' = applied \/ \E k \in SUBSET Nat : applied' = [applied EXCEPT ![h] = k],
         Tried(h)' \subseteq DOMAIN req[h].items
  PROVE  Moves(h) /\ RInv(h)'
<1>1. Types /\ Passed(h) /\ ~event[h]
  BY DEF PInv, RInv, Work, Flow
<1>2. PICK code \in {400, 404, 500} : code = 500
  OBVIOUS
<1>3. Fail(h, code)
  BY <1>2
<1>4. missed'[h]
  BY <1>1 DEF Types
<1>5. \E e \in BOOLEAN : missed' = [missed EXCEPT ![h] = e]
  OBVIOUS
<1>6. /\ code # 500 => applied'[h] = {} /\ ~event[h]
      /\ event[h] => applied'[h] = applied[h] /\ answer[h] \in Unencodable
      /\ code # 404
  BY <1>1, <1>2
<1>7. req[h].route # "ping"
  BY DEF Stores
<1>8. Refusal(h, code)
  BY <1>1, <1>2, <1>3, <1>4, <1>5, <1>6, <1>7 DEF Refusal
<1> QED
  BY <1>2, <1>8, Refused

LEMMA SetOneFailsMoves ==
  ASSUME PInv, NEW h \in Handlers, SetOneFails(h), Remember
  PROVE  Moves(h) /\ RInv(h)'
<1>1. /\ Fallible /\ Serving(h, {"update", "updateURL"}) /\ Bad(req[h].items) = {}
      /\ UNCHANGED <<config, req, logged, answer, lost, event, wires>>
      /\ missed' = [missed EXCEPT ![h] = TRUE]
      /\ Fail(h, 500)
  BY DEF SetOneFails, HttpStatus
<1>2. /\ Item(h) \in Metric /\ DOMAIN req[h].items = {1} /\ applied[h] = {} /\ lost[h] = {} /\ Types
  BY <1>1, ServingFacts
<1>3. /\ st' \in Contents /\ Keeps(st, st')
      /\ applied' = applied \/ \E k \in SUBSET Nat : applied' = [applied EXCEPT ![h] = k]
      /\ applied'[h] \subseteq DOMAIN req[h].items
  <2>1. CASE UNCHANGED <<st, applied>>
    BY <1>2, <2>1, StoreStays
  <2>2. CASE st' = Put(st, Item(h)) /\ applied' = [applied EXCEPT ![h] = {1}]
    <3>1. st' \in Contents /\ Keeps(st, st')
      BY <1>2, <2>2, PutType, PutKeeps DEF Types
    <3>2. applied'[h] = {1} /\ {1} \in SUBSET Nat
      BY <1>2, <2>2 DEF Types
    <3> QED
      BY <1>2, <2>2, <3>1, <3>2
  <2> QED
    BY <2>1, <2>2 DEF SetOneFails
<1>4. Tried(h)' \subseteq DOMAIN req[h].items
  BY <1>1, <1>2, <1>3 DEF Tried
<1>5. pc[h] = "handle" /\ Stores(h)
  BY <1>1 DEF Serving, Stores
<1> QED
  BY <1>1, <1>3, <1>4, <1>5, CallFails

LEMMA SetManyFailsMoves ==
  ASSUME PInv, NEW h \in Handlers, SetManyFails(h), Remember
  PROVE  Moves(h) /\ RInv(h)'
<1>1. /\ Fallible /\ UNCHANGED <<config, st, req, logged, answer, applied, lost, event, wires>>
      /\ missed' = [missed EXCEPT ![h] = TRUE]
      /\ Fail(h, 500)
  BY DEF SetManyFails, HttpStatus
<1>2. pc[h] \in {"handle", "batch"} /\ Stores(h) /\ Tried(h) \subseteq DOMAIN req[h].items
  <2>1. CASE Serving(h, {"updates"}) /\ Bad(req[h].items) = {}
    <3>1. pc[h] = "handle" /\ applied[h] = {} /\ lost[h] = {}
      BY <2>1, ServingFacts
    <3> QED
      BY <2>1, <3>1 DEF Serving, Stores, Tried
  <2>2. CASE pc[h] = "batch"
    BY <2>2, BatchFacts
  <2> QED
    BY <2>1, <2>2 DEF SetManyFails
<1>3. Types /\ st' \in Contents /\ Keeps(st, st')
  BY <1>1, StoreStays DEF PInv
<1>4. Tried(h)' = Tried(h)
  BY <1>1 DEF Tried
<1> QED
  BY <1>1, <1>2, <1>3, <1>4, CallFails

LEMMA GetFailsMoves ==
  ASSUME PInv, NEW h \in Handlers, GetFails(h), Remember
  PROVE  Moves(h) /\ RInv(h)'
<1>1. /\ Serving(h, {"value", "valueURL"})
      /\ UNCHANGED <<config, st, req, logged, answer, applied, lost, event, wires>>
  BY DEF GetFails
<1>2. /\ pc[h] = "handle" /\ req[h].route \in {"value", "valueURL"} /\ Types
      /\ applied[h] = {} /\ lost[h] = {} /\ Stored(Item(h)) \in past[h] /\ req[h].items # Nil
  BY <1>1, ServingFacts
<1>3. ~event[h] /\ ~missed[h]
  BY <1>1, ServingFacts
<1>4. st' \in Contents /\ Keeps(st, st') /\ applied'[h] = {} /\ Tried(h)' = {}
  BY <1>1, <1>2, StoreStays DEF Tried
<1>5. CASE Fail(h, HttpStatus("ErrInvalidType")) /\ UNCHANGED missed
  <2>1. Fail(h, 400)
    BY <1>5 DEF HttpStatus
  <2>2. Refusal(h, 400)
    BY <1>1, <1>2, <1>3, <1>4, <1>5, <2>1 DEF Refusal
  <2> QED
    BY <2>2, Refused
<1>6. CASE /\ \/ Stored(Item(h)) = Nil /\ UNCHANGED missed
              \/ Fallible /\ missed' = [missed EXCEPT ![h] = TRUE]
           /\ Fail(h, HttpStatus("ErrNotFound"))
  <2>1. Fail(h, 404)
    BY <1>6 DEF HttpStatus
  <2>2. Nil \in past[h] \/ missed'[h]
    <3>1. CASE Stored(Item(h)) = Nil
      BY <1>2, <3>1
    <3>2. CASE missed' = [missed EXCEPT ![h] = TRUE]
      BY <1>2, <3>2 DEF Types
    <3> QED
      BY <1>6, <3>1, <3>2
  <2>3. missed' = missed \/ \E e \in BOOLEAN : missed' = [missed EXCEPT ![h] = e]
    BY <1>6
  <2>5. missed'[h] => Fallible
    BY <1>3, <1>6
  <2>4. Refusal(h, 404)
    BY <1>1, <1>2, <1>3, <1>4, <2>1, <2>2, <2>3, <2>5 DEF Refusal
  <2> QED
    BY <2>4, Refused
<1> QED
  BY <1>5, <1>6 DEF GetFails

\* A request whose handler ends without an error of its own.
LEMMA Finishes ==
  ASSUME PInv, NEW h \in Handlers, Remember,
         pc[h] \in {"handle", "readback", "batch", "write"}, pc'[h] = "log",
         config' = config, req' = req, logged' = logged, writer' = writer, target' = target,
         buffer'[h] = NoObject,
         NEW code \in {200, 500},
         resp'[h] = Reply(code, IF req[h].route \in {"ping", "updateURL", "updates"}
                                THEN <<>> ELSE <<Part("answer", h)>>),
         code = 500 => /\ req[h].route = "ping" /\ missed'[h]
                       /\ ~event'[h] /\ applied'[h] = {},
         seen'[h] = code \/ (seen'[h] = 0 /\ code = 200 /\ req[h].route = "valueURL"),
         code = 200 /\ req[h].route \in {"update", "updateURL", "updates"} => event'[h],
         Work(h)',
         req[h].route \in {"update", "value", "valueURL"} => Real(h)' /\ req[h].items # Nil
  PROVE  RInv(h)'
<1>1. resp'[h].status = code /\ (Failed(h)' <=> code = 500)
  BY DEF Reply, Failed
<1>2. resp'[h].parts = Main(h)'
  <2>1. resp'[h].parts = IF req[h].route \in {"ping", "updateURL", "updates"}
                         THEN <<>> ELSE <<Part("answer", h)>>
    BY DEF Reply
  <2>2. code = 500 => req[h].route = "ping"
    OBVIOUS
  <2> QED
    BY <1>1, <2>1, <2>2 DEF Main
<1>3. Outcome(h)'
  <2>1. code = 500 => ~event'[h] /\ missed'[h]
    OBVIOUS
  <2>2. code = 200 /\ req[h].route \in {"update", "updateURL", "updates"} => event'[h] /\ Everything(h)'
    BY DEF Work
  <2> QED
    BY <1>1, <2>1, <2>2 DEF Outcome
<1>4. History(h)'
  BY <1>1 DEF History
<1> QED
  BY <1>2, <1>3, <1>4, EndsWell

LEMMA SetManyMoves ==
  ASSUME PInv, NEW h \in Handlers, SetMany(h), Remember
  PROVE  Moves(h) /\ RInv(h)'
<1>1. /\ Serving(h, {"updates"}) /\ Bad(req[h].items) = {}
      /\ UNCHANGED <<config, req, logged, answer, lost, missed, writer, target, buffer, content>>
      /\ st' = Batch(req[h].items)
      /\ applied' = [applied EXCEPT ![h] = DOMAIN req[h].items]
      /\ event' = [event EXCEPT ![h] = TRUE]
      /\ Status(h, 200)
      /\ pc' = [pc EXCEPT ![h] = "log"]
  BY DEF SetMany, wires, Goto
<1>2. /\ pc[h] = "handle" /\ req[h].route = "updates" /\ Types
      /\ req[h].items \in Seq(Metric) /\ Passed(h) /\ Decodes(req[h])
      /\ resp[h] = NoResponse /\ buffer[h] = NoObject
  BY <1>1, ServingFacts
<1>3. lost[h] = {} /\ ~missed[h]
  BY <1>1, ServingFacts
<1>4. st' \in Contents /\ Keeps(st, st')
  BY <1>1, <1>2, BatchKeeps DEF Types
<1>5. DOMAIN req[h].items \in SUBSET Nat /\ applied'[h] = DOMAIN req[h].items
  BY <1>1, <1>2, LenProperties DEF Types
<1>6. /\ resp' = [resp EXCEPT ![h] = Reply(200, <<>>)]
      /\ seen' = [seen EXCEPT ![h] = 200]
      /\ Reply(200, <<>>) \in Replies
  BY <1>1, <1>2, StatusFacts DEF Statuses, Replies
<1>7. Moves(h)
  <2>1. /\ config' = config /\ req' = req /\ logged' = logged /\ answer' = answer
        /\ lost' = lost /\ missed' = missed /\ writer' = writer /\ buffer' = buffer
        /\ target' = target /\ content' = content
    BY <1>1
  <2>2. \E l \in Labels : pc' = [pc EXCEPT ![h] = l]
    BY <1>1 DEF Labels
  <2>3. \E e \in BOOLEAN : event' = [event EXCEPT ![h] = e]
    BY <1>1
  <2>4. \E r \in Replies : resp' = [resp EXCEPT ![h] = r]
    BY <1>6
  <2>5. \E k \in SUBSET Nat : applied' = [applied EXCEPT ![h] = k]
    BY <1>1, <1>5
  <2>6. /\ target' \in [Writers -> Handlers \cup {NoObject}]
        /\ content' \in [Buffers -> Handlers \cup {NoObject}]
    BY <1>2, <2>1 DEF Types
  <2>7. \A r \in Handlers \ {h} :
          /\ writer[r] # NoObject => target'[writer[r]] = target[writer[r]]
          /\ buffer[r] # NoObject => content'[buffer[r]] = content[buffer[r]]
    BY <2>1
  <2>8. 200 \in Statuses
    BY DEF Statuses
  <2>9. \E c \in Statuses : seen' = [seen EXCEPT ![h] = c]
    BY <1>6, <2>8
  <2> QED
    BY <1>4, <2>1, <2>2, <2>3, <2>4, <2>5, <2>6, <2>7, <2>9, Zenon DEF Moves
<1>8. /\ pc'[h] = "log" /\ resp'[h] = Reply(200, <<>>) /\ seen'[h] = 200 /\ buffer'[h] = NoObject
  BY <1>1, <1>2, <1>6 DEF Types
<1>9. event'[h] /\ lost'[h] = {} /\ ~missed'[h]
  BY <1>1, <1>2, <1>3 DEF Types
<1>10. Work(h)'
  <2>1. Passed(h)' /\ Stores(h)'
    BY <1>1, <1>2 DEF Passed, Checked, Stores
  <2>2. Everything(h)' /\ Tried(h)' = DOMAIN req[h].items
    BY <1>1, <1>5, <1>9 DEF Everything, Tried
  <2> QED
    BY <1>1, <1>8, <1>9, <2>1, <2>2 DEF Work
<1>11. resp'[h] = Reply(200, IF req[h].route \in {"ping", "updateURL", "updates"}
                             THEN <<>> ELSE <<Part("answer", h)>>)
  BY <1>2, <1>8
<1>12. /\ pc[h] \in {"handle", "readback", "batch", "write"} /\ pc'[h] = "log"
       /\ config' = config /\ req' = req /\ logged' = logged /\ writer' = writer /\ target' = target
       /\ buffer'[h] = NoObject /\ 200 \in {200, 500} /\ 200 # 500 /\ seen'[h] = 200
       /\ req[h].route \notin {"update", "value", "valueURL"}
  BY <1>1, <1>2, <1>8
<1> QED
  BY <1>7, <1>9, <1>10, <1>11, <1>12, Finishes

LEMMA BeginBatchMoves ==
  ASSUME PInv, NEW h \in Handlers, BeginBatch(h), Remember
  PROVE  Moves(h) /\ RInv(h)'
<1>1. /\ Fallible /\ Serving(h, {"updates"}) /\ Bad(req[h].items) = {}
      /\ UNCHANGED <<config, st, req, resp, seen, logged, answer, applied, lost, event, missed,
                     writer, target, buffer, content>>
      /\ pc' = [pc EXCEPT ![h] = "batch"]
  BY DEF BeginBatch, wires, Goto
<1>2. /\ pc[h] = "handle" /\ req[h].route = "updates" /\ Types /\ Shared(h) /\ Flow(h)
      /\ Passed(h) /\ Decodes(req[h])
  BY <1>1, ServingFacts
<1>3. applied[h] = {} /\ lost[h] = {} /\ ~event[h] /\ ~missed[h]
  BY <1>1, ServingFacts
<1>4. pc'[h] = "batch"
  BY <1>1, <1>2 DEF Types
<1>5. Moves(h)
  <2>1. \E l \in Labels : pc' = [pc EXCEPT ![h] = l]
    BY <1>1 DEF Labels
  <2>2. st' \in Contents /\ Keeps(st, st')
    BY <1>1, <1>2, StoreStays
  <2> QED
    BY <1>1, <1>2, <2>1, <2>2 DEF Moves, Types
<1>6. Shared(h)' /\ Flow(h)'
  BY <1>1, <1>2, <1>4 DEF Shared, Flow
<1>7. Work(h)'
  <2>1. Passed(h)' /\ Stores(h)' /\ Fallible'
    BY <1>1, <1>2 DEF Passed, Checked, Stores, Fallible
  <2>2. ~event'[h] /\ ~missed'[h] /\ lost'[h] = {} /\ Tried(h)' = {}
    BY <1>1, <1>3 DEF Tried
  <2> QED
    BY <1>1, <1>2, <1>4, <2>1, <2>2 DEF Work
<1>8. End(h)' /\ History(h)'
  BY <1>1, <1>2, <1>4 DEF End, History
<1> QED
  BY <1>5, <1>6, <1>7, <1>8 DEF RInv

LEMMA SetItemMoves ==
  ASSUME PInv, NEW h \in Handlers, SetItem(h), Remember
  PROVE  Moves(h) /\ RInv(h)'
<1>1. /\ pc[h] = "batch"
      /\ UNCHANGED <<config, pc, req, resp, seen, logged, answer, event, missed,
                     writer, target, buffer, content>>
  BY DEF SetItem, wires
<1>2. PICK i \in DOMAIN req[h].items :
        \E takes, fails \in BOOLEAN :
          /\ st' = IF takes THEN Put(st, req[h].items[i]) ELSE st
          /\ applied' = [applied EXCEPT ![h] = IF takes THEN @ \cup {i} ELSE @]
          /\ lost' = [lost EXCEPT ![h] = IF fails THEN @ \cup {i} ELSE @]
  BY DEF SetItem
<1>3. PICK takes \in BOOLEAN, fails \in BOOLEAN :
        /\ st' = IF takes THEN Put(st, req[h].items[i]) ELSE st
        /\ applied' = [applied EXCEPT ![h] = IF takes THEN @ \cup {i} ELSE @]
        /\ lost' = [lost EXCEPT ![h] = IF fails THEN @ \cup {i} ELSE @]
  BY <1>2
<1>4. /\ Types /\ Shared(h) /\ Flow(h) /\ Work(h) /\ Passed(h) /\ Stores(h)
      /\ req[h].route = "updates" /\ Fallible /\ req[h].items \in Seq(Metric)
      /\ ~event[h] /\ ~missed[h] /\ Tried(h) \subseteq DOMAIN req[h].items
  BY <1>1, BatchFacts
<1>5. i \in Nat /\ req[h].items[i] \in Metric
  BY <1>4, LenProperties, ElementOfSeq
<1>6. st' \in Contents /\ Keeps(st, st')
  <2>1. CASE takes
    BY <1>3, <1>4, <1>5, <2>1, PutType, PutKeeps DEF Types
  <2>2. CASE ~takes
    BY <1>3, <1>4, <2>2, StoreStays
  <2> QED
    BY <2>1, <2>2
<1>7. /\ applied[h] \in SUBSET Nat /\ lost[h] \in SUBSET Nat
      /\ applied'[h] \in SUBSET Nat /\ lost'[h] \in SUBSET Nat
      /\ applied'[h] \subseteq applied[h] \cup {i} /\ lost'[h] \subseteq lost[h] \cup {i}
  BY <1>3, <1>4, <1>5 DEF Types
<1>8. /\ \E k \in SUBSET Nat : applied' = [applied EXCEPT ![h] = k]
      /\ \E k \in SUBSET Nat : lost' = [lost EXCEPT ![h] = k]
  <2>1. applied' = [applied EXCEPT ![h] = applied'[h]]
    BY <1>3, <1>4 DEF Types
  <2>2. lost' = [lost EXCEPT ![h] = lost'[h]]
    BY <1>3, <1>4 DEF Types
  <2> QED
    BY <1>7, <2>1, <2>2
<1>9. Moves(h)
  <2>1. \E l \in Labels : pc' = [pc EXCEPT ![h] = l]
    BY <1>1, <1>4 DEF Types
  <2>2. /\ config' = config /\ req' = req /\ resp' = resp /\ seen' = seen /\ logged' = logged
        /\ answer' = answer /\ event' = event /\ missed' = missed /\ writer' = writer
        /\ buffer' = buffer /\ target' = target /\ content' = content
    BY <1>1
  <2>3. /\ target' \in [Writers -> Handlers \cup {NoObject}]
        /\ content' \in [Buffers -> Handlers \cup {NoObject}]
    BY <1>4, <2>2 DEF Types
  <2>4. \A r \in Handlers \ {h} :
          /\ writer[r] # NoObject => target'[writer[r]] = target[writer[r]]
          /\ buffer[r] # NoObject => content'[buffer[r]] = content[buffer[r]]
    BY <2>2
  <2> QED
    BY <1>6, <1>8, <2>1, <2>2, <2>3, <2>4, Zenon DEF Moves
<1>10. pc'[h] = "batch" /\ req' = req
  BY <1>1
<1>11. Shared(h)' /\ Flow(h)'
  BY <1>1, <1>4 DEF Shared, Flow
<1>12. Work(h)'
  <2>1. Passed(h)' /\ Stores(h)' /\ Fallible'
    BY <1>1, <1>4 DEF Passed, Checked, Stores, Fallible
  <2>2. ~event'[h] /\ ~missed'[h] /\ Tried(h)' \subseteq DOMAIN req[h].items
    BY <1>1, <1>2, <1>4, <1>7 DEF Tried
  <2> QED
    BY <1>4, <1>10, <2>1, <2>2 DEF Work
<1>13. End(h)' /\ History(h)'
  BY <1>4, <1>10 DEF End, History
<1> QED
  BY <1>9, <1>11, <1>12, <1>13 DEF RInv

LEMMA CommitBatchMoves ==
  ASSUME PInv, NEW h \in Handlers, CommitBatch(h), Remember
  PROVE  Moves(h) /\ RInv(h)'
<1>1. /\ pc[h] = "batch" /\ Tried(h) = DOMAIN req[h].items
      /\ UNCHANGED <<config, st, req, logged, answer, applied, lost, missed,
                     writer, target, buffer, content>>
      /\ event' = [event EXCEPT ![h] = TRUE]
      /\ Status(h, 200)
      /\ pc' = [pc EXCEPT ![h] = "log"]
  BY DEF CommitBatch, wires, Goto
<1>2. /\ Types /\ Passed(h) /\ Stores(h) /\ req[h].route = "updates" /\ Fallible
      /\ resp[h] = NoResponse /\ buffer[h] = NoObject /\ ~missed[h]
  BY <1>1, BatchFacts
<1>3. /\ resp' = [resp EXCEPT ![h] = Reply(200, <<>>)]
      /\ seen' = [seen EXCEPT ![h] = 200]
      /\ Reply(200, <<>>) \in Replies
  BY <1>1, <1>2, StatusFacts DEF Statuses, Replies
<1>4. Moves(h)
  <2>1. /\ config' = config /\ req' = req /\ logged' = logged /\ answer' = answer
        /\ applied' = applied /\ lost' = lost /\ missed' = missed /\ writer' = writer
        /\ buffer' = buffer /\ target' = target /\ content' = content
    BY <1>1
  <2>2. \E l \in Labels : pc' = [pc EXCEPT ![h] = l]
    BY <1>1 DEF Labels
  <2>3. \E e \in BOOLEAN : event' = [event EXCEPT ![h] = e]
    BY <1>1
  <2>4. \E r \in Replies : resp' = [resp EXCEPT ![h] = r]
    BY <1>3
  <2>5. st' \in Contents /\ Keeps(st, st')
    BY <1>1, <1>2, StoreStays
  <2>6. /\ target' \in [Writers -> Handlers \cup {NoObject}]
        /\ content' \in [Buffers -> Handlers \cup {NoObject}]
    BY <1>2, <2>1 DEF Types
  <2>7. \A r \in Handlers \ {h} :
          /\ writer[r] # NoObject => target'[writer[r]] = target[writer[r]]
          /\ buffer[r] # NoObject => content'[buffer[r]] = content[buffer[r]]
    BY <2>1
  <2>8. 200 \in Statuses
    BY DEF Statuses
  <2>9. \E c \in Statuses : seen' = [seen EXCEPT ![h] = c]
    BY <1>3, <2>8
  <2> QED
    BY <2>1, <2>2, <2>3, <2>4, <2>5, <2>6, <2>7, <2>9, Zenon DEF Moves
<1>5. /\ pc'[h] = "log" /\ resp'[h] = Reply(200, <<>>) /\ seen'[h] = 200 /\ buffer'[h] = NoObject
      /\ event'[h] /\ ~missed'[h]
  BY <1>1, <1>2, <1>3 DEF Types
<1>6. Work(h)'
  <2>1. Passed(h)' /\ Stores(h)' /\ Fallible'
    BY <1>1, <1>2 DEF Passed, Checked, Stores, Fallible
  <2>2. Everything(h)' /\ Tried(h)' = DOMAIN req[h].items
    BY <1>1, <1>2, <2>1 DEF Everything, Tried
  <2> QED
    BY <1>1, <1>2, <1>5, <2>1, <2>2 DEF Work
<1>7. resp'[h] = Reply(200, IF req[h].route \in {"ping", "updateURL", "updates"}
                            THEN <<>> ELSE <<Part("answer", h)>>)
  BY <1>2, <1>5
<1>8. /\ pc[h] \in {"handle", "readback", "batch", "write"} /\ pc'[h] = "log"
      /\ config' = config /\ req' = req /\ logged' = logged /\ writer' = writer /\ target' = target
      /\ buffer'[h] = NoObject /\ 200 \in {200, 500} /\ 200 # 500 /\ seen'[h] = 200
      /\ req[h].route \notin {"update", "value", "valueURL"}
  BY <1>1, <1>2, <1>5
<1> QED
  BY <1>4, <1>5, <1>6, <1>7, <1>8, Finishes

LEMMA HomeMoves ==
  ASSUME PInv, NEW h \in Handlers, Home(h), Remember
  PROVE  Moves(h) /\ RInv(h)'
<1>1. /\ Serving(h, {"home"})
      /\ UNCHANGED <<config, st, req, logged, answer, applied, lost, event, missed,
                     writer, target, buffer, content>>
      /\ Answered(h, 200, Part("answer", h))
      /\ pc' = [pc EXCEPT ![h] = "log"]
  BY DEF Home, wires, Goto
<1>2. /\ pc[h] = "handle" /\ req[h].route = "home" /\ Types /\ Shared(h)
      /\ resp[h] = NoResponse /\ buffer[h] = NoObject /\ applied[h] = {}
  BY <1>1, ServingFacts
<1>3. ~event[h] /\ lost[h] = {} /\ ~missed[h]
  BY <1>1, ServingFacts
<1>4. Part("answer", h) \in Parts /\ 200 \in Statuses \ {0}
  BY DEF Part, Parts, Statuses
<1>5. /\ resp' = [resp EXCEPT ![h] = Reply(200, <<Part("answer", h)>>)]
      /\ seen' = [seen EXCEPT ![h] = 200]
      /\ Reply(200, <<Part("answer", h)>>) \in Replies
  BY <1>1, <1>2, <1>4, AnsweredFacts DEF Replies
<1>6. Moves(h)
  BY <1>1, <1>2, <1>4, <1>5, StoreStays DEF Moves, Types, Labels
<1>7. /\ pc'[h] = "log" /\ resp'[h] = Reply(200, <<Part("answer", h)>>) /\ seen'[h] = 200
      /\ buffer'[h] = NoObject /\ applied'[h] = {}
  BY <1>1, <1>2, <1>5 DEF Types
<1>8. ~event'[h] /\ lost'[h] = {} /\ ~missed'[h]
  BY <1>1, <1>3
<1>9. Work(h)'
  BY <1>7, <1>8 DEF Work, Tried, Fallible
<1> QED
  BY <1>1, <1>2, <1>6, <1>7, <1>8, <1>9, Finishes

LEMMA PingMoves ==
  ASSUME PInv, NEW h \in Handlers, Ping(h), Remember
  PROVE  Moves(h) /\ RInv(h)'
<1>1. /\ Serving(h, {"ping"}) /\ Fallible
      /\ UNCHANGED <<config, st, req, logged, answer, applied, lost, event,
                     writer, target, buffer, content>>
      /\ pc' = [pc EXCEPT ![h] = "log"]
  BY DEF Ping, wires, Goto
<1>2. /\ pc[h] = "handle" /\ req[h].route = "ping" /\ Types /\ Shared(h)
      /\ resp[h] = NoResponse /\ buffer[h] = NoObject /\ applied[h] = {} /\ lost[h] = {}
  BY <1>1, ServingFacts
<1>3. ~event[h] /\ ~missed[h]
  BY <1>1, ServingFacts
<1>4. PICK code \in {200, 500} :
        /\ Status(h, code)
        /\ missed' = IF code = 500 THEN [missed EXCEPT ![h] = TRUE] ELSE missed
  <2>1. CASE Status(h, 200) /\ UNCHANGED missed
    BY <2>1
  <2>2. CASE Status(h, 500) /\ missed' = [missed EXCEPT ![h] = TRUE]
    BY <2>2
  <2> QED
    BY <2>1, <2>2 DEF Ping
<1>5. /\ resp' = [resp EXCEPT ![h] = Reply(code, <<>>)]
      /\ seen' = [seen EXCEPT ![h] = code]
      /\ Reply(code, <<>>) \in Replies
      /\ code \in Statuses
  BY <1>2, <1>4, StatusFacts DEF Statuses, Replies
<1>6. Moves(h)
  <2>1. missed' = missed \/ \E e \in BOOLEAN : missed' = [missed EXCEPT ![h] = e]
    BY <1>4
  <2> QED
    BY <1>1, <1>2, <1>5, <2>1, StoreStays, ZenonT(40) DEF Moves, Types, Labels
<1>7. /\ pc'[h] = "log" /\ resp'[h] = Reply(code, <<>>) /\ seen'[h] = code
      /\ buffer'[h] = NoObject /\ applied'[h] = {}
  BY <1>1, <1>2, <1>5 DEF Types
<1>8. ~event'[h] /\ (code = 500 => missed'[h]) /\ lost'[h] = {} /\ Tried(h)' = {} /\ Fallible'
  BY <1>1, <1>2, <1>3, <1>4, <1>7 DEF Types, Tried, Fallible
<1>9. Work(h)'
  BY <1>7, <1>8 DEF Work
<1>10. resp'[h] = Reply(code, IF req[h].route \in {"ping", "updateURL", "updates"}
                              THEN <<>> ELSE <<Part("answer", h)>>)
  BY <1>2, <1>7
<1>11. code = 500 => req[h].route = "ping" /\ missed'[h] /\ ~event'[h] /\ applied'[h] = {}
  BY <1>1, <1>2, <1>7, <1>8
<1>12. /\ pc[h] \in {"handle", "readback", "batch", "write"} /\ pc'[h] = "log"
       /\ config' = config /\ req' = req /\ logged' = logged /\ writer' = writer /\ target' = target
       /\ buffer'[h] = NoObject /\ code \in {200, 500} /\ seen'[h] = code
       /\ req[h].route \notin {"update", "updateURL", "updates", "value", "valueURL"}
  BY <1>1, <1>2, <1>7
<1> QED
  BY <1>6, <1>9, <1>10, <1>11, <1>12, Finishes

LEMMA SetOneMoves ==
  ASSUME PInv, NEW h \in Handlers, SetOne(h), Remember
  PROVE  Moves(h) /\ RInv(h)'
<1>1. /\ Serving(h, {"update", "updateURL"}) /\ Bad(req[h].items) = {}
      /\ UNCHANGED <<config, req, resp, seen, logged, answer, lost, event, missed,
                     writer, target, buffer, content>>
      /\ st' = Put(st, Item(h))
      /\ applied' = [applied EXCEPT ![h] = {1}]
      /\ pc' = [pc EXCEPT ![h] = "readback"]
  BY DEF SetOne, wires, Goto
<1>2. /\ pc[h] = "handle" /\ req[h].route \in {"update", "updateURL"} /\ Decodes(req[h])
      /\ Types /\ Shared(h) /\ Flow(h) /\ Passed(h)
      /\ Item(h) \in Metric /\ DOMAIN req[h].items = {1} /\ Item(h) = req[h].items[1]
  BY <1>1, ServingFacts
<1>3. ~event[h] /\ lost[h] = {} /\ ~missed[h]
  BY <1>1, ServingFacts
<1>4. st' \in Contents /\ Keeps(st, st')
  BY <1>1, <1>2, PutType, PutKeeps DEF Types
<1>5. Moves(h)
  <2>1. {1} \in SUBSET Nat /\ "readback" \in Labels
    BY DEF Labels
  <2> QED
    BY <1>1, <1>2, <1>4, <2>1 DEF Moves, Types
<1>6. pc'[h] = "readback" /\ applied'[h] = {1}
  BY <1>1, <1>2 DEF Types
<1>7. ~event'[h] /\ lost'[h] = {} /\ ~missed'[h]
  BY <1>1, <1>3
<1>8. Shared(h)' /\ Flow(h)'
  BY <1>1, <1>2, <1>6 DEF Shared, Flow
<1>9. Work(h)'
  <2>1. Passed(h)' /\ Stores(h)'
    BY <1>1, <1>2 DEF Passed, Checked, Stores
  <2>2. Tried(h)' = {1} /\ req' = req
    BY <1>1, <1>6, <1>7 DEF Tried
  <2> QED
    BY <1>2, <1>6, <1>7, <2>1, <2>2 DEF Work
<1>10. End(h)'
  BY <1>6 DEF End
<1>11. History(h)'
  <2>1. Stored(Item(h))' # Nil
    <3>1. Verdict(Item(h)) = "nil"
      BY <1>1, <1>2 DEF Bad
    <3>2. Item(h)' = Item(h)
      BY <1>1 DEF Item
    <3> DEFINE m == Item(h)
    <3>3. IF m.mtype = "gauge" THEN st'.gauges[m.id] # Nil ELSE st'.counters[m.id] # Nil
      BY <1>1, <1>2, <3>1, PutKeeps DEF Types
    <3> QED
      BY <3>2, <3>3 DEF Stored
  <2>2. req[h].route \in {"update", "value", "valueURL"} /\ req[h].items # Nil => Stored(Item(h))' \in past'[h]
    BY <1>6, PastFacts
  <2> QED
    BY <1>1, <1>6, <2>1, <2>2 DEF History
<1> QED
  BY <1>5, <1>8, <1>9, <1>10, <1>11 DEF RInv

LEMMA ReadBackMoves ==
  ASSUME PInv, NEW h \in Handlers, ReadBack(h), Remember
  PROVE  Moves(h) /\ RInv(h)'
<1>1. /\ pc[h] = "readback"
      /\ event' = [event EXCEPT ![h] = TRUE]
      /\ UNCHANGED <<config, st, req, logged, applied, lost, writer, target, buffer, content>>
  BY DEF ReadBack, wires
<1>2. /\ Types /\ Shared(h) /\ Flow(h) /\ Work(h) /\ History(h)
      /\ req[h].route \in {"update", "updateURL"} /\ applied[h] = {1}
      /\ Passed(h) /\ Stores(h) /\ req[h] \in Requests
      /\ resp[h] = NoResponse /\ seen[h] = 0 /\ logged[h] = Nil /\ buffer[h] = NoObject
      /\ lost[h] = {}
  BY <1>1 DEF PInv, RInv, Flow, Work, Tried
<1>3. /\ Item(h) \in Metric /\ DOMAIN req[h].items = {1} /\ req[h].items # Nil
      /\ Item(h)' = Item(h)
  BY <1>1, <1>2, RequestFacts DEF Stores, Item
<1>4. Stored(Item(h)) \in Values /\ Sent(Item(h)) \in Values
  BY <1>2, <1>3, StoredFacts DEF Types
<1>5. PICK fails \in BOOLEAN :
        /\ fails => Fallible
        /\ missed' = [missed EXCEPT ![h] = fails]
        /\ answer' = [answer EXCEPT ![h] = IF fails \/ Stored(Item(h)) = Nil
                                           THEN Sent(Item(h)) ELSE Stored(Item(h))]
  BY DEF ReadBack
<1>6. /\ event'[h] /\ (missed'[h] <=> fails)
  BY <1>1, <1>2, <1>5 DEF Types
<1>7. /\ answer'[h] = IF fails \/ Stored(Item(h)) = Nil THEN Sent(Item(h)) ELSE Stored(Item(h))
      /\ \E v \in Values : answer' = [answer EXCEPT ![h] = v]
  BY <1>2, <1>4, <1>5 DEF Types
<1>8. st' \in Contents /\ Keeps(st, st')
  BY <1>1, <1>2, StoreStays
<1>9. /\ Passed(h)' /\ Stores(h)' /\ Everything(h)' /\ (missed'[h] => Fallible')
      /\ Tried(h)' = {1} /\ lost'[h] = {} /\ req'[h] = req[h] /\ applied'[h] = {1}
  <2>1. applied'[h] = {1} /\ lost'[h] = {} /\ req'[h] = req[h]
    BY <1>1, <1>2
  <2>2. Tried(h)' = {1}
    BY <2>1 DEF Tried
  <2>3. Everything(h)'
    BY <1>3, <2>1, <2>2 DEF Everything
  <2>4. missed'[h] => Fallible'
    BY <1>1, <1>5, <1>6 DEF Fallible
  <2> QED
    BY <1>1, <1>2, <2>1, <2>2, <2>3, <2>4 DEF Passed, Checked, Stores
<1>10. CASE req[h].route = "update"
  <2>1. pc' = [pc EXCEPT ![h] = "encode"] /\ resp' = resp /\ seen' = seen
    BY <1>10 DEF ReadBack, Goto
  <2>2. Moves(h)
    BY <1>1, <1>2, <1>5, <1>7, <1>8, <2>1 DEF Moves, Types, Labels
  <2>3. pc'[h] = "encode"
    BY <1>2, <2>1 DEF Types
  <2>4. Shared(h)' /\ Flow(h)'
    BY <1>1, <1>2, <2>1, <2>3 DEF Shared, Flow
  <2>5. Work(h)' /\ End(h)'
    BY <1>3, <1>6, <1>9, <1>10, <2>3 DEF Work, End
  <2>6. Real(h)'
    <3>1. Stored(Item(h)) \in past[h] /\ Stored(Item(h)) # Nil
      BY <1>1, <1>3, <1>10, <1>2 DEF History
    <3>2. past'[h] = past[h]
      BY <1>3, <1>10, <2>3, PastFacts
    <3>3. fails => answer'[h] = Sent(Item(h)) /\ Sent(Item(h))' = Sent(Item(h))
      BY <1>3, <1>7 DEF Sent
    <3>4. ~fails => answer'[h] \in past'[h]
      BY <1>7, <3>1, <3>2
    <3> QED
      BY <1>6, <3>3, <3>4 DEF Real
  <2>7. History(h)'
    BY <2>3, <2>6 DEF History
  <2> QED
    BY <2>2, <2>4, <2>5, <2>7 DEF RInv
<1>11. CASE req[h].route = "updateURL"
  <2>1. pc' = [pc EXCEPT ![h] = "log"] /\ Status(h, 200)
    BY <1>11 DEF ReadBack, Goto
  <2>2. /\ resp' = [resp EXCEPT ![h] = Reply(200, <<>>)]
        /\ seen' = [seen EXCEPT ![h] = 200]
        /\ Reply(200, <<>>) \in Replies /\ 200 \in Statuses
    BY <1>2, <2>1, StatusFacts DEF Statuses, Replies
  <2>3. Moves(h)
    BY <1>1, <1>2, <1>5, <1>7, <1>8, <2>1, <2>2 DEF Moves, Types, Labels
  <2>4. pc'[h] = "log" /\ seen'[h] = 200 /\ buffer'[h] = NoObject
    BY <1>1, <1>2, <2>1, <2>2 DEF Types
  <2>5. resp'[h] = Reply(200, IF req[h].route \in {"ping", "updateURL", "updates"}
                              THEN <<>> ELSE <<Part("answer", h)>>)
    BY <1>2, <1>11, <2>2 DEF Types
  <2>6. Work(h)'
    BY <1>3, <1>6, <1>9, <2>4 DEF Work
  <2>7. PICK code \in {200, 500} : code = 200
    OBVIOUS
  <2>8. /\ resp'[h] = Reply(code, IF req[h].route \in {"ping", "updateURL", "updates"}
                                  THEN <<>> ELSE <<Part("answer", h)>>)
        /\ seen'[h] = code /\ code # 500
    BY <2>4, <2>5, <2>7
  <2>9. event'[h] /\ req[h].route \notin {"update", "value", "valueURL"}
    BY <1>6, <1>11
  <2> QED
    BY <1>1, <2>3, <2>4, <2>6, <2>8, <2>9, Finishes
<1> QED
  BY <1>2, <1>10, <1>11

LEMMA GetMoves ==
  ASSUME PInv, NEW h \in Handlers, Get(h), Remember
  PROVE  Moves(h) /\ RInv(h)'
<1>1. /\ Serving(h, {"value", "valueURL"})
      /\ answer' = [answer EXCEPT ![h] = Stored(Item(h))]
      /\ UNCHANGED <<config, st, req, seen, logged, applied, lost, event, missed,
                     writer, target, buffer, content>>
  BY DEF Get, wires
<1>2. /\ pc[h] = "handle" /\ req[h].route \in {"value", "valueURL"} /\ Decodes(req[h])
      /\ Types /\ Shared(h) /\ Flow(h) /\ Passed(h) /\ Sink(h) = h
      /\ resp[h] = NoResponse /\ seen[h] = 0 /\ buffer[h] = NoObject /\ applied[h] = {}
      /\ Stored(Item(h)) \in Values /\ req[h].items # Nil /\ Stored(Item(h)) \in past[h]
  BY <1>1, ServingFacts
<1>3. ~event[h] /\ lost[h] = {} /\ ~missed[h]
  BY <1>1, ServingFacts
<1>4. st' \in Contents /\ Keeps(st, st')
  BY <1>1, <1>2, StoreStays
<1>5. answer'[h] = Stored(Item(h)) /\ \E v \in Values : answer' = [answer EXCEPT ![h] = v]
  BY <1>1, <1>2 DEF Types
<1>6. pc'[h] \in {"encode", "log"} => Real(h)'
  <2>1. pc'[h] \in {"encode", "log"} => past'[h] = past[h]
    BY <1>2, PastFacts
  <2> QED
    BY <1>2, <1>5, <2>1 DEF Real
<1>7. Passed(h)' /\ ~event'[h] /\ applied'[h] = {} /\ lost'[h] = {} /\ ~missed'[h]
  BY <1>1, <1>2, <1>3 DEF Passed, Checked
<1>8. CASE req[h].route = "value"
  <2>1. pc' = [pc EXCEPT ![h] = "encode"] /\ resp' = resp
    BY <1>8 DEF Get, Goto
  <2>2. Moves(h)
    BY <1>1, <1>2, <1>4, <1>5, <2>1 DEF Moves, Types, Labels
  <2>3. pc'[h] = "encode"
    BY <1>2, <2>1 DEF Types
  <2>4. Shared(h)' /\ Flow(h)'
    BY <1>1, <1>2, <2>1, <2>3 DEF Shared, Flow
  <2>5. Work(h)' /\ End(h)'
    BY <1>1, <1>2, <1>7, <1>8, <2>3 DEF Work, End, Tried, Fallible
  <2>6. History(h)'
    BY <1>6, <2>3 DEF History
  <2> QED
    BY <2>2, <2>4, <2>5, <2>6 DEF RInv
<1>9. CASE req[h].route = "valueURL"
  <2>1. /\ pc' = [pc EXCEPT ![h] = "log"]
        /\ resp' = [resp EXCEPT ![h] = WithPart(@, Part("answer", h))]
    BY <1>2, <1>9 DEF Get, Goto
  <2>2. WithPart(resp[h], Part("answer", h)) = Reply(200, <<Part("answer", h)>>)
    <3>1. WithStatus(resp[h], 200) = Reply(200, <<>>)
      BY <1>2 DEF WithStatus, NoResponse, Reply
    <3>2. Append(<<>>, Part("answer", h)) = <<Part("answer", h)>>
      OBVIOUS
    <3> QED
      BY <3>1, <3>2 DEF WithPart, Reply
  <2>3. Reply(200, <<Part("answer", h)>>) \in Replies
    <3>1. Part("answer", h) \in Parts /\ 200 \in Statuses
      BY DEF Part, Parts, Statuses
    <3> QED
      BY <3>1 DEF Replies, Reply
  <2>4. resp' = [resp EXCEPT ![h] = Reply(200, <<Part("answer", h)>>)]
    BY <1>2, <2>1, <2>2 DEF Types
  <2>5. Moves(h)
    BY <1>1, <1>2, <1>4, <1>5, <2>1, <2>3, <2>4 DEF Moves, Types, Labels
  <2>6. pc'[h] = "log" /\ resp'[h] = Reply(200, <<Part("answer", h)>>) /\ buffer'[h] = NoObject
    BY <1>1, <1>2, <2>1, <2>4 DEF Types
  <2>7. PICK code \in {200, 500} : code = 200
    OBVIOUS
  <2>8. /\ resp'[h] = Reply(code, IF req[h].route \in {"ping", "updateURL", "updates"}
                                  THEN <<>> ELSE <<Part("answer", h)>>)
        /\ seen'[h] = 0 /\ code # 500
    BY <1>1, <1>2, <1>9, <2>6, <2>7
  <2>9. Work(h)'
    BY <1>7, <2>6 DEF Work, Tried, Fallible
  <2> QED
    BY <1>1, <1>2, <1>6, <1>9, <2>5, <2>6, <2>7, <2>8, <2>9, Finishes
<1> QED
  BY <1>2, <1>8, <1>9

LEMMA PingPanicsMoves ==
  ASSUME PInv, NEW h \in Handlers, PingPanics(h), Remember
  PROVE  Moves(h) /\ RInv(h)'
<1>1. /\ Serving(h, {"ping"}) /\ ~Fallible
      /\ UNCHANGED <<config, st, req, seen, logged, answer, applied, lost, event, missed,
                     target, buffer, content>>
      /\ resp' = [resp EXCEPT ![h] = NoResponse]
      /\ writer' = [writer EXCEPT ![h] = NoObject]
      /\ pc' = [pc EXCEPT ![h] = "done"]
  BY DEF PingPanics, Goto
<1>2. /\ pc[h] = "handle" /\ req[h].route = "ping" /\ Types /\ Shared(h) /\ Flow(h)
      /\ logged[h] = Nil /\ buffer[h] = NoObject /\ applied[h] = {}
      /\ req[h] \in Requests
  BY <1>1, ServingFacts
<1>3. ~event[h] /\ lost[h] = {} /\ ~missed[h]
  BY <1>1, ServingFacts
<1>4. NoResponse \in Replies
  BY DEF NoResponse, Replies, Statuses
<1>5. Moves(h)
  BY <1>1, <1>2, <1>4, StoreStays DEF Moves, Types, Labels
<1>6. pc'[h] = "done" /\ resp'[h] = NoResponse /\ writer'[h] = NoObject
  BY <1>1, <1>2 DEF Types
<1>7. Shared(h)' /\ Flow(h)'
  BY <1>1, <1>2, <1>6 DEF Shared, Flow
<1>8. ~event'[h] /\ applied'[h] = {} /\ lost'[h] = {} /\ ~missed'[h]
  BY <1>1, <1>2, <1>3
<1>9. Work(h)'
  BY <1>6, <1>8 DEF Work, Tried, Fallible
<1>10. End(h)'
  <2>1. req'[h].coding # "noGzip"
    BY <1>1, <1>2 DEF Flow
  <2>2. Cut(h)' /\ ~Fallible' /\ req'[h].route = "ping" /\ logged'[h] = Nil
    BY <1>1, <1>2, <1>6 DEF Cut, NoResponse, Fallible
  <2> QED
    BY <1>6, <1>8, <2>1, <2>2 DEF End
<1>11. History(h)'
  BY <1>1, <1>2 DEF History
<1> QED
  BY <1>5, <1>7, <1>9, <1>10, <1>11 DEF RInv

LEMMA EncodeMoves ==
  ASSUME PInv, NEW h \in Handlers, Encode(h), Remember
  PROVE  Moves(h) /\ RInv(h)'
<1>1. /\ pc[h] = "encode" /\ answer[h] \notin Unencodable
      /\ UNCHANGED <<config, st, req, resp, seen, logged, answer, applied, lost, event, missed,
                     writer, target>>
      /\ pc' = [pc EXCEPT ![h] = "write"]
  BY DEF Encode, Goto
<1>2. PICK b \in FreeBuffers : /\ buffer' = [buffer EXCEPT ![h] = b]
                               /\ content' = [content EXCEPT ![b] = h]
  BY DEF Encode
<1>3. Types /\ Shared(h) /\ Flow(h) /\ Work(h) /\ History(h)
  BY DEF PInv, RInv
<1>4. b \in Buffers /\ \A r \in Handlers : buffer[r] # b
  BY <1>2 DEF FreeBuffers
<1>5. /\ pc'[h] = "write" /\ buffer'[h] = b /\ content'[b] = h
      /\ content' \in [Buffers -> Handlers \cup {NoObject}]
      /\ \A r \in Handlers : buffer[r] # NoObject => content'[buffer[r]] = content[buffer[r]]
  BY <1>1, <1>2, <1>3, <1>4 DEF Types
<1>6. Moves(h)
  <2>1. \E x \in Buffers \cup {NoObject} : buffer' = [buffer EXCEPT ![h] = x]
    BY <1>2, <1>4
  <2> QED
    BY <1>1, <1>3, <1>5, <2>1, StoreStays DEF Moves, Types, Labels
<1>7. Shared(h)' /\ Flow(h)'
  BY <1>1, <1>3, <1>4, <1>5 DEF Shared, Flow
<1>8. Work(h)' /\ End(h)'
  <2>1. Passed(h)' /\ (Stores(h)' <=> Stores(h)) /\ (Everything(h)' <=> Everything(h))
    BY <1>1, <1>3 DEF Work, Passed, Checked, Stores, Everything, Tried, Fallible
  <2> QED
    BY <1>1, <1>3, <1>5, <2>1 DEF Work, End, Tried, Fallible
<1>9. History(h)'
  <2> SUFFICES ASSUME req[h].route \in {"update", "value", "valueURL"}, req[h].items # Nil
               PROVE  Real(h)'
    BY <1>1, <1>5 DEF History
  <2>1. Real(h)
    BY <1>1, <1>3 DEF History
  <2>2. past'[h] = past[h]
    BY <1>5, PastFacts
  <2> QED
    BY <1>1, <2>1, <2>2 DEF Real, Sent, Item
<1> QED
  BY <1>6, <1>7, <1>8, <1>9 DEF RInv

LEMMA WriteMoves ==
  ASSUME PInv, NEW h \in Handlers, Write(h), Remember
  PROVE  Moves(h) /\ RInv(h)'
<1>1. /\ pc[h] = "write"
      /\ UNCHANGED <<config, st, req, logged, answer, applied, lost, event, missed,
                     writer, target, content>>
      /\ Answered(h, 200, Part("answer", content[buffer[h]]))
      /\ buffer' = [buffer EXCEPT ![h] = NoObject]
      /\ pc' = [pc EXCEPT ![h] = "log"]
  BY DEF Write, Goto
<1>2. /\ Types /\ Shared(h) /\ Flow(h) /\ Work(h) /\ History(h)
      /\ resp[h] = NoResponse /\ buffer[h] \in Buffers
      /\ req[h].route \in {"update", "value"}
  BY <1>1 DEF PInv, RInv, Flow, Work
<1>3. content[buffer[h]] = h
  BY <1>2, PipelineAssumption DEF Shared
<1>4. Part("answer", h) \in Parts /\ 200 \in Statuses \ {0}
  BY DEF Part, Parts, Statuses
<1>5. /\ resp' = [resp EXCEPT ![h] = Reply(200, <<Part("answer", h)>>)]
      /\ seen' = [seen EXCEPT ![h] = 200]
      /\ Reply(200, <<Part("answer", h)>>) \in Replies
  BY <1>1, <1>2, <1>3, <1>4, AnsweredFacts DEF Replies
<1>6. Moves(h)
  BY <1>1, <1>2, <1>4, <1>5, StoreStays DEF Moves, Types, Labels
<1>7. /\ pc'[h] = "log" /\ resp'[h] = Reply(200, <<Part("answer", h)>>) /\ seen'[h] = 200
      /\ buffer'[h] = NoObject
  BY <1>1, <1>2, <1>5 DEF Types
<1>8. Work(h)'
  <2>1. Passed(h)' /\ (Stores(h)' <=> Stores(h)) /\ (Everything(h)' <=> Everything(h))
    BY <1>1, <1>2 DEF Work, Passed, Checked, Stores, Everything, Tried, Fallible
  <2> QED
    BY <1>1, <1>2, <1>7, <2>1 DEF Work, Tried, Fallible
<1>9. req[h].route = "update" => event'[h]
  BY <1>1, <1>2 DEF Work
<1>10. Real(h)' /\ req[h].items # Nil
  <2>1. req[h].items # Nil
    BY <1>1, <1>2, RequestFacts DEF Flow, Work, Stores
  <2>2. Real(h)
    BY <1>1, <1>2, <2>1 DEF History
  <2>3. past'[h] = past[h]
    BY <1>2, <1>7, <2>1, PastFacts
  <2> QED
    BY <1>1, <2>1, <2>2, <2>3 DEF Real, Sent, Item
<1>11. PICK code \in {200, 500} : code = 200
  OBVIOUS
<1>12. /\ resp'[h] = Reply(code, IF req[h].route \in {"ping", "updateURL", "updates"}
                                 THEN <<>> ELSE <<Part("answer", h)>>)
       /\ seen'[h] = code /\ code # 500
  BY <1>2, <1>7, <1>11
<1> QED
  BY <1>1, <1>2, <1>6, <1>7, <1>8, <1>9, <1>10, <1>12, Finishes

LEMMA ArriveMoves ==
  ASSUME PInv, NEW h \in Handlers, NEW r \in Requests, Arrive(h, r), Remember
  PROVE  Moves(h) /\ RInv(h)'
<1>1. /\ pc[h] = "idle"
      /\ UNCHANGED <<config, st, resp, seen, logged, answer, applied, lost, event, missed,
                     writer, target, buffer, content>>
      /\ req' = [req EXCEPT ![h] = r]
      /\ pc' = [pc EXCEPT ![h] = "gunzip"]
  BY DEF Arrive, wires, Goto
<1>2. Types /\ Shared(h) /\ Flow(h) /\ Work(h)
  BY DEF PInv, RInv
<1>3. Moves(h)
  BY <1>1, <1>2, StoreStays DEF Moves, Types, Labels
<1>4. pc'[h] = "gunzip" /\ req'[h] = r
  BY <1>1, <1>2 DEF Types
<1>5. applied'[h] = {} /\ ~event'[h] /\ lost'[h] = {} /\ ~missed'[h]
  BY <1>1, <1>2 DEF Flow
<1>6. Shared(h)' /\ Flow(h)'
  BY <1>1, <1>2, <1>4 DEF Shared, Flow
<1>7. Work(h)' /\ End(h)' /\ History(h)'
  BY <1>4, <1>5 DEF Work, End, History, Tried, Fallible
<1> QED
  BY <1>3, <1>6, <1>7 DEF RInv

LEMMA NotGzipMoves ==
  ASSUME PInv, NEW h \in Handlers, NotGzip(h), Remember
  PROVE  Moves(h) /\ RInv(h)'
<1>1. /\ pc[h] = "gunzip" /\ req[h].coding = "noGzip"
      /\ UNCHANGED <<config, st, req, seen, logged, answer, applied, lost, event, missed,
                     writer, target, buffer, content>>
      /\ resp' = [resp EXCEPT ![h] = [status |-> 400, parts |-> <<Part("error", h)>>]]
      /\ pc' = [pc EXCEPT ![h] = "done"]
  BY DEF NotGzip, wires, Goto
<1>2. Types /\ Shared(h) /\ Flow(h) /\ Work(h)
  BY DEF PInv, RInv
<1>3. [status |-> 400, parts |-> <<Part("error", h)>>] \in Replies
  <2>1. Part("error", h) \in Parts /\ 400 \in Statuses
    BY DEF Part, Parts, Statuses
  <2> QED
    BY <2>1 DEF Replies
<1>4. Moves(h)
  BY <1>1, <1>2, <1>3, StoreStays DEF Moves, Types, Labels
<1>5. /\ pc'[h] = "done" /\ resp'[h] = [status |-> 400, parts |-> <<Part("error", h)>>]
  BY <1>1, <1>2 DEF Types
<1>6. applied'[h] = {} /\ ~event'[h] /\ lost'[h] = {} /\ ~missed'[h]
  BY <1>1, <1>2 DEF Flow
<1>7. Shared(h)' /\ Flow(h)'
  BY <1>1, <1>2, <1>5 DEF Shared, Flow
<1>8. Work(h)' /\ End(h)' /\ History(h)'
  BY <1>1, <1>5, <1>6 DEF Work, End, History, Tried, Fallible
<1> QED
  BY <1>4, <1>7, <1>8 DEF RInv

LEMMA GunzipMoves ==
  ASSUME PInv, NEW h \in Handlers, Gunzip(h), Remember
  PROVE  Moves(h) /\ RInv(h)'
<1>1. /\ pc[h] = "gunzip" /\ req[h].coding # "noGzip"
      /\ UNCHANGED <<config, st, req, resp, seen, logged, answer, applied, lost, event, missed,
                     buffer, content>>
      /\ pc' = [pc EXCEPT ![h] = "hash"]
  BY DEF Gunzip, Goto
<1>2. Types /\ Shared(h) /\ Flow(h) /\ Work(h)
  BY DEF PInv, RInv
<1>3. /\ writer' = writer \/ \E w \in Writers \cup {NoObject} : writer' = [writer EXCEPT ![h] = w]
      /\ target' \in [Writers -> Handlers \cup {NoObject}]
      /\ \A r \in Handlers \ {h} : writer[r] # NoObject => target'[writer[r]] = target[writer[r]]
      /\ writer'[h] # NoObject <=> req[h].accept
      /\ writer'[h] # NoObject => target'[writer'[h]] = h
  <2>1. CASE req[h].accept
    <3>1. PICK w \in FreeWriters : /\ writer' = [writer EXCEPT ![h] = w]
                                   /\ target' = [target EXCEPT ![w] = h]
      BY <2>1 DEF Gunzip
    <3>2. w \in Writers /\ w # NoObject /\ \A r \in Handlers : writer[r] # w
      BY <3>1, PipelineAssumption DEF FreeWriters
    <3>3. writer'[h] = w /\ target'[w] = h
      BY <1>2, <3>1, <3>2 DEF Types
    <3>4. /\ target' \in [Writers -> Handlers \cup {NoObject}]
          /\ \A r \in Handlers \ {h} : writer[r] # NoObject => target'[writer[r]] = target[writer[r]]
      BY <1>2, <3>1, <3>2 DEF Types
    <3> QED
      BY <2>1, <3>1, <3>2, <3>3, <3>4
  <2>2. CASE ~req[h].accept
    <3>1. writer' = writer /\ target' = target
      BY <2>2 DEF Gunzip
    <3>2. writer[h] = NoObject
      BY <1>1, <1>2 DEF Flow
    <3> QED
      BY <1>2, <2>2, <3>1, <3>2 DEF Types
  <2> QED
    BY <2>1, <2>2
<1>4. Moves(h)
  BY <1>1, <1>2, <1>3, StoreStays DEF Moves, Types, Labels
<1>5. pc'[h] = "hash"
  BY <1>1, <1>2 DEF Types
<1>6. applied'[h] = {} /\ ~event'[h] /\ lost'[h] = {} /\ ~missed'[h]
  BY <1>1, <1>2 DEF Flow
<1>7. Shared(h)' /\ Flow(h)'
  BY <1>1, <1>2, <1>3, <1>5 DEF Shared, Flow
<1>8. Work(h)' /\ End(h)' /\ History(h)'
  BY <1>5, <1>6 DEF Work, End, History, Tried, Fallible
<1> QED
  BY <1>4, <1>7, <1>8 DEF RInv

LEMMA DepartMoves ==
  ASSUME PInv, NEW h \in Handlers, Depart(h), Remember
  PROVE  Moves(h) /\ RInv(h)'
<1>1. /\ pc[h] = "done"
      /\ UNCHANGED <<config, st, writer, buffer>>
      /\ req' = [req EXCEPT ![h] = NoRequest]
      /\ resp' = [resp EXCEPT ![h] = NoResponse]
      /\ seen' = [seen EXCEPT ![h] = 0]
      /\ logged' = [logged EXCEPT ![h] = Nil]
      /\ answer' = [answer EXCEPT ![h] = Nil]
      /\ applied' = [applied EXCEPT ![h] = {}]
      /\ lost' = [lost EXCEPT ![h] = {}]
      /\ event' = [event EXCEPT ![h] = FALSE]
      /\ missed' = [missed EXCEPT ![h] = FALSE]
      /\ pc' = [pc EXCEPT ![h] = "idle"]
  BY DEF Depart, Goto
<1>2. Types /\ Shared(h) /\ Flow(h) /\ Work(h) /\ \A r \in Handlers : Shared(r)
  BY DEF PInv, RInv
<1>3. /\ target' \in [Writers -> Handlers \cup {NoObject}]
      /\ content' \in [Buffers -> Handlers \cup {NoObject}]
      /\ \A r \in Handlers \ {h} :
           /\ writer[r] # NoObject => target'[writer[r]] = target[writer[r]]
           /\ buffer[r] # NoObject => content'[buffer[r]] = content[buffer[r]]
  BY <1>2 DEF Depart, Types, Shared
<1>4. /\ NoResponse \in Replies /\ 0 \in Statuses /\ Nil \in Values /\ {} \in SUBSET Nat
      /\ "idle" \in Labels
  BY DEF NoResponse, Replies, Statuses, Values, Labels
<1>5. Moves(h)
  BY <1>1, <1>2, <1>3, <1>4, StoreStays DEF Moves
<1>6. /\ pc'[h] = "idle" /\ req'[h] = NoRequest /\ resp'[h] = NoResponse /\ seen'[h] = 0
      /\ logged'[h] = Nil /\ applied'[h] = {} /\ lost'[h] = {}
  BY <1>1, <1>2 DEF Types
<1>7. ~event'[h] /\ ~missed'[h]
  BY <1>1, <1>2 DEF Types
<1>8. Shared(h)' /\ Flow(h)'
  BY <1>1, <1>2, <1>6, <1>7 DEF Shared, Flow
<1>9. Work(h)' /\ End(h)' /\ History(h)'
  BY <1>6, <1>7 DEF Work, End, History, Tried, Fallible
<1> QED
  BY <1>5, <1>8, <1>9 DEF RInv

LEMMA LogMoves ==
  ASSUME PInv, NEW h \in Handlers, Log(h), Remember
  PROVE  Moves(h) /\ RInv(h)'
<1>1. /\ pc[h] = "log"
      /\ UNCHANGED <<config, st, req, resp, seen, answer, applied, lost, event, missed,
                     writer, target, buffer, content>>
      /\ logged' = [logged EXCEPT ![h] = seen[h]]
      /\ pc' = [pc EXCEPT ![h] = "unwind"]
  BY DEF Log, wires, Goto
<1>2. Types /\ Shared(h) /\ Flow(h) /\ Work(h) /\ End(h) /\ History(h)
  BY DEF PInv, RInv
<1>3. seen[h] \in Statuses \cup {Nil}
  BY <1>2 DEF Types
<1>4. Moves(h)
  BY <1>1, <1>2, <1>3, StoreStays DEF Moves, Types, Labels
<1>5. pc'[h] = "unwind" /\ logged'[h] = seen[h]
  BY <1>1, <1>2 DEF Types
<1>6. Shared(h)' /\ Flow(h)'
  BY <1>1, <1>2, <1>5 DEF Shared, Flow
<1>7. /\ Checked(h)' <=> Checked(h)
      /\ Everything(h)' <=> Everything(h)
      /\ Fallible' <=> Fallible
  BY <1>1 DEF Checked, Everything, Tried, Fallible
<1>8. Work(h)'
  BY <1>1, <1>2, <1>5, <1>7 DEF Work, Passed, Stores, Tried, Fallible
<1>9. Outcome(h)' /\ Main(h)' = Main(h)
  BY <1>1, <1>2, <1>7 DEF End, Outcome, Main, Failed
<1>10. End(h)'
  BY <1>1, <1>2, <1>5, <1>9 DEF End
<1>11. History(h)'
  <2>1. req[h].route \in {"update", "value", "valueURL"} /\ req[h].items # Nil => past'[h] = past[h]
    BY <1>5, PastFacts
  <2> QED
    BY <1>1, <1>2, <1>5, <2>1 DEF History, Real, Sent, Item
<1> QED
  BY <1>4, <1>6, <1>8, <1>10, <1>11 DEF RInv

\* A part written to a response that has its status.
LEMMA AddsPart ==
  ASSUME NEW rs \in Replies, rs.status # 0, NEW part \in Parts
  PROVE  /\ WithPart(rs, part) = Reply(rs.status, rs.parts \o <<part>>)
         /\ WithPart(rs, part) \in Replies
<1>1. WithStatus(rs, 200) = rs
  BY DEF WithStatus, Replies
<1>2. Append(rs.parts, part) = rs.parts \o <<part>> /\ rs.parts \o <<part>> \in Seq(Parts)
  BY AppendIsConcat DEF Replies
<1>3. WithPart(rs, part) = Reply(rs.status, rs.parts \o <<part>>)
  <2>1. WithPart(rs, part) = [rs EXCEPT !.parts = Append(rs.parts, part)]
    BY <1>1 DEF WithPart
  <2>2. rs = [status |-> rs.status, parts |-> rs.parts]
    BY DEF Replies
  <2> DEFINE p == Append(rs.parts, part)
  <2> HIDE DEF p
  <2>3. [rs EXCEPT !.parts = p] = [status |-> rs.status, parts |-> p]
    BY <2>2
  <2> QED
    BY <1>2, <2>1, <2>3 DEF Reply, p
<1> QED
  BY <1>2, <1>3 DEF Reply, Replies

LEMMA UnwindMoves ==
  ASSUME PInv, NEW h \in Handlers, Unwind(h), Remember
  PROVE  Moves(h) /\ RInv(h)'
<1> DEFINE rs     == resp[h]
           ended  == IF writer[h] = NoObject THEN rs ELSE WithPart(rs, Part("end", h))
           closed == IF req[h].coding = "truncated" THEN WithPart(ended, Part("closeError", h)) ELSE ended
<1>1. /\ pc[h] = "unwind"
      /\ UNCHANGED <<config, st, req, seen, logged, answer, applied, lost, event, missed,
                     target, buffer, content>>
      /\ writer' = [writer EXCEPT ![h] = NoObject]
      /\ pc' = [pc EXCEPT ![h] = "done"]
  BY DEF Unwind, Goto
<1>2. /\ Types /\ Shared(h) /\ Flow(h) /\ Work(h) /\ End(h) /\ History(h)
      /\ Outcome(h) /\ rs.parts = Main(h) /\ logged[h] = seen[h]
      /\ req[h] \in Requests /\ req[h].coding # "noGzip" /\ (writer[h] # NoObject <=> req[h].accept)
  BY <1>1 DEF PInv, RInv, Flow, End
<1>3. Part("end", h) \in Parts /\ Part("closeError", h) \in Parts
  BY DEF Part, Parts
<1>4. rs \in Replies /\ rs.status # 0
  BY <1>2 DEF Types, Replies, Outcome
<1>5. ended \in Replies /\ ended.status = rs.status /\ ended.parts = Main(h) \o Ending(h)
  <2>1. CASE req[h].accept
    <3>1. ended = WithPart(rs, Part("end", h))
      BY <1>2, <2>1
    <3> HIDE DEF ended
    <3>2. ended = Reply(rs.status, rs.parts \o <<Part("end", h)>>) /\ ended \in Replies
      BY <1>3, <1>4, <3>1, AddsPart
    <3> QED
      BY <1>2, <2>1, <3>2 DEF Ending, Reply
  <2>2. CASE ~req[h].accept
    <3>1. Main(h) \o <<>> = Main(h)
      BY <1>2, <1>4, ConcatEmptySeq DEF Replies
    <3> QED
      BY <1>2, <1>4, <2>2, <3>1 DEF Ending
  <2> QED
    BY <2>1, <2>2
<1>6. closed \in Replies /\ closed.status = rs.status /\ closed.parts = (Main(h) \o Ending(h)) \o Late(h)
  <2> HIDE DEF ended
  <2>1. CASE req[h].coding = "truncated"
    <3>1. closed = Reply(ended.status, ended.parts \o <<Part("closeError", h)>>) /\ closed \in Replies
      BY <1>3, <1>4, <1>5, <2>1, AddsPart
    <3> QED
      BY <1>5, <2>1, <3>1 DEF Late, Reply
  <2>2. CASE req[h].coding # "truncated"
    <3>1. ended.parts \o <<>> = ended.parts
      BY <1>5, ConcatEmptySeq DEF Replies
    <3> QED
      BY <1>5, <2>2, <3>1 DEF Late
  <2> QED
    BY <2>1, <2>2
<1>7. resp' = [resp EXCEPT ![h] = closed]
  <2>1. Sink(h) = h /\ h \in DOMAIN resp
    BY <1>2, SinkIsOwn DEF Types
  <2> DEFINE rs1 == IF writer[h] = NoObject THEN resp ELSE [resp EXCEPT ![h] = WithPart(@, Part("end", h))]
  <2>2. rs1 = [resp EXCEPT ![h] = ended]
    <3>1. resp = [resp EXCEPT ![h] = rs]
      BY <1>2 DEF Types
    <3> QED
      BY <3>1
  <2>3. resp' = IF req[h].coding = "truncated"
                THEN [rs1 EXCEPT ![h] = WithPart(@, Part("closeError", h))] ELSE rs1
    BY <2>1 DEF Unwind
  <2> HIDE DEF rs1, ended
  <2> QED
    BY <2>1, <2>2, <2>3
<1> HIDE DEF closed, ended
<1>8. Moves(h)
  BY <1>1, <1>2, <1>6, <1>7, StoreStays DEF Moves, Types, Labels
<1>9. pc'[h] = "done" /\ resp'[h] = closed /\ writer'[h] = NoObject
  BY <1>1, <1>2, <1>7 DEF Types
<1>10. Shared(h)' /\ Flow(h)'
  BY <1>1, <1>2, <1>9 DEF Shared, Flow
<1>11. /\ Checked(h)' <=> Checked(h)
       /\ Everything(h)' <=> Everything(h)
       /\ Fallible' <=> Fallible
  BY <1>1 DEF Checked, Everything, Tried, Fallible
<1>12. Work(h)'
  BY <1>1, <1>2, <1>9, <1>11 DEF Work, Passed, Stores, Tried, Fallible
<1>13. resp'[h].status = resp[h].status
  BY <1>6, <1>9
<1>14. Outcome(h)' /\ Main(h)' = Main(h) /\ Ending(h)' = Ending(h) /\ Late(h)' = Late(h)
  BY <1>1, <1>2, <1>11, <1>13 DEF Outcome, Main, Ending, Late, Failed
<1>15. End(h)'
  <2>1. ~Cut(h)'
    BY <1>4, <1>13 DEF Cut
  <2>2. resp'[h].parts = (Main(h)' \o Ending(h)') \o Late(h)'
    BY <1>6, <1>9, <1>14
  <2>3. req'[h].coding # "noGzip" /\ logged'[h] = seen'[h]
    BY <1>1, <1>2
  <2> QED
    BY <1>9, <1>14, <2>1, <2>2, <2>3 DEF End
<1>16. History(h)'
  <2>1. req[h].route \in {"update", "value", "valueURL"} /\ req[h].items # Nil => past'[h] = past[h]
    BY <1>9, PastFacts
  <2> QED
    BY <1>1, <1>2, <1>9, <1>13, <2>1 DEF History, Real, Sent, Item
<1> QED
  BY <1>8, <1>10, <1>12, <1>15, <1>16 DEF RInv
-----------------------------------------------------------------------------
(***************************************************************************)
(* The invariant, and what it says.                                        *)
(***************************************************************************)
LEMMA PInit == PipelineInit => PInv
<1> SUFFICES ASSUME PipelineInit PROVE PInv
  OBVIOUS
<1> USE DEF PipelineInit
<1>1. Types
  <2>1. st \in Contents
    BY DEF EmptyContents, Contents
  <2>2. NoResponse \in [status : Statuses, parts : Seq(Parts)]
    BY DEF NoResponse, Statuses
  <2>3. resp \in [Handlers -> [status : Statuses, parts : Seq(Parts)]]
    BY <2>2
  <2>4. config \in Configs /\ pc \in [Handlers -> Labels] /\ req \in [Handlers -> Requests \cup {NoRequest}]
    BY DEF Labels
  <2>5. /\ seen \in [Handlers -> Statuses] /\ logged \in [Handlers -> Statuses \cup {Nil}]
        /\ answer \in [Handlers -> Values] /\ applied \in [Handlers -> SUBSET Nat]
        /\ lost \in [Handlers -> SUBSET Nat]
    BY DEF Statuses, Values
  <2>6. event \in [Handlers -> BOOLEAN] /\ missed \in [Handlers -> BOOLEAN]
    OBVIOUS
  <2>7. /\ writer \in [Handlers -> Writers \cup {NoObject}]
        /\ target \in [Writers -> Handlers \cup {NoObject}]
        /\ buffer \in [Handlers -> Buffers \cup {NoObject}]
        /\ content \in [Buffers -> Handlers \cup {NoObject}]
    OBVIOUS
  <2> QED
    BY <2>1, <2>3, <2>4, <2>5, <2>6, <2>7 DEF Types
<1>2. ASSUME NEW h \in Handlers PROVE RInv(h)
  <2>1. Shared(h) /\ Flow(h)
    BY DEF Shared, Flow
  <2>2. Tried(h) = {} /\ lost[h] = {} /\ ~event[h] /\ ~missed[h] /\ pc[h] = "idle"
    BY DEF Tried
  <2>3. Work(h) /\ End(h) /\ History(h)
    BY <2>2 DEF Work, End, History
  <2> QED
    BY <2>1, <2>3 DEF RInv
<1> QED
  BY <1>1, <1>2 DEF PInv

LEMMA PStep == PInv /\ PipelineNext => PInv'
<1> SUFFICES ASSUME PInv, PipelineNext PROVE PInv'
  OBVIOUS
<1>1. Remember
  BY DEF PipelineNext
<1>2. PICK h \in Handlers :
        \/ \E r \in Requests : Arrive(h, r)
        \/ NotGzip(h) \/ Gunzip(h) \/ HashCheck(h) \/ CannotDecode(h) \/ RejectWrite(h)
        \/ SetOne(h) \/ SetOneFails(h) \/ ReadBack(h) \/ SetMany(h) \/ BeginBatch(h)
        \/ SetItem(h) \/ CommitBatch(h) \/ SetManyFails(h)
        \/ Get(h) \/ GetFails(h) \/ Home(h) \/ Ping(h) \/ PingPanics(h)
        \/ Encode(h) \/ EncodeFails(h) \/ Write(h) \/ Log(h) \/ Unwind(h) \/ Depart(h)
  BY DEF PipelineNext
<1>3. Moves(h) /\ RInv(h)'
  <2>1. CASE \E r \in Requests : Arrive(h, r)
    BY <1>1, <2>1, ArriveMoves
  <2>2. CASE NotGzip(h)
    BY <1>1, <2>2, NotGzipMoves
  <2>3. CASE Gunzip(h)
    BY <1>1, <2>3, GunzipMoves
  <2>4. CASE HashCheck(h)
    BY <1>1, <2>4, HashCheckMoves
  <2>5. CASE CannotDecode(h)
    BY <1>1, <2>5, CannotDecodeMoves
  <2>6. CASE RejectWrite(h)
    BY <1>1, <2>6, RejectWriteMoves
  <2>7. CASE SetOne(h)
    BY <1>1, <2>7, SetOneMoves
  <2>8. CASE SetOneFails(h)
    BY <1>1, <2>8, SetOneFailsMoves
  <2>9. CASE ReadBack(h)
    BY <1>1, <2>9, ReadBackMoves
  <2>10. CASE SetMany(h)
    BY <1>1, <2>10, SetManyMoves
  <2>23. CASE BeginBatch(h)
    BY <1>1, <2>23, BeginBatchMoves
  <2>24. CASE SetItem(h)
    BY <1>1, <2>24, SetItemMoves
  <2>25. CASE CommitBatch(h)
    BY <1>1, <2>25, CommitBatchMoves
  <2>11. CASE SetManyFails(h)
    BY <1>1, <2>11, SetManyFailsMoves
  <2>12. CASE Get(h)
    BY <1>1, <2>12, GetMoves
  <2>13. CASE GetFails(h)
    BY <1>1, <2>13, GetFailsMoves
  <2>14. CASE Home(h)
    BY <1>1, <2>14, HomeMoves
  <2>15. CASE Ping(h)
    BY <1>1, <2>15, PingMoves
  <2>16. CASE PingPanics(h)
    BY <1>1, <2>16, PingPanicsMoves
  <2>17. CASE Encode(h)
    BY <1>1, <2>17, EncodeMoves
  <2>18. CASE EncodeFails(h)
    BY <1>1, <2>18, EncodeFailsMoves
  <2>19. CASE Write(h)
    BY <1>1, <2>19, WriteMoves
  <2>20. CASE Log(h)
    BY <1>1, <2>20, LogMoves
  <2>21. CASE Unwind(h)
    BY <1>1, <2>21, UnwindMoves
  <2>22. CASE Depart(h)
    BY <1>1, <2>22, DepartMoves
  <2> QED
    BY <1>2, <2>1, <2>2, <2>3, <2>4, <2>5, <2>6, <2>7, <2>8, <2>9, <2>10, <2>11, <2>12,
       <2>13, <2>14, <2>15, <2>16, <2>17, <2>18, <2>19, <2>20, <2>21, <2>22, <2>23, <2>24,
       <2>25
<1>4. Types' /\ \A r \in Handlers \ {h} : Untouched(r)
  BY <1>3, MovesFacts DEF PInv
<1>5. st' \in Contents /\ Keeps(st, st')
  BY <1>3 DEF Moves
<1>6. ASSUME NEW r \in Handlers PROVE RInv(r)'
  <2>1. CASE r = h
    BY <1>3, <2>1
  <2>2. CASE r # h
    BY <1>1, <1>4, <1>5, <2>2, UntouchedKeeps
  <2> QED
    BY <2>1, <2>2
<1> QED
  BY <1>4, <1>6 DEF PInv

LEMMA PStutter == PInv /\ UNCHANGED pipelineVars => PInv'
<1> SUFFICES ASSUME PInv, UNCHANGED pipelineVars PROVE PInv'
  OBVIOUS
<1> USE DEF pipelineVars, wires
<1>1. Types'
  BY DEF PInv, Types
<1>2. ASSUME NEW h \in Handlers PROVE RInv(h)'
  <2>0. Shared(h) /\ Flow(h) /\ Work(h) /\ End(h) /\ History(h)
    BY DEF PInv, RInv
  <2>1. Shared(h)' /\ Flow(h)'
    BY <2>0 DEF Shared, Flow
  <2>2. (Checked(h)' <=> Checked(h)) /\ (Everything(h)' <=> Everything(h)) /\ (Fallible' <=> Fallible)
    BY DEF Checked, Everything, Tried, Fallible
  <2>3. Work(h)'
    BY <2>0, <2>2 DEF Work, Passed, Stores, Tried, Fallible
  <2>4. /\ Outcome(h) => Outcome(h)'
        /\ Main(h)' = Main(h) /\ Ending(h)' = Ending(h) /\ Late(h)' = Late(h) /\ (Cut(h)' <=> Cut(h))
    BY <2>2 DEF Outcome, Main, Ending, Late, Cut, Failed
  <2>5. End(h)'
    BY <2>0, <2>2, <2>4 DEF End
  <2>6. History(h)'
    BY <2>0 DEF History, Real, Stored, Sent, Item
  <2> QED
    BY <2>1, <2>3, <2>5, <2>6 DEF RInv
<1> QED
  BY <1>1, <1>2 DEF PInv

LEMMA PipelineInvariant == PipelineSpec => []PInv
BY PInit, PStep, PStutter, PTL DEF PipelineSpec

\* A request that is done: refused before the logger, cut off by a panic, or
\* answered.
LEMMA DoneFacts ==
  ASSUME PInv, NEW h \in Handlers, Done(h)
  PROVE  \/ /\ req[h].coding = "noGzip" /\ applied[h] = {} /\ ~event[h]
            /\ resp[h].status = 400 /\ resp[h].parts = <<Part("error", h)>>
         \/ /\ req[h].coding # "noGzip" /\ Cut(h) /\ req[h].route = "ping" /\ ~Fallible
            /\ logged[h] = Nil /\ applied[h] = {} /\ ~event[h]
         \/ /\ req[h].coding # "noGzip" /\ ~Cut(h) /\ Outcome(h) /\ logged[h] = seen[h]
            /\ resp[h].parts = (Main(h) \o Ending(h)) \o Late(h)
<1>1. End(h) /\ pc[h] = "done"
  BY DEF PInv, RInv, Done
<1>2. CASE req[h].coding = "noGzip"
  BY <1>1, <1>2 DEF End
<1>3. CASE req[h].coding # "noGzip"
  BY <1>1, <1>3, Zenon DEF End
<1> QED
  BY <1>2, <1>3

\* Every variable has its type, and only items of the request are stored.
THEOREM PipelineTypeCorrect == PipelineSpec => []PipelineTypeOK
<1>1. PInv => PipelineTypeOK
  <2> SUFFICES ASSUME PInv PROVE PipelineTypeOK
    OBVIOUS
  <2>1. Types
    BY DEF PInv
  <2>2. ASSUME NEW h \in Handlers
        PROVE  /\ resp[h].status \in {0, 200, 400, 404, 500}
               /\ seen[h] \in {0, 200, 400, 404, 500}
               /\ answer[h] \in {Nil} \cup Int64 \cup GaugeValues
               /\ Tried(h) # {} => Tried(h) \subseteq DOMAIN req[h].items
    <3>1. resp[h] \in [status : Statuses, parts : Seq(Parts)] /\ seen[h] \in Statuses
      BY <2>1 DEF Types
    <3>2. answer[h] \in Values
      BY <2>1 DEF Types
    <3>3. Tried(h) # {} => Tried(h) \subseteq DOMAIN req[h].items
      BY DEF PInv, RInv, Work
    <3>4. resp[h].status \in Statuses
      BY <3>1
    <3> QED
      BY <3>1, <3>2, <3>3, <3>4 DEF Statuses, Values
  <2> QED
    BY <2>1, <2>2 DEF PipelineTypeOK, Types, Labels
<1> QED
  BY <1>1, PipelineInvariant, PTL

\* Status, audit event and store agree on every request that is done: nothing
\* of it is stored, or all that the database did not fail, and an error after
\* something was stored was audited or is the database's.
THEOREM StatusCorrect == PipelineSpec => []StatusIsTrue
<1>1. PInv => StatusIsTrue
  <2> SUFFICES ASSUME PInv PROVE StatusIsTrue
    OBVIOUS
  <2>1. RefusedChangesNothing
    BY DoneFacts DEF RefusedChangesNothing, Outcome, Cut
  <2>2. OkIsStored
    BY DoneFacts DEF OkIsStored, Outcome, Cut
  <2>3. EventsAreTrue
    <3> SUFFICES ASSUME NEW h \in Handlers, event[h]
                 PROVE  /\ Everything(h)
                        /\ Done(h) /\ resp[h].status # 200 =>
                             resp[h].status = 500 /\ answer[h] \in Unencodable
      BY DEF EventsAreTrue
    <3>1. Everything(h)
      BY DEF PInv, RInv, Work
    <3> QED
      BY <3>1, DoneFacts DEF Outcome
  <2>4. ErrorsHideNothing
    <3> SUFFICES ASSUME NEW h \in Handlers, Done(h), resp[h].status = 500, applied[h] # {}
                 PROVE  event[h] \/ (Fallible /\ missed[h])
      BY DEF ErrorsHideNothing
    <3>1. Outcome(h)
      BY DoneFacts DEF Cut
    <3>2. missed[h] => Fallible
      BY DEF PInv, RInv, Work
    <3> QED
      BY <3>1, <3>2 DEF Outcome
  <2> QED
    BY <2>1, <2>2, <2>3, <2>4 DEF StatusIsTrue
<1> QED
  BY <1>1, PipelineInvariant, PTL

\* A 500 has one of its three causes.
THEOREM ServerErrorCorrect == PipelineSpec => []ServerErrorHasCause
<1>1. PInv => ServerErrorHasCause
  <2> SUFFICES ASSUME PInv, NEW h \in Handlers, Done(h), resp[h].status = 500
               PROVE  \/ Checked(h) /\ ~Readable(req[h])
                      \/ answer[h] \in Unencodable
                      \/ Fallible /\ missed[h]
    BY DEF ServerErrorHasCause
  <2>1. Outcome(h)
    BY DoneFacts DEF Cut
  <2>2. missed[h] => Fallible
    BY DEF PInv, RInv, Work
  <2> QED
    BY <2>1, <2>2 DEF Outcome
<1> QED
  BY <1>1, PipelineInvariant, PTL

\* Nothing is stored from a damaged body, or against a hash that is wrong.
THEOREM DamagedCorrect == PipelineSpec => []DamagedIsNotStored
<1>1. PInv => DamagedIsNotStored
  <2> SUFFICES ASSUME PInv, NEW h \in Handlers, applied[h] # {}
               PROVE  /\ req[h].route # "updateURL" => req[h].coding \in {"plain", "gzip"}
                      /\ config.key => req[h].sum \in {"none", "ofBody"}
    BY DEF DamagedIsNotStored
  <2>1. Passed(h) /\ Stores(h)
    BY DEF PInv, RInv, Work, Tried
  <2>2. req[h].route # "updateURL" => Readable(req[h])
    BY <2>1 DEF Stores, Decodes
  <2>3. config.key => req[h].sum \in {"none", "ofBody"}
    BY <2>1 DEF Passed, Stores, Checked, SumMatches
  <2> QED
    BY <2>2, <2>3 DEF Readable
<1> QED
  BY <1>1, PipelineInvariant, PTL

\* The client gets its own answer, once, whoever shares writers and buffers.
THEOREM ResponseCorrect == PipelineSpec => []ResponseIsOwn
<1>1. PInv => ResponseIsOwn
  <2> SUFFICES ASSUME PInv PROVE ResponseIsOwn
    OBVIOUS
  <2>1. ASSUME NEW h \in Handlers, Done(h)
        PROVE  IF Cut(h) THEN req[h].route = "ping" /\ ~Fallible ELSE
               LET main   == IF req[h].route = "ping" \/ (req[h].route \in {"updateURL", "updates"}
                                                          /\ ~Failed(h))
                             THEN <<>> ELSE <<Part(IF Failed(h) THEN "error" ELSE "answer", h)>>
                   refused == req[h].coding = "noGzip"
                   end    == IF req[h].accept /\ ~refused THEN <<Part("end", h)>> ELSE <<>>
                   late   == IF req[h].coding = "truncated" THEN <<Part("closeError", h)>> ELSE <<>>
               IN  resp[h].parts = (IF refused THEN <<Part("error", h)>> ELSE main) \o end \o late
    <3>1. CASE req[h].coding = "noGzip"
      <4>1. ~Cut(h) /\ resp[h].parts = <<Part("error", h)>>
        BY <2>1, <3>1, DoneFacts DEF Cut
      <4>2. <<Part("error", h)>> \o <<>> = <<Part("error", h)>>
        OBVIOUS
      <4> QED
        BY <3>1, <4>1, <4>2
    <3>2. CASE req[h].coding # "noGzip" /\ Cut(h)
      BY <2>1, <3>2, DoneFacts, SMTT(40)
    <3>3. CASE req[h].coding # "noGzip" /\ ~Cut(h)
      <4>1. resp[h].parts = (Main(h) \o Ending(h)) \o Late(h)
        BY <2>1, <3>3, DoneFacts
      <4> QED
        BY <3>3, <4>1 DEF Main, Ending, Late
    <3> QED
      BY <3>1, <3>2, <3>3
  <2> QED
    BY <2>1 DEF ResponseIsOwn
<1> QED
  BY <1>1, PipelineInvariant, PTL

\* The log has the status the client got.
THEOREM LogCorrect == PipelineSpec => []LogIsHonest
<1>1. PInv => LogIsHonest
  BY DoneFacts DEF LogIsHonest, Outcome
<1> QED
  BY <1>1, PipelineInvariant, PTL

\* The server refuses nothing its agent sends.
THEOREM AgentHeard == PipelineSpec => []AgentIsHeard
<1>1. PInv => AgentIsHeard
  BY DoneFacts DEF AgentIsHeard, Outcome, Cut
<1> QED
  BY <1>1, PipelineInvariant, PTL

\* A value a client is told was its metric's, and what is said not to exist
\* did not, at some moment while the request was handled.
THEOREM AnswersCorrect == PipelineSpec => []AnswersAreReal
<1>1. PInv => AnswersAreReal
  <2> SUFFICES ASSUME PInv, NEW h \in Handlers, Done(h)
               PROVE  /\ resp[h].status = 200 /\ req[h].route \in {"update", "value", "valueURL"} =>
                           \/ answer[h] \in past[h]
                           \/ missed[h] /\ answer[h] = Sent(Item(h))
                      /\ resp[h].status = 404 => Nil \in past[h] \/ missed[h]
    BY DEF AnswersAreReal
  <2>1. History(h)
    BY DEF PInv, RInv
  <2>2. resp[h].status \in {200, 404} => Outcome(h)
    BY DoneFacts DEF Cut
  <2>3. /\ resp[h].status = 200 /\ req[h].route \in {"update", "value", "valueURL"} => req[h].items # Nil
        /\ resp[h].status = 404 => req[h].route \in {"value", "valueURL"} /\ req[h].items # Nil
    BY <2>2 DEF Outcome
  <2> QED
    BY <2>1, <2>3 DEF History, Real, Done
<1> QED
  BY <1>1, PipelineInvariant, PTL
=============================================================================
