------------------------ MODULE MetricsServiceProofs ------------------------
(***************************************************************************)
(* The in-memory store and the service on top of it, for every set of      *)
(* goroutines, names, gauge values and requests and every width of the     *)
(* counters.  First what MemStorage does: its lock works, and it           *)
(* implements the contract of interfaces.Store.  Then the requests: those  *)
(* that write are stored as a whole or not at all, and what the others are *)
(* answered was in the store while they were served.                       *)
(***************************************************************************)
EXTENDS MetricsService, SequenceTheorems, WellFoundedInduction, TLAPS

\* int64 arithmetic stays in int64.
LEMMA WrapType == \A x \in Int : Wrap(x) \in Int64
<1> SUFFICES ASSUME NEW x \in Int PROVE Wrap(x) \in Int64
  OBVIOUS
<1>1. Half \in Nat /\ Half > 0
  BY MetricsAssumption
<1>2. (x + Half) % (2 * Half) \in 0 .. (2 * Half - 1)
  BY <1>1
<1> QED
  BY <1>1, <1>2 DEF Wrap, Int64

\* Storing any metric leaves well-formed contents.
LEMMA PutType == \A st \in Contents, m \in Metric : Put(st, m) \in Contents
<1> SUFFICES ASSUME NEW st \in Contents, NEW m \in Metric
             PROVE  Put(st, m) \in Contents
  OBVIOUS
<1>1. /\ m.id \in Names
      /\ st.counters \in [Names -> Int64 \cup {Nil}]
      /\ st.gauges \in [Names -> GaugeValues \cup {Nil}]
      /\ m.delta \in Int64 \cup {Nil}
      /\ m.value \in GaugeValues \cup {Nil}
  BY DEF Contents, Metric
<1>2. CASE m.mtype = "counter" /\ m.delta # Nil
  <2>1. m.delta \in Int
    BY <1>1, <1>2, MetricsAssumption DEF Int64
  <2>2. OrZero(st.counters[m.id]) \in Int
    BY <1>1, MetricsAssumption DEF OrZero, Int64
  <2>3. Wrap(OrZero(st.counters[m.id]) + m.delta) \in Int64
    BY <2>1, <2>2, WrapType
  <2> QED
    BY <1>1, <1>2, <2>3 DEF Put, Contents
<1>3. CASE m.mtype = "gauge" /\ m.value # Nil
  BY <1>1, <1>3 DEF Put, Contents
<1>4. CASE ~(m.mtype = "counter" /\ m.delta # Nil) /\ ~(m.mtype = "gauge" /\ m.value # Nil)
  BY <1>4 DEF Put
<1> QED
  BY <1>2, <1>3, <1>4

\* Every question has an answer.
LEMMA AnswerType == \A st \in Contents, q \in Queries : Answer(st, q) \in Answers
<1> SUFFICES ASSUME NEW st \in Contents, NEW q \in Queries
             PROVE  Answer(st, q) \in Answers
  OBVIOUS
<1>1. q.ids \in SUBSET Names
  BY DEF Queries
<1>2. \A n \in q.ids : (IF q.map = "counters" THEN st.counters[n] ELSE st.gauges[n])
                         \in Int64 \cup GaugeValues \cup {Nil}
  BY <1>1 DEF Contents
<1>3. Answer(st, q) \in [q.ids -> Int64 \cup GaugeValues \cup {Nil}]
  BY <1>2 DEF Answer
<1> QED
  BY <1>1, <1>3 DEF Answers
-----------------------------------------------------------------------------
\* What one step needs to know of the state: its shape, and that the lock's
\* bookkeeping is right.  Neither is inductive without the other: only the
\* lock says that a goroutine that Unlock lets in has a question to ask.
MemInv == MemTypeOK /\ LockInv

LEMMA InitInv == MemInit => MemInv
<1> SUFFICES ASSUME MemInit PROVE MemInv
  OBVIOUS
<1>1. EmptyContents \in Contents
  BY DEF EmptyContents, Contents
<1>2. MemTypeOK
  BY <1>1 DEF MemInit, MemTypeOK, PCs
<1>3. LockInv
  BY MemAssumption DEF MemInit, LockInv
<1> QED
  BY <1>2, <1>3 DEF MemInv

LEMMA NextInv == MemInv /\ [MemNext]_memVars => MemInv'
<1> SUFFICES ASSUME MemInv, [MemNext]_memVars
             PROVE  MemInv'
  OBVIOUS
<1> USE DEF MemInv, MemTypeOK, LockInv, lockVars, PCs
<1>1. ASSUME NEW p \in Procs, NEW ms \in Writes, CallWrite(p, ms)
      PROVE  MemInv'
  <2>1. MemTypeOK'
    BY <1>1, MemAssumption DEF CallWrite
  <2>2. LockInv'
    BY <1>1, MemAssumption DEF CallWrite
  <2> QED
    BY <2>1, <2>2
<1>2. ASSUME NEW p \in Procs, Announce(p)
      PROVE  MemInv'
  <2>1. MemTypeOK'
    BY <1>2, MemAssumption DEF Announce
  <2>2. LockInv'
    BY <1>2, MemAssumption DEF Announce
  <2> QED
    BY <2>1, <2>2
<1>3. ASSUME NEW p \in Procs, Enter(p)
      PROVE  MemInv'
  <2>1. MemTypeOK'
    BY <1>3 DEF Enter
  <2>2. LockInv'
    BY <1>3 DEF Enter
  <2> QED
    BY <2>1, <2>2
<1>4. ASSUME NEW p \in Procs, PutItem(p)
      PROVE  MemInv'
  <2>1. left[p] \in Seq(Metric) /\ left[p] # <<>>
    BY <1>4 DEF PutItem
  <2>2. Head(left[p]) \in Metric /\ Tail(left[p]) \in Seq(Metric)
    BY <2>1
  <2>3. mem' \in Contents
    BY <1>4, <2>2, PutType DEF PutItem
  <2>4. MemTypeOK'
    BY <1>4, <2>2, <2>3 DEF PutItem
  <2>5. LockInv'
    BY <1>4 DEF PutItem
  <2> QED
    BY <2>4, <2>5
<1>5. ASSUME NEW p \in Procs, Unlock(p)
      PROVE  MemInv'
  <2>1. MemTypeOK'
    BY <1>5, MemAssumption DEF Unlock
  <2>2. LockInv'
    BY <1>5, MemAssumption DEF Unlock
  <2> QED
    BY <2>1, <2>2
<1>6. ASSUME NEW p \in Procs, NEW q \in Queries, CallRead(p, q)
      PROVE  MemInv'
  <2>1. MemTypeOK'
    BY <1>6, ZenonT(40) DEF CallRead
  <2>2. CASE writer = Nobody
    BY <1>6, <2>2, MemAssumption, ZenonT(40) DEF CallRead
  <2>3. CASE writer # Nobody
    BY <1>6, <2>3, ZenonT(40) DEF CallRead
  <2> QED
    BY <2>1, <2>2, <2>3
<1>7. ASSUME NEW p \in Procs, Read(p)
      PROVE  MemInv'
  <2>1. MemTypeOK'
    BY <1>7, AnswerType DEF Read
  <2>2. LockInv'
    BY <1>7, AnswerType DEF Read
  <2> QED
    BY <2>1, <2>2
<1>8. ASSUME NEW p \in Procs, Forget(p)
      PROVE  MemInv'
  <2>1. MemTypeOK'
    BY <1>8 DEF Forget
  <2>2. LockInv'
    BY <1>8 DEF Forget
  <2> QED
    BY <2>1, <2>2
<1>9. CASE UNCHANGED memVars
  BY <1>9 DEF memVars
<1> QED
  BY <1>1, <1>2, <1>3, <1>4, <1>5, <1>6, <1>7, <1>8, <1>9 DEF MemNext

LEMMA InvHolds == MemSpec => []MemInv
  BY InitInv, NextInv, PTL DEF MemSpec

\* The state of the store and of its calls always has the declared shape.
THEOREM MemTypeCorrect == MemSpec => []MemTypeOK
<1>1. MemInv => MemTypeOK
  BY DEF MemInv
<1> QED
  BY <1>1, InvHolds, PTL

\* The lock of the in-memory store is exclusive: no reader and no second
\* writer is inside while SetMetrics or a single write is.
THEOREM LockCorrect == MemSpec => []LockInv
<1>1. MemInv => LockInv
  BY DEF MemInv
<1> QED
  BY <1>1, InvHolds, PTL
-----------------------------------------------------------------------------
(***************************************************************************)
(* The implementation proof.  The state of the contract, as the mapping    *)
(* reads it off the state of the store.                                    *)
(***************************************************************************)
Tx == [p \in Procs |->
         IF pc[p] = "write"
         THEN [open |-> TRUE, base |-> base, work |-> mem, left |-> left[p]]
         ELSE [open |-> FALSE, base |-> EmptyContents,
               work |-> EmptyContents, left |-> <<>>]]

\* Initially everything is empty on both sides.
LEMMA InitMaps == MemInit => Contract!StoreInit
<1> SUFFICES ASSUME MemInit PROVE Contract!StoreInit
  OBVIOUS
<1>1. \A p \in Procs : pc[p] # "write"
  BY DEF MemInit
<1>2. Published = EmptyContents
  BY <1>1 DEF MemInit, Published, InSection
<1>3. Tx = [p \in Procs |-> Contract!NoTx]
  BY <1>1 DEF Tx, Contract!NoTx, Contract!EmptyContents, EmptyContents
<1> QED
  BY <1>2, <1>3 DEF Contract!StoreInit, Contract!EmptyContents, EmptyContents, Tx, MemInit

\* At most one goroutine is in its critical section, and then nobody reads.
LEMMA OneWriter ==
  ASSUME LockInv, MemTypeOK, NEW p \in Procs, pc[p] = "write"
  PROVE  /\ \A r \in Procs : pc[r] = "write" => r = p
         /\ readers = {}
         /\ Published = base
BY DEF LockInv, Published, InSection

\* Every step of the store is a step of the contract or changes nothing of
\* it: entering the critical section begins a write, each item is staged,
\* unlocking publishes, and only Read answers.
LEMMA StepMaps ==
  MemInv /\ MemInv' /\ [MemNext]_memVars => [Contract!StoreNext]_(Contract!storeVars)
<1> SUFFICES ASSUME MemInv, MemInv', [MemNext]_memVars
             PROVE  [Contract!StoreNext]_(Contract!storeVars)
  OBVIOUS
<1> USE DEF MemInv
<1> DEFINE Same == Published' = Published /\ Tx' = Tx /\ ret' = ret
<1>0. Same => UNCHANGED Contract!storeVars
  BY DEF Contract!storeVars, Tx
<1>1. ASSUME NEW p \in Procs, NEW ms \in Writes, CallWrite(p, ms)
      PROVE  Same
  <2>1. \A r \in Procs : pc'[r] = "write" <=> pc[r] = "write"
    BY <1>1 DEF CallWrite, MemTypeOK
  <2>2. \A r \in Procs : pc[r] = "write" => left'[r] = left[r]
    BY <1>1 DEF CallWrite, MemTypeOK
  <2>3. Published' = Published
    BY <1>1, <2>1 DEF CallWrite, Published, InSection
  <2>4. Tx' = Tx
    BY <1>1, <2>1, <2>2 DEF CallWrite, Tx
  <2> QED
    BY <1>1, <2>3, <2>4 DEF CallWrite
<1>2. ASSUME NEW p \in Procs, Announce(p)
      PROVE  Same
  <2>1. \A r \in Procs : pc'[r] = "write" <=> pc[r] = "write"
    BY <1>2 DEF Announce, MemTypeOK
  <2> QED
    BY <1>2, <2>1 DEF Announce, Tx, Published, InSection
<1>3. ASSUME NEW p \in Procs, Enter(p)
      PROVE  Contract!Begin(p, left[p]) /\ left[p] \in Writes
  <2>1. left[p] \in Writes /\ pc[p] = "drain"
    BY <1>3 DEF Enter, MemTypeOK
  <2>2. \A r \in Procs : pc[r] # "write"
    BY <2>1 DEF LockInv
  <2>3. Published = mem
    BY <2>2 DEF Published, InSection
  <2>4. pc' = [pc EXCEPT ![p] = "write"] /\ pc \in [Procs -> PCs]
    BY <1>3 DEF Enter, MemTypeOK
  <2>5. Published' = mem
    BY <1>3, <2>4 DEF Enter, Published, InSection
  <2>6. ~Tx[p].open
    BY <2>2 DEF Tx
  <2>7. Tx' = [Tx EXCEPT ![p] = [open |-> TRUE, base |-> mem, work |-> mem,
                                 left |-> left[p]]]
    BY <1>3, <2>2, <2>4 DEF Enter, Tx
  <2> QED
    BY <1>3, <2>1, <2>3, <2>5, <2>6, <2>7 DEF Contract!Begin, Tx, Enter
<1>4. ASSUME NEW p \in Procs, PutItem(p)
      PROVE  Contract!Stage(p)
  <2>1. pc[p] = "write" /\ pc' = pc /\ base' = base /\ ret' = ret
    BY <1>4 DEF PutItem
  <2>2. \A r \in Procs : pc[r] = "write" => r = p
    BY <2>1, OneWriter
  <2>3. Published' = Published
    BY <2>1 DEF Published, InSection
  <2>4. /\ left \in [Procs -> Seq(Metric)]
        /\ left' = [left EXCEPT ![p] = Tail(@)]
        /\ mem' = Put(mem, Head(left[p]))
        /\ left[p] # <<>>
    BY <1>4 DEF PutItem, MemTypeOK
  <2>5. Tx[p] = [open |-> TRUE, base |-> base, work |-> mem, left |-> left[p]]
    BY <2>1 DEF Tx
  <2>6. Tx' = [Tx EXCEPT ![p] = [open |-> TRUE, base |-> base,
                                 work |-> Put(mem, Head(left[p])),
                                 left |-> Tail(left[p])]]
    BY <2>1, <2>2, <2>4 DEF Tx
  <2>7. Tx' = [Tx EXCEPT ![p].work = Contract!Put(@, Head(Tx[p].left)),
                         ![p].left = Tail(@)]
    BY <2>5, <2>6, ZenonT(40) DEF Tx, Contract!Put, Put, Contract!Wrap, Wrap,
                      Contract!OrZero, OrZero
  <2> QED
    BY <2>1, <2>3, <2>4, <2>5, <2>7 DEF Contract!Stage, Tx
<1>5. ASSUME NEW p \in Procs, Unlock(p)
      PROVE  Contract!Publish(p)
  <2>1. pc[p] = "write" /\ left[p] = <<>> /\ mem' = mem /\ ret' = ret /\ left' = left
    BY <1>5 DEF Unlock
  <2>2. (\A r \in Procs : pc[r] = "write" => r = p) /\ Published = base
    BY <2>1, OneWriter
  <2>3. \A r \in Procs : pc'[r] # "write"
    BY <1>5, <2>2 DEF Unlock, MemTypeOK
  <2>4. Published' = mem
    BY <2>1, <2>3 DEF Published, InSection
  <2>5. Tx[p] = [open |-> TRUE, base |-> base, work |-> mem, left |-> <<>>]
    BY <2>1 DEF Tx
  <2>6. Tx' = [Tx EXCEPT ![p] = Contract!NoTx]
    BY <2>2, <2>3 DEF Tx, Contract!NoTx, Contract!EmptyContents, EmptyContents
  <2> QED
    BY <2>1, <2>2, <2>4, <2>5, <2>6 DEF Contract!Publish, Tx
<1>6. ASSUME NEW p \in Procs, NEW q \in Queries, CallRead(p, q)
      PROVE  Same
  <2>1. \A r \in Procs : pc'[r] = "write" <=> pc[r] = "write"
    BY <1>6 DEF CallRead, MemTypeOK
  <2> QED
    BY <1>6, <2>1 DEF CallRead, Tx, Published, InSection
<1>7. ASSUME NEW p \in Procs, Read(p)
      PROVE  Contract!Read(p, query[p]) /\ query[p] \in Queries
  <2>1. pc[p] = "read" /\ query[p] \in Queries /\ readers # {}
    BY <1>7 DEF Read, MemTypeOK, LockInv
  <2>2. \A r \in Procs : pc[r] # "write"
    BY <2>1 DEF LockInv
  <2>3. \A r \in Procs : pc'[r] # "write"
    BY <1>7, <2>2 DEF Read, MemTypeOK
  <2>4. Published = mem /\ Published' = mem
    BY <1>7, <2>2, <2>3 DEF Published, InSection, Read
  <2>5. Tx' = Tx
    BY <2>2, <2>3 DEF Tx
  <2>6. ret' = [ret EXCEPT ![p] = Contract!Answer(Published, query[p])]
    BY <1>7, <2>4 DEF Read, Answer, Contract!Answer
  <2> QED
    BY <2>1, <2>4, <2>5, <2>6 DEF Contract!Read, Tx
<1>8. ASSUME NEW p \in Procs, Forget(p)
      PROVE  Contract!Forget(p)
  <2>1. \A r \in Procs : pc'[r] = "write" <=> pc[r] = "write"
    BY <1>8 DEF Forget, MemTypeOK
  <2>2. Published' = Published /\ Tx' = Tx
    BY <1>8, <2>1 DEF Forget, Tx, Published, InSection
  <2> QED
    BY <1>8, <2>2 DEF Forget, Contract!Forget, Tx
<1>9. ASSUME UNCHANGED memVars
      PROVE  Same
  BY <1>9 DEF memVars, Tx, Published, InSection
<1>10. ASSUME NEW p \in Procs, Forget(p) \/ Read(p) \/ Enter(p) \/ PutItem(p) \/ Unlock(p)
       PROVE  Contract!StoreNext
  <2>1. Contract!Queries = Queries
    BY DEF Contract!Queries, Queries
  <2>2. CASE Enter(p)
    <3>1. Contract!Begin(p, left[p]) /\ left[p] \in Writes
      BY <2>2, <1>3
    <3>2. \E ms \in Writes : Contract!Begin(p, ms)
      BY <3>1 DEF Contract!Begin
    <3> QED
      BY <3>2 DEF Contract!StoreNext
  <2>3. CASE PutItem(p) \/ Unlock(p) \/ Forget(p)
    BY <2>3, <1>4, <1>5, <1>8 DEF Contract!StoreNext
  <2>4. CASE Read(p)
    BY <2>1, <2>4, <1>7 DEF Contract!StoreNext
  <2> QED
    BY <1>10, <2>2, <2>3, <2>4
<1> QED
  BY <1>0, <1>1, <1>2, <1>6, <1>9, <1>10 DEF MemNext

\* The in-memory store implements the contract of interfaces.Store, for any
\* number of goroutines and any batches: SetMetrics is atomic to every
\* reader and writer, no increment is lost, and a read answers from the
\* published contents (store.go:11-24, memstorage.go:94-120).
THEOREM MemImplements == MemSpec => ImplementsContract
<1>1. MemSpec => Contract!StoreInit
  BY InitMaps DEF MemSpec
<1>2. MemSpec => [][Contract!StoreNext]_(Contract!storeVars)
  BY InvHolds, StepMaps, PTL DEF MemSpec
<1> QED
  BY <1>1, <1>2, PTL DEF ImplementsContract, Contract!StoreSpec
-----------------------------------------------------------------------------
(***************************************************************************)
(* A batch: the library's FoldLeft, by induction over its length.          *)
(***************************************************************************)
LEMMA Induction ==
  ASSUME NEW T, 0 \in T, \A n \in Nat : n \in T => n + 1 \in T
  PROVE  Nat \subseteq T
<1> SUFFICES ASSUME Nat \ T # {} PROVE FALSE
  OBVIOUS
<1>1. PICK x \in Nat \ T : \A y \in Nat \ T : <<y, x>> \notin OpToRel(<, Nat)
  BY NatLessThanWellFounded, WFMin
<1>2. x # 0
  OBVIOUS
<1>3. x - 1 \in Nat /\ x - 1 < x
  BY <1>2
<1>4. x - 1 \in T
  BY <1>1, <1>3 DEF OpToRel
<1> QED
  BY <1>3, <1>4

LEMMA MaxFacts ==
  ASSUME NEW n \in Nat, NEW s \in SUBSET (1 .. n), s # {}
  PROVE  Max(s) \in s /\ \A y \in s : y <= Max(s)
<1> DEFINE T == {k \in Nat : \A r \in SUBSET (1 .. k) : r # {} => \E x \in r : \A y \in r : x >= y}
<1>1. 0 \in T
  <2>1. SUBSET (1 .. 0) = {{}}
    OBVIOUS
  <2> QED
    BY <2>1
<1>2. ASSUME NEW k \in Nat, k \in T PROVE k + 1 \in T
  <2> SUFFICES ASSUME NEW r \in SUBSET (1 .. k + 1), r # {}
               PROVE  \E x \in r : \A y \in r : x >= y
    OBVIOUS
  <2>1. CASE k + 1 \in r
    BY <2>1
  <2>2. CASE k + 1 \notin r
    <3>1. r \in SUBSET (1 .. k)
      BY <2>2
    <3> QED
      BY <1>2, <3>1
  <2> QED
    BY <2>1, <2>2
<1> HIDE DEF T
<1>3. n \in T
  BY <1>1, <1>2, Induction
<1>4. \E x \in s : \A y \in s : x >= y
  BY <1>3 DEF T
<1>5. Max(s) \in s /\ \A y \in s : Max(s) >= y
  BY <1>4 DEF Max
<1> QED
  BY <1>5

\* What FoldLeft chooses its function to satisfy, and that there is one.
Folds(g, st, ms, n) ==
  g = [s \in SUBSET (1 .. n) |-> IF s = {} THEN st ELSE Put(g[s \ {Max(s)}], ms[Max(s)])]

LEMMA FoldExists ==
  ASSUME NEW st \in Contents, NEW ms \in Seq(Metric)
  PROVE  \E g : Folds(g, st, ms, Len(ms))
<1> DEFINE Step(g, s) == IF s = {} THEN st ELSE Put(g[s \ {Max(s)}], ms[Max(s)])
           T == {k \in Nat : \E g : Folds(g, st, ms, k)}
<1>1. 0 \in T
  <2>1. SUBSET (1 .. 0) = {{}}
    OBVIOUS
  <2>2. Folds([s \in SUBSET (1 .. 0) |-> st], st, ms, 0)
    BY <2>1 DEF Folds
  <2> QED
    BY <2>2
<1>2. ASSUME NEW k \in Nat, k \in T PROVE k + 1 \in T
  <2>1. PICK g : Folds(g, st, ms, k)
    BY <1>2
  <2>2. \A s \in SUBSET (1 .. k) : g[s] = Step(g, s)
    BY <2>1 DEF Folds
  <2> DEFINE h == [s \in SUBSET (1 .. k + 1) |->
                     IF k + 1 \in s THEN Put(g[s \ {k + 1}], ms[k + 1]) ELSE g[s]]
  <2>3. ASSUME NEW s \in SUBSET (1 .. k + 1) PROVE h[s] = Step(h, s)
    <3>1. CASE k + 1 \in s
      <4>1. Max(s) = k + 1
        <5>1. k + 1 \in Nat /\ s # {}
          BY <3>1
        <5>2. Max(s) \in s /\ \A y \in s : y <= Max(s)
          BY <5>1, MaxFacts
        <5>3. Max(s) \in 1 .. k + 1 /\ k + 1 <= Max(s)
          BY <3>1, <5>2
        <5> QED
          BY <5>3
      <4>2. s \ {k + 1} \in SUBSET (1 .. k) /\ k + 1 \notin s \ {k + 1}
        OBVIOUS
      <4>3. h[s \ {k + 1}] = g[s \ {k + 1}]
        BY <4>2
      <4> QED
        BY <3>1, <4>1, <4>3
    <3>2. CASE k + 1 \notin s
      <4>1. s \in SUBSET (1 .. k)
        BY <3>2
      <4>2. /\ s \ {Max(s)} \in SUBSET (1 .. k + 1)
            /\ k + 1 \notin s \ {Max(s)}
        BY <3>2
      <4>3. h[s \ {Max(s)}] = g[s \ {Max(s)}]
        BY <4>2
      <4>4. h[s] = g[s]
        BY <3>2
      <4> QED
        BY <2>2, <4>1, <4>3, <4>4
    <3> QED
      BY <3>1, <3>2
  <2>4. Folds(h, st, ms, k + 1)
    <3>1. h = [s \in SUBSET (1 .. k + 1) |-> h[s]]
      OBVIOUS
    <3> HIDE DEF h
    <3>2. h = [s \in SUBSET (1 .. k + 1) |-> Step(h, s)]
      BY <2>3, <3>1
    <3> QED
      BY <3>2 DEF Folds
  <2> QED
    BY <2>4
<1> HIDE DEF T
<1>3. Len(ms) \in T
  BY <1>1, <1>2, Induction, LenProperties
<1> QED
  BY <1>3 DEF T

\* The contents after the first k metrics of a batch.
Upto(st, ms, k) == (CHOOSE g : Folds(g, st, ms, Len(ms)))[1 .. k]

LEMMA UptoFacts ==
  ASSUME NEW st \in Contents, NEW ms \in Seq(Metric)
  PROVE  /\ Upto(st, ms, 0) = st
         /\ \A k \in 0 .. Len(ms) - 1 : Upto(st, ms, k + 1) = Put(Upto(st, ms, k), ms[k + 1])
         /\ FoldLeft(Put, st, ms) = Upto(st, ms, Len(ms))
<1> DEFINE n == Len(ms)
           g == CHOOSE f : Folds(f, st, ms, n)
<1>1. n \in Nat /\ DOMAIN ms = 1 .. n
  BY LenProperties
<1>2. FoldLeft(Put, st, ms) = g[1 .. n]
  BY <1>1 DEF FoldLeft, MapThenFoldSet, Folds
<1>3. Folds(g, st, ms, n)
  BY FoldExists
<1>4. \A k : Upto(st, ms, k) = g[1 .. k]
  BY DEF Upto
<1> HIDE DEF g
<1>5. \A s \in SUBSET (1 .. n) :
        g[s] = IF s = {} THEN st ELSE Put(g[s \ {Max(s)}], ms[Max(s)])
  BY <1>3 DEF Folds
<1>6. g[1 .. 0] = st
  <2>1. 1 .. 0 = {} /\ {} \in SUBSET (1 .. n)
    OBVIOUS
  <2> QED
    BY <1>5, <2>1
<1>7. ASSUME NEW k \in 0 .. n - 1 PROVE g[1 .. k + 1] = Put(g[1 .. k], ms[k + 1])
  <2>1. /\ k \in Nat /\ 1 .. k + 1 \in SUBSET (1 .. n) /\ 1 .. k + 1 # {} /\ k + 1 \in 1 .. n
        /\ (1 .. k + 1) \ {k + 1} = 1 .. k
    BY <1>1
  <2>2. Max(1 .. k + 1) = k + 1
    <3>1. Max(1 .. k + 1) \in 1 .. k + 1 /\ \A y \in 1 .. k + 1 : y <= Max(1 .. k + 1)
      BY <1>1, <2>1, MaxFacts
    <3> QED
      BY <2>1, <3>1
  <2> QED
    BY <1>5, <2>1, <2>2
<1> QED
  BY <1>2, <1>4, <1>6, <1>7
-----------------------------------------------------------------------------
(***************************************************************************)
(* The inductive invariant of the service.                                 *)
(***************************************************************************)
ServiceTypes ==
  /\ stage \in [Procs -> Stages]
  /\ req \in [Procs -> Requests \cup {NoRequest}]
  /\ resp \in [Procs -> Responses \cup {Nil}]
  /\ listed \in [Procs -> Answers \cup {Nil}]
  /\ since \in [Procs -> Nat]
  /\ arrived \in 0 .. MaxRequests

\* The history ends with what is published now.
LogInv ==
  /\ log \in Seq(Contents)
  /\ log # <<>>
  /\ log[Len(log)] = Published
  /\ \A p \in Procs : since[p] \in 1 .. Len(log)

Item(p)    == req[p].items[1]
Waiting(p) == pc[p] \in {"wait", "read"}

\* The handler and the call of the store it makes fit together.
StageInv(p) ==
  /\ stage[p] \in {"idle", "written", "between", "done"} => pc[p] = "idle"
  /\ stage[p] = "writing" => pc[p] \in {"lock", "drain", "write"}
  /\ stage[p] \in {"reading", "first", "second"} => Waiting(p) \/ pc[p] = "answered"
  /\ IF stage[p] = "idle" THEN req[p] = NoRequest ELSE req[p] \in Requests
  /\ IF stage[p] = "done" THEN resp[p] \in Responses ELSE resp[p] = Nil
  /\ IF stage[p] \in {"between", "second"} THEN listed[p] \in Answers ELSE listed[p] = Nil
  /\ stage[p] \in {"writing", "written"} =>
       req[p].op \in {"Update", "UpdateBatch"} /\ Verdict(req[p].items) = "ok"
  /\ stage[p] = "reading" => req[p].op \in {"Update", "Get"} /\ ~BadType(Item(p))
  /\ stage[p] \in {"first", "between", "second"} => req[p].op = "List"

\* No metric ever disappears.
Keeps(from, to) ==
  /\ \A n \in Names : from.counters[n] # Nil => to.counters[n] # Nil
  /\ \A n \in Names : from.gauges[n] # Nil => to.gauges[n] # Nil

\* Inside the critical section the first k metrics of the request are stored,
\* the others are left.
WriteInv(p) ==
  stage[p] = "writing" =>
    /\ pc[p] \in {"lock", "drain"} => left[p] = req[p].items
    /\ pc[p] = "write" =>
         /\ \E k \in 0 .. Len(req[p].items) :
              /\ left[p] = SubSeq(req[p].items, k + 1, Len(req[p].items))
              /\ mem = Upto(base, req[p].items, k)
         /\ Keeps(base, mem)

\* What has been read was published while the request was served.
MetricAnswer(p) ==
  req[p].op \in {"Update", "Get"} =>
    /\ resp[p].err = "ok" =>
         \E i \in During(p) : ValueIn(log[i], resp[p].metric) = ValueOf(resp[p].metric)
    /\ resp[p].err = "ErrNotFound" => \E i \in During(p) : ValueIn(log[i], Item(p)) = Nil

ListAnswer(p) ==
  req[p].op = "List" =>
    \E i \in During(p), j \in During(p) :
      /\ i <= j
      /\ resp[p].lists["gauges"] = log[i].gauges
      /\ resp[p].lists["counters"] = log[j].counters

ReadInv(p) ==
  /\ stage[p] = "reading" =>
       /\ Waiting(p) => query[p] = One(Item(p))
       /\ pc[p] = "answered" => \E i \in During(p) : ret[p] = Answer(log[i], One(Item(p)))
  /\ stage[p] = "first" =>
       /\ Waiting(p) => query[p] = All("gauges")
       /\ pc[p] = "answered" => \E i \in During(p) : ret[p] = log[i].gauges
  /\ stage[p] = "between" => \E i \in During(p) : listed[p] = log[i].gauges
  /\ stage[p] = "second" =>
       /\ Waiting(p) => query[p] = All("counters")
       /\ \E i \in During(p) :
            /\ listed[p] = log[i].gauges
            /\ pc[p] = "answered" => \E j \in i .. Len(log) : ret[p] = log[j].counters
  /\ stage[p] \in {"written", "reading"} /\ req[p].op = "Update" =>
       \A i \in During(p) : ValueIn(log[i], Item(p)) # Nil
  /\ stage[p] = "done" => MetricAnswer(p) /\ ListAnswer(p)

RequestInv(p) == StageInv(p) /\ WriteInv(p) /\ ReadInv(p)

IInv == MemInv /\ ServiceTypes /\ LogInv /\ \A p \in Procs : RequestInv(p)

LEMMA RequestFacts ==
  \A r \in Requests : /\ r.op \in {"Update", "UpdateBatch", "Get", "List"}
                      /\ r.items \in Seq(Metric)
                      /\ r.op \in {"Update", "Get"} => r.items[1] \in Metric /\ Len(r.items) = 1
                      /\ r.op \in {"Update", "UpdateBatch"} => r.items \in Writes
                      /\ r # NoRequest
<1> SUFFICES ASSUME NEW r \in Requests
             PROVE  /\ r.op \in {"Update", "UpdateBatch", "Get", "List"}
                    /\ r.items \in Seq(Metric)
                    /\ r.op \in {"Update", "Get"} => r.items[1] \in Metric /\ Len(r.items) = 1
                    /\ r.op \in {"Update", "UpdateBatch"} => r.items \in Writes
                    /\ r # NoRequest
  OBVIOUS
<1>1. /\ r.op \in {"Update", "UpdateBatch", "Get", "List"}
      /\ r.items \in Seq(Metric)
      /\ r.op \in {"Update", "Get"} => Len(r.items) = 1
      /\ r.op = "Update" => <<r.items[1]>> \in Writes
      /\ r.op = "UpdateBatch" => r.items \in Writes
  BY ServiceAssumption
<1>2. ASSUME Len(r.items) = 1 PROVE r.items[1] \in Metric /\ r.items = <<r.items[1]>>
  <2>1. r.items[1] \in Metric
    BY <1>1, <1>2, ElementOfSeq
  <2>2. DOMAIN r.items = {1}
    BY <1>1, <1>2, LenProperties
  <2> QED
    BY <1>1, <1>2, <2>1, <2>2, SeqEqual
<1>3. r # NoRequest
  BY <1>1 DEF NoRequest
<1> QED
  BY <1>1, <1>2, <1>3

LEMMA QueryFacts ==
  /\ \A m \in Metric : One(m) \in Queries
  /\ All("gauges") \in Queries /\ All("counters") \in Queries
  /\ ListOrder[1] = "gauges" /\ ListOrder[2] = "counters"
BY DEF One, All, Queries, Metric, ListOrder

\* The answer to a question about all names, and the value of one metric.
LEMMA AnswerFacts ==
  \A st \in Contents : /\ Answer(st, All("gauges")) = st.gauges
                       /\ Answer(st, All("counters")) = st.counters
BY DEF Contents, Answer, All

LEMMA ValueFacts ==
  \A st \in Contents : \A m \in Metric :
    /\ m.mtype = "counter" => ValueIn(st, m) = st.counters[m.id]
    /\ m.mtype # "counter" => ValueIn(st, m) = st.gauges[m.id]
<1> SUFFICES ASSUME NEW st \in Contents, NEW m \in Metric
             PROVE  /\ m.mtype = "counter" => ValueIn(st, m) = st.counters[m.id]
                    /\ m.mtype # "counter" => ValueIn(st, m) = st.gauges[m.id]
  OBVIOUS
<1> QED
  BY DEF ValueIn, Answer, One

\* Storing a metric keeps the others, and a valid one is there afterwards.
LEMMA PutKeeps ==
  ASSUME NEW st \in Contents, NEW m \in Metric
  PROVE  /\ Keeps(st, Put(st, m))
         /\ ~BadType(m) /\ ~BadValue(m) => ValueIn(Put(st, m), m) # Nil
<1>1. /\ m.id \in Names
      /\ m.mtype \in {"gauge", "counter", "other"}
      /\ st.counters \in [Names -> Int64 \cup {Nil}]
      /\ st.gauges \in [Names -> GaugeValues \cup {Nil}]
      /\ m.delta \in Int64 \cup {Nil}
      /\ m.value \in GaugeValues \cup {Nil}
      /\ Nil \notin Int64
  BY MetricsAssumption DEF Contents, Metric, Int64
<1>2. Put(st, m) \in Contents
  BY PutType
<1>a. /\ m.mtype = "counter" => ValueIn(Put(st, m), m) = Put(st, m).counters[m.id]
      /\ m.mtype # "counter" => ValueIn(Put(st, m), m) = Put(st, m).gauges[m.id]
  BY <1>2, ValueFacts
<1>3. CASE m.mtype = "counter" /\ m.delta # Nil
  <2>1. Put(st, m) = [st EXCEPT !.counters[m.id] = Wrap(OrZero(@) + m.delta)]
    BY <1>3 DEF Put
  <2>2. Put(st, m).counters[m.id] \in Int64
    <3>1. m.delta \in Int /\ OrZero(st.counters[m.id]) \in Int
      BY <1>1, <1>3, MetricsAssumption DEF OrZero, Int64
    <3>2. Wrap(OrZero(st.counters[m.id]) + m.delta) \in Int64
      BY <3>1, WrapType
    <3> QED
      BY <1>1, <2>1, <3>2 DEF Contents
  <2>3. /\ \A n \in Names \ {m.id} : Put(st, m).counters[n] = st.counters[n]
        /\ Put(st, m).gauges = st.gauges
    BY <1>1, <2>1 DEF Contents
  <2>4. Keeps(st, Put(st, m))
    BY <1>1, <2>2, <2>3 DEF Keeps
  <2>5. ValueIn(Put(st, m), m) # Nil
    <3>1. ValueIn(Put(st, m), m) = Put(st, m).counters[m.id]
      BY <1>a, <1>3
    <3> QED
      BY <1>1, <2>2, <3>1
  <2> QED
    BY <2>4, <2>5
<1>4. CASE m.mtype = "gauge" /\ m.value # Nil
  <2>1. Put(st, m) = [st EXCEPT !.gauges[m.id] = m.value]
    BY <1>4 DEF Put
  <2>2. /\ \A n \in Names : Put(st, m).gauges[n] = IF n = m.id THEN m.value ELSE st.gauges[n]
        /\ Put(st, m).counters = st.counters
    BY <1>1, <2>1 DEF Contents
  <2>3. Keeps(st, Put(st, m))
    BY <1>1, <1>4, <2>2 DEF Keeps
  <2>4. ValueIn(Put(st, m), m) # Nil
    <3>1. ValueIn(Put(st, m), m) = Put(st, m).gauges[m.id]
      BY <1>a, <1>4
    <3> QED
      BY <1>1, <1>4, <2>2, <3>1
  <2> QED
    BY <2>3, <2>4
<1>5. CASE ~(m.mtype = "counter" /\ m.delta # Nil) /\ ~(m.mtype = "gauge" /\ m.value # Nil)
  <2>1. Put(st, m) = st
    BY <1>5 DEF Put
  <2>2. BadType(m) \/ BadValue(m)
    BY <1>1, <1>5 DEF BadType, BadValue
  <2> QED
    BY <2>1, <2>2 DEF Keeps
<1> QED
  BY <1>3, <1>4, <1>5

\* The verdict on a request looks at each of its metrics.
LEMMA VerdictFacts ==
  ASSUME NEW items \in Seq(Metric)
  PROVE  /\ Verdict(items) \in {"ok", "ErrInvalidType", "ErrBadValue"}
         /\ Verdict(items) = "ok" => \A i \in 1 .. Len(items) : ~BadType(items[i]) /\ ~BadValue(items[i])
BY LenProperties DEF Verdict
-----------------------------------------------------------------------------
(***************************************************************************)
(* The service uses the store as any goroutine may.                        *)
(***************************************************************************)
LEMMA IsMemStep ==
  ASSUME IInv, ServiceNext
  PROVE  [MemNext]_memVars
<1>0. /\ \A p \in Procs : StageInv(p)
      /\ ServiceTypes
  BY DEF IInv, RequestInv
<1>1. ASSUME NEW p \in Procs, NEW r \in Requests, ArriveWrite(p, r) PROVE [MemNext]_memVars
  <2>1. CallWrite(p, r.items) \/ UNCHANGED memVars
    BY <1>1 DEF ArriveWrite
  <2>2. r.items \in Writes
    BY <1>1, RequestFacts DEF ArriveWrite
  <2> QED
    BY <2>1, <2>2 DEF MemNext
<1>2. ASSUME NEW p \in Procs, NEW r \in Requests, ArriveGet(p, r) PROVE [MemNext]_memVars
  <2>1. CallRead(p, One(r.items[1])) \/ UNCHANGED memVars
    BY <1>2 DEF ArriveGet
  <2>2. One(r.items[1]) \in Queries
    BY <1>2, RequestFacts, QueryFacts DEF ArriveGet
  <2> QED
    BY <2>1, <2>2 DEF MemNext
<1>3. ASSUME NEW p \in Procs, NEW r \in Requests, ArriveList(p, r) PROVE [MemNext]_memVars
  BY <1>3, QueryFacts DEF ArriveList, MemNext
<1>4. ASSUME NEW p \in Procs, StoreStep(p) PROVE [MemNext]_memVars
  BY <1>4 DEF StoreStep, Proceed, MemNext
<1>5. ASSUME NEW p \in Procs, ReadBack(p) PROVE [MemNext]_memVars
  <2>1. req[p] \in Requests /\ req[p].op = "Update"
    BY <1>0, <1>5 DEF ReadBack, StageInv
  <2>2. One(req[p].items[1]) \in Queries
    BY <2>1, RequestFacts, QueryFacts
  <2> QED
    BY <1>5, <2>2 DEF ReadBack, MemNext
<1>6. ASSUME NEW p \in Procs, ListSecond(p) PROVE [MemNext]_memVars
  BY <1>6, QueryFacts DEF ListSecond, MemNext
<1>7. ASSUME NEW p \in Procs, MetricRead(p) \/ FirstRead(p) \/ SecondRead(p) PROVE [MemNext]_memVars
  BY <1>7 DEF MetricRead, FirstRead, SecondRead, MemNext
<1>8. ASSUME NEW p \in Procs, BatchDone(p) \/ Sent(p) PROVE [MemNext]_memVars
  BY <1>8 DEF BatchDone, Sent
<1>9. CASE Quiet
  BY <1>9 DEF Quiet, vars
<1> QED
  BY <1>1, <1>2, <1>3, <1>4, <1>5, <1>6, <1>7, <1>8, <1>9 DEF ServiceNext
-----------------------------------------------------------------------------
(***************************************************************************)
(* What is published, and the history of it.                               *)
(***************************************************************************)
\* What the steps of a call do to the published contents: only Unlock changes
\* them.
LEMMA PublishedStays ==
  ASSUME MemInv, NEW p \in Procs,
         \/ \E ms : CallWrite(p, ms)
         \/ \E q : CallRead(p, q)
         \/ Announce(p) \/ Enter(p) \/ PutItem(p) \/ Read(p) \/ Forget(p)
  PROVE  Published' = Published
<1> USE DEF MemInv
<1>1. CASE Enter(p)
  <2>1. \A r \in Procs : pc[r] # "write"
    BY <1>1 DEF Enter, LockInv
  <2> QED
    BY <1>1, <2>1 DEF Enter, Published, InSection
<1>2. CASE PutItem(p)
  BY <1>2 DEF PutItem, Published, InSection
<1>3. CASE \/ \E ms : CallWrite(p, ms)
           \/ \E q : CallRead(p, q)
           \/ Announce(p) \/ Read(p) \/ Forget(p)
  <2>1. /\ \A r \in Procs : pc'[r] = "write" <=> pc[r] = "write"
        /\ UNCHANGED <<mem, base>>
    BY <1>3 DEF CallWrite, CallRead, Announce, Read, Forget, MemTypeOK
  <2> QED
    BY <2>1 DEF Published, InSection
<1> QED
  BY <1>1, <1>2, <1>3

LEMMA UnlockPublishes ==
  ASSUME MemInv, NEW p \in Procs, Unlock(p)
  PROVE  Published = base /\ Published' = mem
<1>1. pc[p] = "write" /\ mem' = mem
  BY DEF Unlock
<1>2. \A r \in Procs : pc[r] = "write" => r = p
  BY <1>1, OneWriter DEF MemInv
<1>3. \A r \in Procs : pc'[r] # "write"
  BY <1>2 DEF Unlock, MemInv, MemTypeOK
<1> QED
  BY <1>1, <1>3 DEF Published, InSection

\* The log only grows, by contents that keep every metric.
Longer ==
  /\ Len(log) \in Nat /\ Len(log') \in Nat /\ Len(log) <= Len(log')
  /\ \A i \in 1 .. Len(log) : log'[i] = log[i]
  /\ \A i \in 1 .. Len(log') : i \in 1 .. Len(log) \/ Keeps(log[Len(log)], log'[i])

LEMMA LogStep ==
  ASSUME IInv, ServiceNext, MemInv'
  PROVE  LogInv' /\ Longer
<1> USE DEF histVars, serviceVars
<1>0. /\ MemInv /\ ServiceTypes /\ LogInv
      /\ \A p \in Procs : StageInv(p) /\ WriteInv(p)
  BY DEF IInv, RequestInv
<1>1. log \in Seq(Contents) /\ log # <<>> /\ Len(log) \in Nat /\ Len(log) > 0
  BY <1>0, LenProperties, EmptySeq DEF LogInv
<1>2. Published' \in Contents
  BY DEF MemInv, MemTypeOK, Published
\* When nothing is published.
<1>a. ASSUME Published' = Published, log' = log,
             \/ since' = since
             \/ \E p \in Procs : since' = [since EXCEPT ![p] = Len(log)]
      PROVE  LogInv' /\ Longer
  <2>1. \A p \in Procs : since'[p] \in 1 .. Len(log)
    BY <1>a, <1>0, <1>1 DEF LogInv, ServiceTypes
  <2>2. LogInv'
    BY <1>a, <1>0, <2>1 DEF LogInv
  <2>3. Longer
    BY <1>a, <1>1 DEF Longer
  <2> QED
    BY <2>2, <2>3
<1>3. ASSUME NEW p \in Procs, NEW r \in Requests,
             ArriveWrite(p, r) \/ ArriveGet(p, r) \/ ArriveList(p, r)
      PROVE  LogInv' /\ Longer
  <2>1. log' = log /\ since' = [since EXCEPT ![p] = Len(log)]
    BY <1>3 DEF ArriveWrite, ArriveGet, ArriveList, Arrive
  <2>2. \/ \E ms : CallWrite(p, ms)
        \/ \E q : CallRead(p, q)
        \/ UNCHANGED memVars
    BY <1>3 DEF ArriveWrite, ArriveGet, ArriveList
  <2>3. Published' = Published
    BY <1>0, <2>2, PublishedStays DEF memVars, Published, InSection
  <2> QED
    BY <1>a, <2>1, <2>3
<1>4. ASSUME NEW p \in Procs, StoreStep(p) PROVE LogInv' /\ Longer
  <2>1. CASE ~Unlock(p)
    <3>1. Published' = Published
      BY <1>0, <1>4, <2>1, PublishedStays DEF StoreStep, Proceed
    <3>2. ~(pc[p] = "write" /\ pc'[p] = "idle")
      BY <1>0, <1>4, <2>1 DEF StoreStep, Proceed, Announce, Enter, PutItem, Read, MemInv, MemTypeOK
    <3>3. log' = log /\ since' = since
      BY <1>4, <3>1, <3>2 DEF StoreStep, Logged
    <3> QED
      BY <1>a, <3>1, <3>3
  <2>2. CASE Unlock(p)
    <3>1. Published = base /\ Published' = mem
      BY <1>0, <2>2, UnlockPublishes
    <3>2. Keeps(base, mem)
      <4>1. pc[p] = "write"
        BY <2>2 DEF Unlock
      <4>2. stage[p] = "writing"
        BY <1>0, <4>1 DEF StageInv, Waiting, ServiceTypes, Stages
      <4> QED
        BY <1>0, <4>1, <4>2 DEF WriteInv
    <3>3. CASE Published' = Published
      <4>1. log' = log
        BY <1>4, <3>3 DEF StoreStep, Logged
      <4>2. since' = since \/ since' = [since EXCEPT ![p] = Len(log)]
        BY <1>4, <4>1 DEF StoreStep
      <4> QED
        BY <1>a, <3>3, <4>1, <4>2
    <3>4. CASE Published' # Published
      <4>1. log' = Append(log, Published')
        BY <1>4, <3>4 DEF StoreStep, Logged
      <4>2. /\ log' \in Seq(Contents) /\ Len(log') = Len(log) + 1 /\ log'[Len(log) + 1] = Published'
            /\ \A i \in 1 .. Len(log) : log'[i] = log[i]
        BY <1>1, <1>2, <4>1, AppendProperties
      <4>3. log' # <<>>
        BY <1>1, <4>2, EmptySeq, LenProperties
      <4>4. since' = since \/ since' = [since EXCEPT ![p] = Len(log')]
        BY <1>4 DEF StoreStep
      <4>5. \A r \in Procs : since'[r] \in 1 .. Len(log')
        <5>1. \A r \in Procs : since'[r] = since[r] \/ since'[r] = Len(log')
          BY <1>0, <4>4 DEF ServiceTypes
        <5>2. \A r \in Procs : since[r] \in 1 .. Len(log)
          BY <1>0 DEF LogInv
        <5>3. \A n \in Nat : n > 0 => n + 1 \in 1 .. n + 1 /\ \A k \in 1 .. n : k \in 1 .. n + 1
          OBVIOUS
        <5> QED
          BY <1>1, <4>2, <5>1, <5>2, <5>3
      <4>6. LogInv'
        BY <4>2, <4>3, <4>5 DEF LogInv
      <4>7. log[Len(log)] = base /\ log'[Len(log')] = mem
        BY <1>0, <3>1, <4>2 DEF LogInv
      <4>8. \A n \in Nat : \A i \in 1 .. n + 1 : i \in 1 .. n \/ i = n + 1
        OBVIOUS
      <4>9. \A i \in 1 .. Len(log') : i \in 1 .. Len(log) \/ Keeps(log[Len(log)], log'[i])
        BY <1>1, <3>2, <4>2, <4>7, <4>8
      <4>10. Len(log') \in Nat /\ Len(log) <= Len(log')
        BY <1>1, <4>2
      <4> QED
        BY <1>1, <4>2, <4>6, <4>9, <4>10 DEF Longer
    <3> QED
      BY <3>3, <3>4
  <2> QED
    BY <2>1, <2>2
<1>5. ASSUME NEW p \in Procs,
             ReadBack(p) \/ MetricRead(p) \/ FirstRead(p) \/ ListSecond(p) \/ SecondRead(p)
      PROVE  LogInv' /\ Longer
  <2>1. log' = log /\ since' = since
    BY <1>5 DEF ReadBack, MetricRead, FirstRead, ListSecond, SecondRead
  <2>2. (\E q : CallRead(p, q)) \/ Forget(p)
    BY <1>5 DEF ReadBack, MetricRead, FirstRead, ListSecond, SecondRead
  <2>3. Published' = Published
    BY <1>0, <2>2, PublishedStays
  <2> QED
    BY <1>a, <2>1, <2>3
<1>6. ASSUME NEW p \in Procs, BatchDone(p) \/ Sent(p) PROVE LogInv' /\ Longer
  BY <1>6, <1>a DEF BatchDone, Sent, memVars, Published, InSection
<1>7. CASE Quiet
  BY <1>7, <1>a DEF Quiet, vars, memVars, Published, InSection
<1> QED
  BY <1>3, <1>4, <1>5, <1>6, <1>7 DEF ServiceNext
-----------------------------------------------------------------------------
(***************************************************************************)
(* A request that is not the one that moves.                               *)
(***************************************************************************)
Untouched(r) ==
  /\ stage'[r] = stage[r] /\ req'[r] = req[r] /\ resp'[r] = resp[r] /\ listed'[r] = listed[r]
  /\ since'[r] = since[r]
  /\ left'[r] = left[r] /\ query'[r] = query[r] /\ ret'[r] = ret[r]
  /\ pc'[r] = pc[r] \/ (pc[r] = "wait" /\ pc'[r] = "read")
  /\ pc[r] = "write" => mem' = mem /\ base' = base

\* The moments of a request stay, and later ones keep every metric.
LEMMA MomentsStay ==
  ASSUME IInv, LogInv', Longer, NEW r \in Procs, since'[r] = since[r]
  PROVE  /\ \A i \in During(r) : i \in During(r)' /\ log'[i] = log[i]
         /\ \A i \in During(r)' : i \in During(r) \/ Keeps(log[Len(log)], log'[i])
         /\ \A i \in During(r) : i \in 1 .. Len(log) /\ log[i] \in Contents
         /\ \A i \in During(r)' : log'[i] \in Contents
         /\ Len(log) \in During(r) /\ Len(log') \in During(r)'
<1>1. /\ log \in Seq(Contents) /\ since[r] \in 1 .. Len(log)
      /\ log' \in Seq(Contents) /\ since'[r] \in 1 .. Len(log')
  BY DEF IInv, LogInv
<1>2. Len(log) \in Nat /\ Len(log') \in Nat /\ Len(log) <= Len(log')
  BY DEF Longer
<1>3. /\ \A m, n \in Nat : \A s \in 1 .. m : \A i \in s .. m :
           i \in 1 .. m /\ (m <= n => i \in s .. n)
      /\ \A m \in Nat : \A s \in 1 .. m : m \in s .. m
      /\ \A m, n \in Nat : \A s \in 1 .. m : \A i \in s .. n : i \in 1 .. m => i \in s .. m
      /\ \A n \in Nat : \A s \in 1 .. n : \A i \in s .. n : i \in 1 .. n
  OBVIOUS
<1>4. /\ \A i \in 1 .. Len(log) : log[i] \in Contents
      /\ \A i \in 1 .. Len(log') : log'[i] \in Contents
  BY <1>1, ElementOfSeq
<1>5. \A i \in During(r) : i \in During(r)' /\ i \in 1 .. Len(log)
  BY <1>1, <1>2, <1>3 DEF During
<1>6. \A i \in During(r)' : i \in 1 .. Len(log')
  BY <1>1, <1>2, <1>3 DEF During
<1>7. \A i \in During(r)' : i \in 1 .. Len(log) => i \in During(r)
  BY <1>1, <1>2, <1>3 DEF During
<1>8. Len(log) \in During(r) /\ Len(log') \in During(r)'
  BY <1>1, <1>2, <1>3 DEF During
<1> QED
  BY <1>4, <1>5, <1>6, <1>7, <1>8 DEF Longer

LEMMA UntouchedKeeps ==
  ASSUME IInv, LogInv', Longer, NEW r \in Procs, Untouched(r)
  PROVE  RequestInv(r)'
<1>0. StageInv(r) /\ WriteInv(r) /\ ReadInv(r)
  BY DEF IInv, RequestInv
<1>1. StageInv(r)'
  BY <1>0 DEF StageInv, Untouched, Waiting, Item
<1>2. WriteInv(r)'
  BY <1>0 DEF WriteInv, Untouched
<1>3. /\ \A i \in During(r) : i \in During(r)' /\ log'[i] = log[i]
      /\ \A i \in During(r)' : i \in During(r) \/ Keeps(log[Len(log)], log'[i])
      /\ \A i \in During(r) : i \in 1 .. Len(log) /\ log[i] \in Contents
      /\ \A i \in During(r)' : log'[i] \in Contents
      /\ Len(log) \in During(r)
  BY MomentsStay DEF Untouched
<1>4. ReadInv(r)'
  <2>1. /\ stage'[r] = stage[r] /\ req'[r] = req[r] /\ resp'[r] = resp[r] /\ listed'[r] = listed[r]
        /\ query'[r] = query[r] /\ ret'[r] = ret[r] /\ Item(r)' = Item(r)
        /\ Waiting(r)' => Waiting(r)
        /\ pc'[r] = "answered" => pc[r] = "answered"
    BY DEF Untouched, Waiting, Item
  <2>2. stage[r] = "reading" =>
          /\ Waiting(r)' => query'[r] = One(Item(r))
          /\ pc'[r] = "answered" => \E i \in During(r)' : ret'[r] = Answer(log'[i], One(Item(r)))
    BY <1>0, <1>3, <2>1 DEF ReadInv
  <2>3. stage[r] = "first" =>
          /\ Waiting(r)' => query'[r] = All("gauges")
          /\ pc'[r] = "answered" => \E i \in During(r)' : ret'[r] = log'[i].gauges
    BY <1>0, <1>3, <2>1 DEF ReadInv
  <2>4. stage[r] = "between" => \E i \in During(r)' : listed[r] = log'[i].gauges
    BY <1>0, <1>3 DEF ReadInv
  <2>5. stage[r] = "second" =>
          /\ Waiting(r)' => query'[r] = All("counters")
          /\ \E i \in During(r)' :
               /\ listed[r] = log'[i].gauges
               /\ pc'[r] = "answered" => \E j \in i .. Len(log') : ret'[r] = log'[j].counters
    <3> SUFFICES ASSUME stage[r] = "second"
                 PROVE  \E i \in During(r)' :
                          /\ listed[r] = log'[i].gauges
                          /\ pc'[r] = "answered" => \E j \in i .. Len(log') : ret'[r] = log'[j].counters
      BY <1>0, <2>1 DEF ReadInv
    <3>1. PICK i \in During(r) : /\ listed[r] = log[i].gauges
                                 /\ pc[r] = "answered" => \E j \in i .. Len(log) : ret[r] = log[j].counters
      BY <1>0 DEF ReadInv
    <3>2. i \in During(r)' /\ i \in 1 .. Len(log) /\ log'[i] = log[i]
      BY <1>3, <3>1
    <3>3. \A j \in i .. Len(log) : j \in 1 .. Len(log) /\ j \in i .. Len(log')
      <4>1. \A m, n \in Nat : \A k \in 1 .. m : \A j \in k .. m : j \in 1 .. m /\ (m <= n => j \in k .. n)
        OBVIOUS
      <4> QED
        BY <3>2, <4>1 DEF Longer
    <3>4. \A j \in i .. Len(log) : log'[j] = log[j]
      BY <3>3 DEF Longer
    <3> QED
      BY <2>1, <3>1, <3>2, <3>3, <3>4
  <2>6. stage[r] \in {"written", "reading"} /\ req[r].op = "Update" =>
          \A i \in During(r)' : ValueIn(log'[i], Item(r)) # Nil
    <3> SUFFICES ASSUME stage[r] \in {"written", "reading"}, req[r].op = "Update",
                        NEW i \in During(r)'
                 PROVE  ValueIn(log'[i], Item(r)) # Nil
      OBVIOUS
    <3>1. \A j \in During(r) : ValueIn(log[j], Item(r)) # Nil
      BY <1>0 DEF ReadInv
    <3>2. CASE i \in During(r)
      BY <1>3, <3>1, <3>2
    <3>3. CASE Keeps(log[Len(log)], log'[i])
      <4>1. Item(r) \in Metric
        BY <1>0, RequestFacts DEF StageInv, Item
      <4>2. ValueIn(log[Len(log)], Item(r)) # Nil
        BY <1>3, <3>1
      <4>3. Item(r).id \in Names
        BY <4>1 DEF Metric
      <4> QED
        BY <1>3, <3>3, <4>1, <4>2, <4>3, ValueFacts DEF Keeps
    <3> QED
      BY <1>3, <3>2, <3>3
  <2>7. stage[r] = "done" => MetricAnswer(r)' /\ ListAnswer(r)'
    <3>1. stage[r] = "done" => MetricAnswer(r)'
      BY <1>0, <1>3, <2>1 DEF ReadInv, MetricAnswer
    <3>2. stage[r] = "done" => ListAnswer(r)'
      BY <1>0, <1>3, <2>1 DEF ReadInv, ListAnswer
    <3> QED
      BY <3>1, <3>2
  <2> QED
    BY <2>1, <2>2, <2>3, <2>4, <2>5, <2>6, <2>7 DEF ReadInv
<1> QED
  BY <1>1, <1>2, <1>4 DEF RequestInv

\* The calls of one goroutine leave the others' alone, but for the readers
\* that an Unlock lets in.
LEMMA CallTouchesOne ==
  ASSUME MemInv, NEW p \in Procs, NEW r \in Procs, r # p,
         \/ \E ms : CallWrite(p, ms)
         \/ \E q : CallRead(p, q)
         \/ Proceed(p) \/ Forget(p) \/ UNCHANGED memVars
  PROVE  /\ left'[r] = left[r] /\ query'[r] = query[r] /\ ret'[r] = ret[r]
         /\ pc'[r] = pc[r] \/ (pc[r] = "wait" /\ pc'[r] = "read")
         /\ pc[r] = "write" => mem' = mem /\ base' = base
<1> USE DEF MemInv, MemTypeOK
<1>1. CASE Enter(p) \/ PutItem(p)
  <2>1. pc[r] # "write"
    BY <1>1 DEF Enter, PutItem, LockInv
  <2> QED
    BY <1>1, <2>1 DEF Enter, PutItem
<1>2. CASE Unlock(p)
  BY <1>2 DEF Unlock, LockInv
<1>3. CASE \/ \E ms : CallWrite(p, ms)
           \/ \E q : CallRead(p, q)
           \/ Announce(p) \/ Read(p) \/ Forget(p) \/ UNCHANGED memVars
  BY <1>3 DEF CallWrite, CallRead, Announce, Read, Forget, memVars
<1> QED
  BY <1>1, <1>2, <1>3 DEF Proceed

\* What one goroutine does in a step of the service.
Acts(p) ==
  \/ \E r \in Requests : ArriveWrite(p, r) \/ ArriveGet(p, r) \/ ArriveList(p, r)
  \/ StoreStep(p) \/ BatchDone(p) \/ ReadBack(p) \/ MetricRead(p) \/ FirstRead(p)
  \/ ListSecond(p) \/ SecondRead(p) \/ Sent(p)

LEMMA ActsTouchesOne ==
  ASSUME IInv, NEW p \in Procs, Acts(p), NEW r \in Procs, r # p
  PROVE  Untouched(r)
<1>0. MemInv /\ ServiceTypes
  BY DEF IInv
<1>1. \/ \E ms : CallWrite(p, ms)
      \/ \E q : CallRead(p, q)
      \/ Proceed(p) \/ Forget(p) \/ UNCHANGED memVars
  BY DEF Acts, ArriveWrite, ArriveGet, ArriveList, StoreStep, BatchDone, ReadBack, MetricRead,
         FirstRead, ListSecond, SecondRead, Sent
<1>2. /\ stage'[r] = stage[r] /\ req'[r] = req[r] /\ resp'[r] = resp[r] /\ listed'[r] = listed[r]
      /\ since'[r] = since[r]
  BY <1>0 DEF Acts, Arrive, Respond, ArriveWrite, ArriveGet, ArriveList, StoreStep, BatchDone, ReadBack,
              MetricRead, FirstRead, ListSecond, SecondRead, Sent, ServiceTypes, histVars
<1> QED
  BY <1>0, <1>1, <1>2, CallTouchesOne DEF Untouched
-----------------------------------------------------------------------------
(***************************************************************************)
(* The request that moves, action by action.                               *)
(***************************************************************************)
\* The answers the service gives are answers.
LEMMA ResponseFacts ==
  /\ \A e \in {"ok", "ErrInvalidType", "ErrBadValue", "ErrNotFound"} :
       Failed(e) \in Responses /\ Failed(e).err = e
  /\ \A m \in Metric : /\ OkMetric(m) \in Responses
                       /\ OkMetric(m).err = "ok" /\ OkMetric(m).metric = m
  /\ \A f, s \in Answers : /\ OkList(f, s) \in Responses
                           /\ OkList(f, s).lists["gauges"] = f
                           /\ OkList(f, s).lists["counters"] = s
<1>1. \A e \in {"ok", "ErrInvalidType", "ErrBadValue", "ErrNotFound"} :
        Failed(e) \in Responses /\ Failed(e).err = e
  BY DEF Failed, Responses
<1>2. \A m \in Metric : /\ OkMetric(m) \in Responses
                        /\ OkMetric(m).err = "ok" /\ OkMetric(m).metric = m
  BY DEF OkMetric, Ok, Failed, Responses
<1>3. ASSUME NEW f \in Answers, NEW s \in Answers
      PROVE  /\ OkList(f, s) \in Responses
             /\ OkList(f, s).lists["gauges"] = f
             /\ OkList(f, s).lists["counters"] = s
  <2> DEFINE both == [map \in {"gauges", "counters"} |-> IF map = ListOrder[1] THEN f ELSE s]
  <2>1. /\ both \in [{"gauges", "counters"} -> Answers]
        /\ both["gauges"] = f /\ both["counters"] = s
    BY QueryFacts
  <2>2. OkList(f, s) = [err |-> "ok", metric |-> Nil, lists |-> both]
    BY DEF OkList, Ok, Failed
  <2> HIDE DEF both
  <2> QED
    BY <2>1, <2>2 DEF Responses
<1> QED
  BY <1>1, <1>2, <1>3

LEMMA WriteArrives ==
  ASSUME IInv, NEW p \in Procs, NEW r \in Requests, ArriveWrite(p, r)
  PROVE  RequestInv(p)'
<1>0. /\ MemInv /\ ServiceTypes /\ StageInv(p)
      /\ r.items \in Seq(Metric)
  BY RequestFacts DEF IInv, RequestInv
<1>1. /\ stage[p] = "idle" /\ pc[p] = "idle" /\ listed[p] = Nil /\ resp[p] = Nil
      /\ req'[p] = r /\ listed'[p] = Nil /\ r.op \in {"Update", "UpdateBatch"}
  BY <1>0 DEF ArriveWrite, Arrive, StageInv, ServiceTypes
<1>2. CASE Verdict(r.items) = "ok"
  <2>1. /\ stage'[p] = "writing" /\ pc'[p] = "lock" /\ left'[p] = r.items /\ resp'[p] = Nil
    BY <1>0, <1>1, <1>2 DEF ArriveWrite, CallWrite, ServiceTypes, MemInv, MemTypeOK
  <2>2. StageInv(p)'
    BY <1>1, <1>2, <2>1 DEF StageInv
  <2>3. WriteInv(p)'
    BY <1>1, <2>1 DEF WriteInv
  <2>4. ReadInv(p)'
    BY <2>1 DEF ReadInv
  <2> QED
    BY <2>2, <2>3, <2>4 DEF RequestInv
<1>3. CASE Verdict(r.items) # "ok"
  <2>1. /\ stage'[p] = "done" /\ pc'[p] = "idle" /\ resp'[p] = Failed(Verdict(r.items))
    BY <1>0, <1>1, <1>3 DEF ArriveWrite, Respond, ServiceTypes, memVars
  <2>2. /\ resp'[p] \in Responses
        /\ resp'[p].err \notin {"ok", "ErrNotFound"}
    BY <1>0, <1>3, <2>1, VerdictFacts, ResponseFacts
  <2>3. StageInv(p)'
    BY <1>1, <2>1, <2>2 DEF StageInv
  <2>4. WriteInv(p)'
    BY <2>1 DEF WriteInv
  <2>5. ReadInv(p)'
    BY <1>1, <2>1, <2>2 DEF ReadInv, MetricAnswer, ListAnswer
  <2> QED
    BY <2>3, <2>4, <2>5 DEF RequestInv
<1> QED
  BY <1>2, <1>3

\* A goroutine that calls a read method waits or reads.
LEMMA CallReadFacts ==
  ASSUME MemInv, NEW p \in Procs, NEW q, CallRead(p, q)
  PROVE  /\ pc[p] = "idle" /\ pc'[p] \in {"read", "wait"} /\ query'[p] = q /\ ret' = ret
         /\ Waiting(p)'
<1> QED
  BY DEF CallRead, MemInv, MemTypeOK, Waiting

LEMMA ReadArrives ==
  ASSUME IInv, NEW p \in Procs, NEW r \in Requests, ArriveGet(p, r) \/ ArriveList(p, r)
  PROVE  RequestInv(p)'
<1>0. MemInv /\ ServiceTypes /\ StageInv(p)
  BY DEF IInv, RequestInv
<1>1. /\ stage[p] = "idle" /\ pc[p] = "idle" /\ listed[p] = Nil /\ resp[p] = Nil
      /\ req'[p] = r /\ listed'[p] = Nil
  BY <1>0 DEF ArriveGet, ArriveList, Arrive, StageInv, ServiceTypes
<1>2. CASE ArriveGet(p, r) /\ BadType(r.items[1])
  <2>1. /\ stage'[p] = "done" /\ pc'[p] = "idle" /\ resp'[p] = Failed("ErrInvalidType")
        /\ r.op = "Get"
    BY <1>0, <1>1, <1>2 DEF ArriveGet, Respond, ServiceTypes, memVars
  <2>2. /\ resp'[p] \in Responses
        /\ resp'[p].err \notin {"ok", "ErrNotFound"}
    BY <2>1, ResponseFacts
  <2>3. StageInv(p)'
    BY <1>1, <2>1, <2>2 DEF StageInv
  <2>4. WriteInv(p)'
    BY <2>1 DEF WriteInv
  <2>5. ReadInv(p)'
    BY <1>1, <2>1, <2>2 DEF ReadInv, MetricAnswer, ListAnswer
  <2> QED
    BY <2>3, <2>4, <2>5 DEF RequestInv
<1>3. CASE ArriveGet(p, r) /\ ~BadType(r.items[1])
  <2>1. /\ stage'[p] = "reading" /\ CallRead(p, One(r.items[1])) /\ resp'[p] = Nil
        /\ r.op = "Get"
    BY <1>0, <1>1, <1>3 DEF ArriveGet, ServiceTypes
  <2>2. pc'[p] \in {"read", "wait"} /\ query'[p] = One(r.items[1]) /\ Waiting(p)'
    BY <1>0, <2>1, CallReadFacts
  <2>3. Item(p)' = r.items[1]
    BY <1>1 DEF Item
  <2>4. StageInv(p)'
    BY <1>1, <1>3, <2>1, <2>2, <2>3 DEF StageInv
  <2>5. WriteInv(p)'
    BY <2>1 DEF WriteInv
  <2>6. ReadInv(p)'
    BY <1>1, <2>1, <2>2, <2>3 DEF ReadInv
  <2> QED
    BY <2>4, <2>5, <2>6 DEF RequestInv
<1>4. CASE ArriveList(p, r)
  <2>1. /\ stage'[p] = "first" /\ CallRead(p, All("gauges")) /\ resp'[p] = Nil
        /\ r.op = "List"
    BY <1>0, <1>1, <1>4, QueryFacts DEF ArriveList, ServiceTypes
  <2>2. pc'[p] \in {"read", "wait"} /\ query'[p] = All("gauges") /\ Waiting(p)'
    BY <1>0, <2>1, CallReadFacts
  <2>3. StageInv(p)'
    BY <1>1, <2>1, <2>2 DEF StageInv
  <2>4. WriteInv(p)'
    BY <2>1 DEF WriteInv
  <2>5. ReadInv(p)'
    BY <1>1, <2>1, <2>2 DEF ReadInv
  <2> QED
    BY <2>3, <2>4, <2>5 DEF RequestInv
<1> QED
  BY <1>2, <1>3, <1>4

\* A batch is complete, or Update starts to read its metric back.
LEMMA WrittenMoves ==
  ASSUME IInv, LogInv', Longer, NEW p \in Procs, BatchDone(p) \/ ReadBack(p)
  PROVE  RequestInv(p)'
<1>0. MemInv /\ ServiceTypes /\ StageInv(p) /\ ReadInv(p)
  BY DEF IInv, RequestInv
<1>1. /\ stage[p] = "written" /\ pc[p] = "idle" /\ listed[p] = Nil /\ req[p] \in Requests
      /\ req' = req /\ listed' = listed /\ since' = since /\ log' = log
  BY <1>0 DEF BatchDone, ReadBack, StageInv, ServiceTypes, histVars
<1>2. CASE BatchDone(p)
  <2>1. /\ stage'[p] = "done" /\ pc'[p] = "idle" /\ resp'[p] = Failed("ok")
        /\ req[p].op = "UpdateBatch"
    BY <1>0, <1>1, <1>2 DEF BatchDone, Respond, Ok, ServiceTypes, memVars
  <2>2. resp'[p] \in Responses
    BY <2>1, ResponseFacts
  <2>3. StageInv(p)'
    BY <1>1, <2>1, <2>2 DEF StageInv
  <2>4. WriteInv(p)'
    BY <2>1 DEF WriteInv
  <2>5. ReadInv(p)'
    BY <1>1, <2>1 DEF ReadInv, MetricAnswer, ListAnswer
  <2> QED
    BY <2>3, <2>4, <2>5 DEF RequestInv
<1>3. CASE ReadBack(p)
  <2>1. /\ stage'[p] = "reading" /\ CallRead(p, One(Item(p))) /\ resp'[p] = Nil
        /\ req[p].op = "Update"
    BY <1>0, <1>1, <1>3 DEF ReadBack, ServiceTypes, Item, StageInv
  <2>2. pc'[p] \in {"read", "wait"} /\ query'[p] = One(Item(p)) /\ Waiting(p)'
    BY <1>0, <2>1, CallReadFacts
  <2>3. Item(p)' = Item(p)
    BY <1>1 DEF Item
  <2>4. ~BadType(Item(p))
    <3>1. req[p].items \in Seq(Metric) /\ Len(req[p].items) = 1 /\ Verdict(req[p].items) = "ok"
      BY <1>0, <1>1, <2>1, RequestFacts DEF StageInv
    <3>2. \A i \in 1 .. 1 : ~BadType(req[p].items[i])
      BY <3>1, VerdictFacts
    <3> QED
      BY <3>2 DEF Item
  <2>5. StageInv(p)'
    BY <1>1, <2>1, <2>2, <2>3, <2>4 DEF StageInv
  <2>6. WriteInv(p)'
    BY <2>1 DEF WriteInv
  <2>7. \A i \in During(p) : ValueIn(log[i], Item(p)) # Nil
    BY <1>0, <1>1, <2>1 DEF ReadInv
  <2>8. During(p)' = During(p)
    BY <1>1 DEF During
  <2>9. ReadInv(p)'
    BY <1>1, <2>1, <2>2, <2>3, <2>7, <2>8 DEF ReadInv
  <2> QED
    BY <2>5, <2>6, <2>9 DEF RequestInv
<1> QED
  BY <1>2, <1>3

\* List: the gauges are there, the counters are asked for and come back.
LEMMA ListMoves ==
  ASSUME IInv, LogInv', Longer, NEW p \in Procs, FirstRead(p) \/ ListSecond(p) \/ SecondRead(p)
  PROVE  RequestInv(p)'
<1>0. MemInv /\ ServiceTypes /\ StageInv(p) /\ ReadInv(p)
  BY DEF IInv, RequestInv
<1>1. /\ stage[p] \in {"first", "between", "second"}
      /\ req[p] \in Requests /\ req[p].op = "List" /\ resp[p] = Nil
      /\ req' = req /\ since' = since /\ log' = log
      /\ During(p)' = During(p)
  BY <1>0 DEF FirstRead, ListSecond, SecondRead, StageInv, histVars, During
<1>2. \A i \in During(p) : i \in 1 .. Len(log) /\ log[i] \in Contents
  BY <1>1, MomentsStay
<1>3. \A st \in Contents : st.gauges \in Answers /\ st.counters \in Answers
  BY AnswerFacts, AnswerType, QueryFacts
<1>4. CASE FirstRead(p)
  <2>1. /\ stage'[p] = "between" /\ pc'[p] = "idle" /\ listed'[p] = ret[p] /\ resp' = resp
        /\ stage[p] = "first" /\ pc[p] = "answered"
    BY <1>0, <1>4 DEF FirstRead, Forget, ServiceTypes, MemInv, MemTypeOK
  <2>2. \E i \in During(p) : listed'[p] = log[i].gauges
    BY <1>0, <2>1 DEF ReadInv
  <2>3. listed'[p] \in Answers
    BY <1>2, <1>3, <2>2
  <2>4. StageInv(p)'
    BY <1>1, <2>1, <2>3 DEF StageInv
  <2>5. WriteInv(p)'
    BY <2>1 DEF WriteInv
  <2>6. ReadInv(p)'
    BY <1>1, <2>1, <2>2 DEF ReadInv
  <2> QED
    BY <2>4, <2>5, <2>6 DEF RequestInv
<1>5. CASE ListSecond(p)
  <2>1. /\ stage'[p] = "second" /\ CallRead(p, All("counters")) /\ listed' = listed /\ resp' = resp
        /\ stage[p] = "between"
    BY <1>0, <1>5, QueryFacts DEF ListSecond, ServiceTypes
  <2>2. pc'[p] \in {"read", "wait"} /\ query'[p] = All("counters") /\ Waiting(p)'
    BY <1>0, <2>1, CallReadFacts
  <2>3. /\ \E i \in During(p) : listed'[p] = log[i].gauges
        /\ listed'[p] \in Answers
    BY <1>0, <2>1 DEF ReadInv, StageInv
  <2>4. StageInv(p)'
    BY <1>1, <2>1, <2>2, <2>3 DEF StageInv
  <2>5. WriteInv(p)'
    BY <2>1 DEF WriteInv
  <2>6. ReadInv(p)'
    BY <1>1, <2>1, <2>2, <2>3 DEF ReadInv
  <2> QED
    BY <2>4, <2>5, <2>6 DEF RequestInv
<1>6. CASE SecondRead(p)
  <2>1. /\ stage'[p] = "done" /\ pc'[p] = "idle" /\ listed'[p] = Nil
        /\ resp'[p] = OkList(listed[p], ret[p])
        /\ stage[p] = "second" /\ pc[p] = "answered" /\ listed[p] \in Answers
    BY <1>0, <1>6 DEF SecondRead, Respond, Forget, ServiceTypes, StageInv, MemInv, MemTypeOK
  <2>a. PICK i \in During(p) : /\ listed[p] = log[i].gauges
                               /\ \E j \in i .. Len(log) : ret[p] = log[j].counters
    BY <1>0, <2>1 DEF ReadInv
  <2>2. PICK j \in i .. Len(log) : ret[p] = log[j].counters
    BY <2>a
  <2>3. j \in During(p) /\ i <= j
    <3>1. since[p] \in 1 .. Len(log) /\ Len(log) \in Nat
      BY LenProperties DEF IInv, LogInv
    <3>2. \A n \in Nat : \A s \in 1 .. n : \A k \in s .. n : \A l \in k .. n : l \in s .. n /\ k <= l
      OBVIOUS
    <3> QED
      BY <3>1, <3>2 DEF During
  <2>4. ret[p] \in Answers
    BY <1>2, <1>3, <2>2, <2>3
  <2>5. /\ resp'[p] \in Responses
        /\ resp'[p].lists["gauges"] = log[i].gauges
        /\ resp'[p].lists["counters"] = log[j].counters
    BY <2>1, <2>a, <2>2, <2>4, ResponseFacts
  <2>6. StageInv(p)'
    BY <1>1, <2>1, <2>5 DEF StageInv
  <2>7. WriteInv(p)'
    BY <2>1 DEF WriteInv
  <2>8. MetricAnswer(p)' /\ ListAnswer(p)'
    BY <1>1, <2>3, <2>5 DEF MetricAnswer, ListAnswer
  <2>9. ReadInv(p)'
    BY <2>1, <2>8 DEF ReadInv
  <2> QED
    BY <2>6, <2>7, <2>9 DEF RequestInv
<1> QED
  BY <1>4, <1>5, <1>6

\* The value Update or Get read is the metric's at one of the request's moments.
LEMMA MetricMoves ==
  ASSUME IInv, LogInv', Longer, NEW p \in Procs, MetricRead(p)
  PROVE  RequestInv(p)'
<1> DEFINE m == Item(p)
           v == ret[p][m.id]
<1>0. MemInv /\ ServiceTypes /\ StageInv(p) /\ ReadInv(p)
  BY DEF IInv, RequestInv
<1>1. /\ stage[p] = "reading" /\ pc[p] = "answered" /\ listed[p] = Nil
      /\ req[p] \in Requests /\ req[p].op \in {"Update", "Get"}
      /\ req' = req /\ since' = since /\ log' = log /\ listed' = listed
      /\ During(p)' = During(p) /\ Item(p)' = m
      /\ stage'[p] = "done" /\ pc'[p] = "idle"
      /\ resp'[p] = IF v # Nil THEN OkMetric(WithValue(m, v))
                    ELSE IF req[p].op = "Update" THEN OkMetric(m) ELSE Failed("ErrNotFound")
  BY <1>0 DEF MetricRead, Respond, Forget, StageInv, ServiceTypes, MemInv, MemTypeOK, histVars, During, Item
<1>2. m \in Metric /\ ~BadType(m)
  BY <1>0, <1>1, RequestFacts DEF StageInv, Item
<1>3. PICK i \in During(p) : ret[p] = Answer(log[i], One(m))
  BY <1>0, <1>1 DEF ReadInv
<1>4. log[i] \in Contents
  BY <1>1, <1>3, MomentsStay
<1>5. v = ValueIn(log[i], m)
  BY <1>3 DEF ValueIn
<1>6. /\ resp'[p] \in Responses
      /\ resp'[p].err = "ok" =>
           \E k \in During(p) : ValueIn(log[k], resp'[p].metric) = ValueOf(resp'[p].metric)
      /\ resp'[p].err = "ErrNotFound" => \E k \in During(p) : ValueIn(log[k], m) = Nil
  <2>1. CASE v # Nil
    <3>1. /\ m.mtype = "counter" => v \in Int64
          /\ m.mtype # "counter" => v \in GaugeValues
      BY <1>2, <1>4, <1>5, <2>1, ValueFacts DEF Contents, Metric
    <3> DEFINE w == WithValue(m, v)
    <3>2. /\ w \in Metric /\ w.id = m.id /\ w.mtype = m.mtype /\ ValueOf(w) = v
      BY <1>2, <3>1 DEF WithValue, Metric, ValueOf
    <3>3. resp'[p] = OkMetric(w)
      BY <1>1, <2>1
    <3> HIDE DEF w
    <3>4. ValueIn(log[i], w) = ValueIn(log[i], m)
      BY <1>2, <1>4, <3>2, ValueFacts
    <3>5. resp'[p] \in Responses /\ resp'[p].err = "ok" /\ resp'[p].metric = w
      BY <3>2, <3>3, ResponseFacts
    <3> QED
      BY <1>5, <3>2, <3>4, <3>5
  <2>2. CASE v = Nil
    <3>1. req[p].op # "Update"
      BY <1>0, <1>1, <1>5, <2>2 DEF ReadInv
    <3>2. resp'[p] = Failed("ErrNotFound")
      BY <1>1, <2>2, <3>1
    <3> QED
      BY <1>5, <2>2, <3>2, ResponseFacts
  <2> QED
    BY <2>1, <2>2
<1>7. StageInv(p)'
  BY <1>1, <1>6 DEF StageInv
<1>8. WriteInv(p)'
  BY <1>1 DEF WriteInv
<1>9. MetricAnswer(p)' /\ ListAnswer(p)'
  BY <1>1, <1>6 DEF MetricAnswer, ListAnswer
<1>10. ReadInv(p)'
  BY <1>1, <1>9 DEF ReadInv
<1> QED
  BY <1>7, <1>8, <1>10 DEF RequestInv

LEMMA SentMoves ==
  ASSUME IInv, NEW p \in Procs, Sent(p)
  PROVE  RequestInv(p)'
<1>0. ServiceTypes /\ StageInv(p)
  BY DEF IInv, RequestInv
<1>1. /\ stage'[p] = "idle" /\ pc'[p] = "idle" /\ req'[p] = NoRequest /\ resp'[p] = Nil
      /\ listed'[p] = Nil
  BY <1>0 DEF Sent, StageInv, ServiceTypes, memVars
<1>2. StageInv(p)'
  BY <1>1 DEF StageInv
<1>3. WriteInv(p)'
  BY <1>1 DEF WriteInv
<1>4. ReadInv(p)'
  BY <1>1, SMTT(40) DEF ReadInv
<1> QED
  BY <1>2, <1>3, <1>4 DEF RequestInv

\* The items of a request that are left when the first k are stored.
LEMMA LeftFacts ==
  ASSUME NEW items \in Seq(Metric)
  PROVE  /\ SubSeq(items, 1, Len(items)) = items
         /\ \A k \in 0 .. Len(items) :
              LET rest == SubSeq(items, k + 1, Len(items))
              IN  IF rest = <<>> THEN k = Len(items)
                  ELSE /\ k < Len(items) /\ Head(rest) = items[k + 1]
                       /\ Tail(rest) = SubSeq(items, k + 2, Len(items))
<1>0. Len(items) \in Nat
  BY LenProperties
<1>1. SubSeq(items, 1, Len(items)) = items
  BY SubSeqFull
<1>2. ASSUME NEW k \in 0 .. Len(items)
      PROVE  LET rest == SubSeq(items, k + 1, Len(items))
             IN  IF rest = <<>> THEN k = Len(items)
                 ELSE /\ k < Len(items) /\ Head(rest) = items[k + 1]
                      /\ Tail(rest) = SubSeq(items, k + 2, Len(items))
  <2>1. CASE k = Len(items)
    BY <1>0, <2>1, SubSeqEmpty
  <2>2. CASE k # Len(items)
    <3>1. k + 1 \in 1 .. Len(items) /\ k < Len(items) /\ Len(items) \in k + 1 .. Len(items)
      BY <1>0, <2>2
    <3> DEFINE rest == SubSeq(items, k + 1, Len(items))
    <3>2. /\ rest \in Seq(Metric) /\ Len(rest) = Len(items) - k /\ Len(rest) \in Nat \ {0}
      BY <1>0, <3>1, SubSeqProperties
    <3>3. rest # <<>>
      BY <3>2, EmptySeq
    <3>4. Head(rest) = items[k + 1] /\ Tail(rest) = SubSeq(items, k + 2, Len(items))
      BY <1>0, <3>1, HeadTailOfSubSeq
    <3> QED
      BY <3>1, <3>3, <3>4
  <2> QED
    BY <2>1, <2>2
<1> QED
  BY <1>1, <1>2

\* The write call of a request, up to its Unlock: one more item is stored.
LEMMA WriteMoves ==
  ASSUME IInv, MemInv', NEW p \in Procs, StoreStep(p), Announce(p) \/ Enter(p) \/ PutItem(p)
  PROVE  RequestInv(p)'
<1> DEFINE items == req[p].items
           n     == Len(items)
<1>0. /\ MemInv /\ ServiceTypes /\ StageInv(p) /\ WriteInv(p)
      /\ req' = req /\ resp' = resp /\ listed' = listed
  BY DEF IInv, RequestInv, StoreStep
<1>1. /\ pc[p] \in {"lock", "drain", "write"} /\ pc'[p] \in {"drain", "write"}
      /\ pc[p] = "write" => pc'[p] = "write"
  BY <1>0 DEF Announce, Enter, PutItem, MemInv, MemTypeOK
<1>2. stage[p] = "writing"
  BY <1>0, <1>1 DEF StageInv, Waiting, ServiceTypes, Stages
<1>3. stage' = stage /\ since' = since
  BY <1>1 DEF StoreStep
<1>4. items \in Seq(Metric) /\ n \in Nat
  BY <1>0, <1>2, RequestFacts, LenProperties DEF StageInv
<1>5. StageInv(p)'
  BY <1>0, <1>1, <1>2, <1>3 DEF StageInv
<1>6. ReadInv(p)'
  BY <1>2, <1>3 DEF ReadInv
<1>7. WriteInv(p)'
  <2>1. CASE Announce(p)
    BY <1>0, <1>2, <1>3, <2>1 DEF Announce, WriteInv, MemInv, MemTypeOK
  <2>2. CASE Enter(p)
    <3>1. left'[p] = items /\ base' = mem /\ mem' = mem /\ pc'[p] = "write" /\ mem \in Contents
      BY <1>0, <1>2, <2>2 DEF Enter, WriteInv, MemInv, MemTypeOK
    <3>2. left'[p] = SubSeq(items, 0 + 1, n) /\ mem' = Upto(base', items, 0)
      <4>1. SubSeq(items, 1, n) = items
        BY <1>4, LeftFacts
      <4>2. Upto(mem, items, 0) = mem
        BY <1>4, <3>1, UptoFacts
      <4> QED
        BY <3>1, <4>1, <4>2
    <3>3. Keeps(base', mem')
      BY <3>1 DEF Keeps
    <3>4. 0 \in 0 .. n
      BY <1>4
    <3> QED
      BY <1>0, <3>1, <3>2, <3>3, <3>4 DEF WriteInv
  <2>3. CASE PutItem(p)
    <3>1. PICK k \in 0 .. n : left[p] = SubSeq(items, k + 1, n) /\ mem = Upto(base, items, k)
      BY <1>0, <1>2, <2>3 DEF PutItem, WriteInv
    <3>2. /\ left[p] # <<>> /\ pc[p] = "write" /\ pc'[p] = "write"
          /\ left'[p] = Tail(left[p]) /\ mem' = Put(mem, Head(left[p])) /\ base' = base
          /\ mem \in Contents /\ base \in Contents
      BY <1>0, <2>3 DEF PutItem, MemInv, MemTypeOK
    <3>3. /\ k < n /\ Head(left[p]) = items[k + 1] /\ left'[p] = SubSeq(items, k + 2, n)
      <4>1. \A j \in 0 .. n :
              IF SubSeq(items, j + 1, n) = <<>> THEN j = n
              ELSE /\ j < n /\ Head(SubSeq(items, j + 1, n)) = items[j + 1]
                   /\ Tail(SubSeq(items, j + 1, n)) = SubSeq(items, j + 2, n)
        BY <1>4, LeftFacts
      <4> QED
        BY <3>1, <3>2, <4>1
    <3>4. k + 1 \in 1 .. n /\ k \in 0 .. n - 1 /\ k + 1 \in 0 .. n /\ (k + 1) + 1 = k + 2
      BY <1>4, <3>3
    <3>5. mem' = Upto(base, items, k + 1)
      <4>1. \A j \in 0 .. n - 1 : Upto(base, items, j + 1) = Put(Upto(base, items, j), items[j + 1])
        BY <1>4, <3>2, UptoFacts
      <4>2. Upto(base, items, k + 1) = Put(Upto(base, items, k), items[k + 1])
        BY <3>4, <4>1
      <4> QED
        BY <3>1, <3>2, <3>3, <4>2
    <3>6. Keeps(base, mem')
      <4>1. Keeps(base, mem)
        BY <1>0, <1>2, <3>2 DEF WriteInv
      <4>2. items[k + 1] \in Metric
        BY <1>4, <3>4, ElementOfSeq
      <4>3. Keeps(mem, mem')
        BY <3>2, <3>3, <4>2, PutKeeps
      <4> QED
        BY <4>1, <4>3 DEF Keeps
    <3>7. left'[p] = SubSeq(items, (k + 1) + 1, n)
      BY <3>3, <3>4
    <3> QED
      BY <1>0, <3>2, <3>4, <3>5, <3>6, <3>7 DEF WriteInv
  <2> QED
    BY <2>1, <2>2, <2>3
<1> QED
  BY <1>5, <1>6, <1>7 DEF RequestInv

\* What a request's critical section has made of the contents when it ends.
LEMMA UnlockStores ==
  ASSUME IInv, NEW p \in Procs, Unlock(p)
  PROVE  /\ stage[p] = "writing" /\ pc[p] = "write"
         /\ req[p] \in Requests /\ Verdict(req[p].items) = "ok"
         /\ mem = FoldLeft(Put, base, req[p].items)
         /\ req[p].op = "Update" => ValueIn(mem, Item(p)) # Nil
<1> DEFINE items == req[p].items
           n     == Len(items)
<1>0. MemInv /\ ServiceTypes /\ StageInv(p) /\ WriteInv(p)
  BY DEF IInv, RequestInv
<1>1. pc[p] = "write" /\ left[p] = <<>> /\ base \in Contents
  BY <1>0 DEF Unlock, MemInv, MemTypeOK
<1>2. stage[p] = "writing"
  BY <1>0, <1>1 DEF StageInv, Waiting, ServiceTypes, Stages
<1>3. req[p] \in Requests /\ Verdict(items) = "ok" /\ items \in Seq(Metric) /\ n \in Nat
  BY <1>0, <1>2, RequestFacts, LenProperties DEF StageInv
<1>4. PICK k \in 0 .. n : left[p] = SubSeq(items, k + 1, n) /\ mem = Upto(base, items, k)
  BY <1>0, <1>1, <1>2 DEF WriteInv
<1>5. k = n
  BY <1>1, <1>3, <1>4, LeftFacts
<1>6. mem = FoldLeft(Put, base, items)
  BY <1>1, <1>3, <1>4, <1>5, UptoFacts
<1>7. ASSUME req[p].op = "Update" PROVE ValueIn(mem, Item(p)) # Nil
  <2>1. n = 1 /\ Item(p) \in Metric
    BY <1>3, <1>7, RequestFacts DEF Item
  <2>2. Upto(base, items, 0) = base /\ Upto(base, items, 0 + 1) = Put(base, items[0 + 1])
    <3>1. /\ Upto(base, items, 0) = base
          /\ \A j \in 0 .. n - 1 : Upto(base, items, j + 1) = Put(Upto(base, items, j), items[j + 1])
      BY <1>1, <1>3, UptoFacts
    <3>2. 0 \in 0 .. n - 1
      BY <2>1
    <3> QED
      BY <3>1, <3>2
  <2>3. mem = Put(base, Item(p))
    BY <1>4, <1>5, <2>1, <2>2 DEF Item
  <2>4. ~BadType(Item(p)) /\ ~BadValue(Item(p))
    BY <1>3, <2>1, VerdictFacts DEF Item
  <2> QED
    BY <1>1, <2>1, <2>3, <2>4, PutKeeps
<1> QED
  BY <1>1, <1>2, <1>3, <1>6, <1>7

LEMMA UnlockMoves ==
  ASSUME IInv, MemInv', LogInv', Longer, NEW p \in Procs, StoreStep(p), Unlock(p)
  PROVE  RequestInv(p)'
<1>0. /\ MemInv /\ ServiceTypes /\ StageInv(p)
      /\ req' = req /\ resp' = resp /\ listed' = listed
  BY DEF IInv, RequestInv, StoreStep
<1>1. stage[p] = "writing" /\ pc[p] = "write"
  BY UnlockStores
<1>2. pc'[p] = "idle"
  BY DEF Unlock
<1>3. stage'[p] = "written" /\ since'[p] = Len(log')
  BY <1>0, <1>1, <1>2 DEF StoreStep, ServiceTypes
<1>4. StageInv(p)'
  BY <1>0, <1>1, <1>2, <1>3 DEF StageInv
<1>5. WriteInv(p)'
  BY <1>3 DEF WriteInv
<1>6. log'[Len(log')] = mem
  BY <1>0, UnlockPublishes DEF LogInv
<1>7. \A i \in During(p)' : i = Len(log')
  BY <1>3 DEF During, Longer
<1>8. Item(p)' = Item(p)
  BY <1>0 DEF Item
<1>9. ReadInv(p)'
  BY <1>0, <1>3, <1>6, <1>7, <1>8, UnlockStores DEF ReadInv
<1> QED
  BY <1>4, <1>5, <1>9 DEF RequestInv

\* A lookup answers with what is published at that moment.
LEMMA ReadMoves ==
  ASSUME IInv, LogInv', Longer, NEW p \in Procs, StoreStep(p), Read(p)
  PROVE  RequestInv(p)'
<1>0. /\ MemInv /\ ServiceTypes /\ StageInv(p) /\ ReadInv(p) /\ LogInv
      /\ req' = req /\ resp' = resp /\ listed' = listed
  BY DEF IInv, RequestInv, StoreStep
<1>1. /\ pc[p] = "read" /\ Waiting(p) /\ pc'[p] = "answered" /\ ret'[p] = Answer(mem, query[p])
  BY <1>0 DEF Read, Waiting, MemInv, MemTypeOK
<1>2. stage[p] \in {"reading", "first", "second"} /\ ~Waiting(p)'
  BY <1>0, <1>1 DEF StageInv, Waiting, ServiceTypes, Stages
<1>3. Published' = Published
  BY <1>0, PublishedStays
<1>4. stage' = stage /\ since' = since /\ log' = log /\ During(p)' = During(p) /\ Item(p)' = Item(p)
  BY <1>0, <1>1, <1>3 DEF StoreStep, Logged, During, Item
<1>5. Published = mem
  BY <1>0, <1>1 DEF Published, InSection, MemInv, LockInv
<1>6. /\ Len(log) \in During(p) /\ log[Len(log)] = mem /\ mem \in Contents
  BY <1>0, <1>4, <1>5, MomentsStay DEF LogInv, MemInv, MemTypeOK
<1>7. StageInv(p)'
  BY <1>0, <1>1, <1>2, <1>4 DEF StageInv
<1>8. WriteInv(p)'
  BY <1>2, <1>4 DEF WriteInv
<1>9. ReadInv(p)'
  <2>1. stage[p] = "reading" => ret'[p] = Answer(log[Len(log)], One(Item(p)))
    BY <1>0, <1>1, <1>6 DEF ReadInv
  <2>2. stage[p] = "first" => ret'[p] = log[Len(log)].gauges
    BY <1>0, <1>1, <1>6, AnswerFacts DEF ReadInv
  <2>3. stage[p] = "second" =>
          \E i \in During(p) : /\ listed[p] = log[i].gauges
                               /\ \E j \in i .. Len(log) : ret'[p] = log[j].counters
    <3> SUFFICES ASSUME stage[p] = "second"
                 PROVE  \E i \in During(p) :
                          /\ listed[p] = log[i].gauges
                          /\ \E j \in i .. Len(log) : ret'[p] = log[j].counters
      OBVIOUS
    <3>1. PICK i \in During(p) : listed[p] = log[i].gauges
      BY <1>0 DEF ReadInv
    <3>2. ret'[p] = log[Len(log)].counters
      BY <1>0, <1>1, <1>6, AnswerFacts DEF ReadInv
    <3>3. i \in 1 .. Len(log)
      BY <1>4, <3>1, MomentsStay
    <3>4. Len(log) \in i .. Len(log)
      BY <3>3 DEF Longer
    <3> QED
      BY <3>1, <3>2, <3>4
  <2>4. stage[p] = "reading" /\ req[p].op = "Update" =>
          \A i \in During(p) : ValueIn(log[i], Item(p)) # Nil
    BY <1>0 DEF ReadInv
  <2> QED
    BY <1>0, <1>2, <1>4, <1>6, <2>1, <2>2, <2>3, <2>4 DEF ReadInv
<1> QED
  BY <1>7, <1>8, <1>9 DEF RequestInv
-----------------------------------------------------------------------------
(***************************************************************************)
(* The invariant holds, and what follows from it.                          *)
(***************************************************************************)
\* The handlers' variables keep their types: by process, as nobody touches
\* another's.
LEMMA TypesStep ==
  ASSUME IInv, ServiceNext, LogInv', \A r \in Procs : RequestInv(r)'
  PROVE  ServiceTypes'
<1>0. ServiceTypes
  BY DEF IInv
<1>1. \A r \in Procs : /\ req'[r] \in Requests \cup {NoRequest}
                       /\ resp'[r] \in Responses \cup {Nil}
                       /\ listed'[r] \in Answers \cup {Nil}
  BY DEF RequestInv, StageInv
<1>2. \A r \in Procs : since'[r] \in Nat
  <2>1. Len(log') \in Nat /\ \A r \in Procs : since'[r] \in 1 .. Len(log')
    BY LenProperties DEF LogInv
  <2> QED
    BY <2>1
<1>3. ASSUME NEW p \in Procs, Acts(p)
      PROVE  /\ stage' \in [Procs -> Stages]
             /\ DOMAIN req' = Procs /\ req' = [r \in Procs |-> req'[r]]
             /\ resp' = [r \in Procs |-> resp'[r]]
             /\ listed' = [r \in Procs |-> listed'[r]]
             /\ since' = [r \in Procs |-> since'[r]]
             /\ arrived' \in 0 .. MaxRequests
  <2>1. /\ \/ stage' = stage
           \/ \E s \in Stages : stage' = [stage EXCEPT ![p] = s]
        /\ \/ req' = req
           \/ \E r : req' = [req EXCEPT ![p] = r]
        /\ \/ resp' = resp
           \/ \E r : resp' = [resp EXCEPT ![p] = r]
        /\ \/ listed' = listed
           \/ \E r : listed' = [listed EXCEPT ![p] = r]
        /\ \/ since' = since
           \/ \E r : since' = [since EXCEPT ![p] = r]
        /\ arrived' = arrived \/ (arrived < MaxRequests /\ arrived' = arrived + 1)
    BY <1>3 DEF Acts, Arrive, Respond, ArriveWrite, ArriveGet, ArriveList, StoreStep, BatchDone,
                ReadBack, MetricRead, FirstRead, ListSecond, SecondRead, Sent, histVars, Stages
  <2>2. arrived' \in 0 .. MaxRequests
    BY <1>0, <2>1, ServiceAssumption DEF ServiceTypes
  <2>3. stage' \in [Procs -> Stages]
    BY <1>0, <2>1 DEF ServiceTypes
  <2>4. DOMAIN req' = Procs /\ req' = [r \in Procs |-> req'[r]]
    BY <1>0, <2>1 DEF ServiceTypes
  <2>5. resp' = [r \in Procs |-> resp'[r]]
    BY <1>0, <2>1 DEF ServiceTypes
  <2>6. listed' = [r \in Procs |-> listed'[r]]
    BY <1>0, <2>1 DEF ServiceTypes
  <2>7. since' = [r \in Procs |-> since'[r]]
    BY <1>0, <2>1 DEF ServiceTypes
  <2> QED
    BY <2>2, <2>3, <2>4, <2>5, <2>6, <2>7
<1>4. CASE Quiet
  BY <1>0, <1>4 DEF Quiet, vars, serviceVars, histVars, ServiceTypes
<1>5. CASE \E p \in Procs : Acts(p)
  BY <1>1, <1>2, <1>3, <1>5 DEF ServiceTypes
<1> QED
  BY <1>4, <1>5 DEF ServiceNext, Acts

LEMMA RequestsStep ==
  ASSUME IInv, ServiceNext, MemInv', LogInv', Longer, NEW r \in Procs
  PROVE  RequestInv(r)'
<1>1. ASSUME NEW p \in Procs, Acts(p) PROVE RequestInv(r)'
  <2>1. CASE p # r
    BY <1>1, <2>1, ActsTouchesOne, UntouchedKeeps
  <2>2. ASSUME p = r PROVE RequestInv(p)'
    <3>1. CASE StoreStep(p)
      BY <3>1, WriteMoves, UnlockMoves, ReadMoves DEF StoreStep, Proceed
    <3>2. ASSUME NEW q \in Requests, ArriveWrite(p, q) PROVE RequestInv(p)'
      BY <3>2, WriteArrives
    <3>3. ASSUME NEW q \in Requests, ArriveGet(p, q) \/ ArriveList(p, q) PROVE RequestInv(p)'
      BY <3>3, ReadArrives
    <3>4. CASE BatchDone(p) \/ ReadBack(p)
      BY <3>4, WrittenMoves
    <3>5. CASE MetricRead(p)
      BY <3>5, MetricMoves
    <3>6. CASE FirstRead(p) \/ ListSecond(p) \/ SecondRead(p)
      BY <3>6, ListMoves
    <3>7. CASE Sent(p)
      BY <3>7, SentMoves
    <3> QED
      BY <1>1, <3>1, <3>2, <3>3, <3>4, <3>5, <3>6, <3>7 DEF Acts
  <2> QED
    BY <2>1, <2>2
<1>2. CASE Quiet
  <2>1. Untouched(r)
    BY <1>2 DEF Quiet, vars, serviceVars, histVars, memVars, Untouched
  <2> QED
    BY <2>1, UntouchedKeeps
<1> QED
  BY <1>1, <1>2 DEF ServiceNext, Acts

LEMMA ServiceStarts == ServiceInit => IInv
<1> SUFFICES ASSUME ServiceInit PROVE IInv
  OBVIOUS
<1>1. MemInv
  BY InitInv DEF ServiceInit
<1>2. ServiceTypes
  BY ServiceAssumption DEF ServiceInit, ServiceTypes, Stages
<1>3. LogInv
  <2>1. EmptyContents \in Contents
    BY DEF EmptyContents, Contents
  <2>2. Published = EmptyContents
    BY DEF ServiceInit, MemInit, Published, InSection
  <2>3. log = <<EmptyContents>> /\ since = [p \in Procs |-> 1]
    BY DEF ServiceInit
  <2>4. log \in Seq(Contents) /\ Len(log) = 1 /\ log[1] = EmptyContents /\ log # <<>>
    BY <2>1, <2>3
  <2> QED
    BY <2>2, <2>3, <2>4 DEF LogInv
<1>4. ASSUME NEW p \in Procs PROVE RequestInv(p)
  <2>1. /\ stage[p] = "idle" /\ req[p] = NoRequest /\ resp[p] = Nil /\ listed[p] = Nil /\ pc[p] = "idle"
    BY DEF ServiceInit, MemInit
  <2> QED
    BY <2>1 DEF RequestInv, StageInv, WriteInv, ReadInv
<1> QED
  BY <1>1, <1>2, <1>3, <1>4 DEF IInv

LEMMA ServiceStep == IInv /\ [ServiceNext]_vars => IInv'
<1>1. ASSUME IInv, ServiceNext PROVE IInv'
  <2>1. MemInv'
    BY <1>1, IsMemStep, NextInv DEF IInv
  <2>2. LogInv' /\ Longer
    BY <1>1, <2>1, LogStep
  <2>3. \A r \in Procs : RequestInv(r)'
    BY <1>1, <2>1, <2>2, RequestsStep
  <2>4. ServiceTypes'
    BY <1>1, <2>2, <2>3, TypesStep
  <2> QED
    BY <2>1, <2>2, <2>3, <2>4 DEF IInv
<1>2. ASSUME IInv, UNCHANGED vars PROVE IInv'
  <2>1. UNCHANGED <<mem, writer, readers, waiting, pc, left, query, ret, base, stage, req, resp, listed,
                    arrived, log, since>>
    BY <1>2 DEF vars, memVars, lockVars, serviceVars, histVars
  <2>2. MemInv'
    BY <1>2, <2>1 DEF IInv, MemInv, MemTypeOK, LockInv
  <2>3. ServiceTypes' /\ LogInv'
    BY <1>2, <2>1 DEF IInv, ServiceTypes, LogInv, Published, InSection
  <2>4. Longer
    BY <1>2, <2>1, LenProperties DEF IInv, LogInv, Longer
  <2>5. \A r \in Procs : Untouched(r)
    BY <2>1 DEF Untouched
  <2> QED
    BY <1>2, <2>2, <2>3, <2>4, <2>5, UntouchedKeeps DEF IInv
<1> QED
  BY <1>1, <1>2

LEMMA ServiceHolds == ServiceSpec => []IInv
BY ServiceStarts, ServiceStep, PTL DEF ServiceSpec

\* Every answer of the service is real: Update's is a value the metric had at
\* or after the write, Get's one from while it was served, and List's counters
\* are never older than its gauges (metrics.go:36-159).
THEOREM ServiceCorrect == ServiceSpec => []ServiceInv
<1>1. IInv => ServiceInv
  <2> SUFFICES ASSUME IInv PROVE ServiceInv
    OBVIOUS
  <2>0. /\ MemInv /\ ServiceTypes /\ LogInv
        /\ \A p \in Procs : StageInv(p) /\ ReadInv(p)
    BY DEF IInv, RequestInv
  <2>1. ServiceTypeOK
    <3>1. ASSUME NEW p \in Procs
          PROVE  /\ stage[p] = "idle" => req[p] = NoRequest
                 /\ stage[p] # "idle" => req[p] \in Requests
                 /\ IF stage[p] = "done" THEN resp[p] \in Responses ELSE resp[p] = Nil
                 /\ listed[p] # Nil <=> stage[p] \in {"between", "second"}
                 /\ since[p] \in 1 .. Len(log)
      <4>1. Nil \notin Answers
        BY ServiceAssumption
      <4>2. IF stage[p] \in {"between", "second"} THEN listed[p] \in Answers ELSE listed[p] = Nil
        BY <2>0 DEF StageInv
      <4>3. /\ IF stage[p] = "idle" THEN req[p] = NoRequest ELSE req[p] \in Requests
            /\ IF stage[p] = "done" THEN resp[p] \in Responses ELSE resp[p] = Nil
        BY <2>0 DEF StageInv
      <4> QED
        BY <2>0, <4>1, <4>2, <4>3 DEF LogInv
    <3> QED
      BY <2>0, <3>1 DEF ServiceTypeOK, MemInv, ServiceTypes, LogInv
  <2>2. MetricAnswersReal
    BY <2>0 DEF ReadInv, MetricAnswer, MetricAnswersReal, Item
  <2>3. ListCountersNotOlder
    BY <2>0 DEF ReadInv, ListAnswer, ListCountersNotOlder
  <2> QED
    BY <2>1, <2>2, <2>3 DEF ServiceInv
<1> QED
  BY <1>1, ServiceHolds, PTL

\* The service drives the store only by calls it offers, so behind the
\* handlers it still keeps the contract of interfaces.Store.
THEOREM ServiceUsesStore == ServiceSpec => ImplementsContract
<1>1. ServiceInit => MemInit
  BY DEF ServiceInit
<1>2. IInv /\ [ServiceNext]_vars => [MemNext]_memVars
  <2>1. UNCHANGED vars => UNCHANGED memVars
    BY DEF vars
  <2> QED
    BY <2>1, IsMemStep
<1>3. ServiceSpec => MemSpec
  BY <1>1, <1>2, ServiceHolds, PTL DEF ServiceSpec, MemSpec
<1> QED
  BY <1>3, MemImplements, PTL

\* One step of the property below.
WholeRequest ==
  Published' # Published =>
    \E p \in Procs :
      /\ stage[p] = "writing" /\ stage'[p] = "written"
      /\ \A m \in Range(req[p].items) : ~BadType(m) /\ ~BadValue(m)
      /\ Published' = FoldLeft(Put, Published, req[p].items)

\* What readers see changes only by all the items of one accepted request, in
\* order, on top of what was there (metrics.go:51-67).
THEOREM WholeRequests == ServiceSpec => WholeRequestsOnly
<1>1. ASSUME IInv, ServiceNext, Published' # Published PROVE WholeRequest
  <2>0. MemInv /\ ServiceTypes
    BY <1>1 DEF IInv
  <2>1. PICK p \in Procs : Acts(p)
    <3>1. ~Quiet
      BY <1>1 DEF Quiet, vars, memVars, Published, InSection
    <3> QED
      BY <1>1, <3>1 DEF ServiceNext, Acts
  <2>2. \/ \E ms : CallWrite(p, ms)
        \/ \E q : CallRead(p, q)
        \/ (Proceed(p) /\ StoreStep(p)) \/ Forget(p) \/ UNCHANGED memVars
    BY <2>1 DEF Acts, ArriveWrite, ArriveGet, ArriveList, StoreStep, BatchDone, ReadBack, MetricRead,
                FirstRead, ListSecond, SecondRead, Sent
  <2>3. ~(UNCHANGED memVars)
    BY <1>1 DEF memVars, Published, InSection
  <2>4. Unlock(p) /\ StoreStep(p)
    BY <1>1, <2>0, <2>2, <2>3, PublishedStays DEF Proceed
  <2>5. Published = base /\ Published' = mem
    BY <2>0, <2>4, UnlockPublishes
  <2>6. /\ stage[p] = "writing" /\ pc[p] = "write"
        /\ req[p] \in Requests /\ Verdict(req[p].items) = "ok"
        /\ mem = FoldLeft(Put, base, req[p].items)
    BY <1>1, <2>4, UnlockStores
  <2>7. stage'[p] = "written"
    <3>1. pc'[p] = "idle"
      BY <2>4 DEF Unlock
    <3> QED
      BY <2>0, <2>4, <2>6, <3>1 DEF StoreStep, ServiceTypes
  <2>8. \A m \in Range(req[p].items) : ~BadType(m) /\ ~BadValue(m)
    <3>1. req[p].items \in Seq(Metric)
      BY <2>6, RequestFacts
    <3>2. DOMAIN req[p].items = 1 .. Len(req[p].items)
      BY <3>1, LenProperties
    <3> QED
      BY <2>6, <3>1, <3>2, VerdictFacts DEF Range
  <2> QED
    BY <2>5, <2>6, <2>7, <2>8 DEF WholeRequest
<1>2. ASSUME IInv, [ServiceNext]_vars PROVE [WholeRequest]_vars
  BY <1>1, <1>2 DEF WholeRequest
<1>3. ServiceSpec => [][WholeRequest]_vars
  BY <1>2, ServiceHolds, PTL DEF ServiceSpec
<1> QED
  BY <1>3 DEF WholeRequest, WholeRequestsOnly
=============================================================================
