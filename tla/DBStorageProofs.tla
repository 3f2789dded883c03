--------------------------- MODULE DBStorageProofs ---------------------------
(***************************************************************************)
(* That no connection of the pool is lost or used twice, and that retryCtx *)
(* neither counts an increment twice nor reports success for nothing, for  *)
(* every number of goroutines and connections and every set of calls.      *)
(***************************************************************************)
EXTENDS DBStorage, SequenceTheorems, TLAPS

\* What PoolAccounted needs to be inductive: the program counters only a batch
\* or only a single write can reach.
PoolShape ==
  /\ tx \in [Procs -> Conns \cup {NoConn}]
  /\ conn \in [Procs -> Conns \cup {NoConn}]
  /\ pc \in [Procs -> PCs]
  /\ call \in [Procs -> Calls \cup {NoCall}]
  /\ \A p \in Procs :
       /\ pc[p] \in {"begin", "next"} => call[p].op = "batch"
       /\ pc[p] = "backoff" => call[p].op = "one"
       /\ pc[p] \notin {"idle"} => call[p] \in Calls

PoolInv == PoolShape /\ PoolAccounted

\* Where a statement's outcome leads, by the kind of the call.
After(op) == CASE op = "one" -> {"done", "backoff"}
               [] op = "batch" -> {"next"}
               [] op = "read" -> {"done"}
               [] OTHER -> {}

\* Outcome moves only its own goroutine's program counter.
LEMMA OutcomeMoves ==
  ASSUME NEW p \in Procs, NEW e, Outcome(p, e)
  PROVE  /\ call[p].op \in {"one", "batch", "read"}
         /\ \E t \in After(call[p].op) : pc' = [pc EXCEPT ![p] = t]
  BY DEF Outcome, Return, After

\* A free connection is held by nobody.
LEMMA FreeIsFree ==
  ASSUME PoolShape, NEW c \in Free
  PROVE  /\ c \in Conns
         /\ c # NoConn
         /\ \A q \in Procs : tx[q] # c /\ conn[q] # c
<1>1. c \in Conns /\ c # NoConn
  BY DBAssumption DEF Free
<1>2. c \notin Range(tx) /\ c \notin Range(conn)
  BY <1>1 DEF Free, InUse
<1>3. Range(tx) = {tx[q] : q \in Procs} /\ Range(conn) = {conn[q] : q \in Procs}
  BY DEF PoolShape, Range
<1> QED
  BY <1>1, <1>2, <1>3

LEMMA PoolInit == DBInit => PoolInv
<1> SUFFICES ASSUME DBInit PROVE PoolInv
  OBVIOUS
<1>1. PoolShape
  BY DEF DBInit, PoolShape, PCs
<1>2. PoolAccounted
  BY DEF DBInit, PoolAccounted
<1> QED
  BY <1>1, <1>2 DEF PoolInv

\* A step that leaves the pool alone and moves p between program counters at
\* which a goroutine holds the same connections.
LEMMA PoolKept ==
  ASSUME PoolInv, NEW p \in Procs, NEW t \in PCs, UNCHANGED <<tx, conn, call>>,
         pc' = [pc EXCEPT ![p] = t],
         pc[p] # "idle", pc[p] # "run", t # "idle", t # "run",
         t \in {"begin", "next"} => call[p].op = "batch",
         t = "backoff" => call[p].op = "one",
         tx[p] # NoConn <=> call[p].op = "batch" /\ t \in {"next", "acquire"}
  PROVE  PoolInv'
<1>1. PoolShape'
  BY DEF PoolInv, PoolShape
<1>2. PoolAccounted'
  BY DEF PoolInv, PoolShape, PoolAccounted
<1> QED
  BY <1>1, <1>2 DEF PoolInv

LEMMA PoolNext == PoolInv /\ [DBNext]_dbVars => PoolInv'
<1> SUFFICES ASSUME PoolInv, [DBNext]_dbVars PROVE PoolInv'
  OBVIOUS
<1> USE DEF PoolInv
<1>0. CASE UNCHANGED dbVars
  BY <1>0 DEF PoolShape, PoolAccounted, dbVars, pool
<1>1. ASSUME NEW p \in Procs, NEW c \in Calls, Call(p, c) PROVE PoolInv'
  <2>1. PoolShape'
    BY <1>1, DBAssumption DEF Call, PoolShape, pool, PCs
  <2>2. PoolAccounted'
    BY <1>1, DBAssumption DEF Call, PoolShape, PoolAccounted, pool, PCs
  <2> QED
    BY <2>1, <2>2
<1>2. ASSUME NEW p \in Procs, CtxDone(p) PROVE PoolInv'
  BY <1>2 DEF CtxDone, PoolShape, PoolAccounted, pool
<1>3. ASSUME NEW p \in Procs, Begin(p) PROVE PoolInv'
  <2>1. CASE \E c \in Free : tx' = [tx EXCEPT ![p] = c] /\ pc' = [pc EXCEPT ![p] = "next"]
                             /\ UNCHANGED conn
    <3>1. PICK c \in Free : tx' = [tx EXCEPT ![p] = c] /\ pc' = [pc EXCEPT ![p] = "next"]
                            /\ UNCHANGED conn
      BY <2>1
    <3>2. c \in Conns /\ c # NoConn /\ \A q \in Procs : tx[q] # c /\ conn[q] # c
      BY FreeIsFree
    <3>3. PoolShape'
      BY <1>3, <3>1, <3>2 DEF Begin, PoolShape, PCs
    <3>4. PoolAccounted'
      BY <1>3, <3>1, <3>2 DEF Begin, PoolShape, PoolAccounted
    <3> QED
      BY <3>3, <3>4
  <2>2. CASE pc' = [pc EXCEPT ![p] = "done"] /\ UNCHANGED pool
    BY <1>3, <2>2, PoolKept DEF Begin, PoolShape, PoolAccounted, pool, PCs
  <2> QED
    BY <1>3, <2>1, <2>2 DEF Begin, Return
<1>4. ASSUME NEW p \in Procs, NextItem(p) PROVE PoolInv'
  <2>1. CASE pc' = pc
    BY <1>4, <2>1 DEF NextItem, PoolShape, PoolAccounted, pool
  <2>2. CASE pc' = [pc EXCEPT ![p] = "acquire"]
    BY <1>4, <2>2, PoolKept DEF NextItem, PoolShape, PoolAccounted, pool, PCs
  <2> QED
    BY <1>4, <2>1, <2>2 DEF NextItem
<1>5. ASSUME NEW p \in Procs, Commit(p) PROVE PoolInv'
  <2>1. pc' = [pc EXCEPT ![p] = "done"]
    BY <1>5 DEF Commit, Return
  <2>2. PoolShape'
    BY <1>5, <2>1 DEF Commit, PoolShape, PCs
  <2>3. PoolAccounted'
    BY <1>5, <2>1 DEF Commit, PoolShape, PoolAccounted
  <2> QED
    BY <2>2, <2>3
<1>6. ASSUME NEW p \in Procs, Acquire(p) PROVE PoolInv'
  <2>1. PICK c \in Free : conn' = [conn EXCEPT ![p] = c]
    BY <1>6 DEF Acquire
  <2>2. c \in Conns /\ c # NoConn /\ \A q \in Procs : tx[q] # c /\ conn[q] # c
    BY FreeIsFree
  <2>3. PoolShape'
    BY <1>6, <2>1, <2>2 DEF Acquire, PoolShape, PCs
  <2>4. PoolAccounted'
    BY <1>6, <2>1, <2>2 DEF Acquire, PoolShape, PoolAccounted
  <2> QED
    BY <2>3, <2>4
<1>7. ASSUME NEW p \in Procs, NEW e, pc[p] = "acquire", Outcome(p, e),
             UNCHANGED <<tx, conn, call>>
      PROVE  PoolInv'
  <2>1. PICK t \in After(call[p].op) : pc' = [pc EXCEPT ![p] = t]
    BY <1>7, OutcomeMoves
  <2>2. call[p].op \in {"one", "batch", "read"}
    BY <1>7, OutcomeMoves
  <2> QED
    BY <1>7, <2>1, <2>2, PoolKept DEF After, PoolShape, PoolAccounted, PCs
<1>8. ASSUME NEW p \in Procs, NEW e, pc[p] = "run", Outcome(p, e), Release(p),
             UNCHANGED call
      PROVE  PoolInv'
  <2>1. PICK t \in After(call[p].op) : pc' = [pc EXCEPT ![p] = t]
    BY <1>8, OutcomeMoves
  <2>2. call[p].op \in {"one", "batch", "read"}
    BY <1>8, OutcomeMoves
  <2>3. /\ t \in {"done", "backoff", "next"}
        /\ t = "next" <=> call[p].op = "batch"
        /\ t = "backoff" => call[p].op = "one"
    BY <2>1, <2>2 DEF After
  <2>4. PoolShape'
    BY <1>8, <2>1, <2>3 DEF Release, PoolShape, PCs
  <2>5. PoolAccounted'
    BY <1>8, <2>1, <2>3 DEF Release, PoolShape, PoolAccounted
  <2> QED
    BY <2>4, <2>5
<1>9. ASSUME NEW p \in Procs, BackoffOver(p) PROVE PoolInv'
  BY <1>9, PoolKept DEF BackoffOver, PoolShape, PoolAccounted, pool, PCs
<1>10. ASSUME NEW p \in Procs, BackoffCancelled(p) PROVE PoolInv'
  BY <1>10, PoolKept DEF BackoffCancelled, Return, PoolShape, PoolAccounted, pool, PCs
<1>11. ASSUME NEW p \in Procs, Finish(p) PROVE PoolInv'
  <2>1. PoolShape'
    BY <1>11 DEF Finish, PoolShape, pool, PCs
  <2>2. PoolAccounted'
    BY <1>11 DEF Finish, PoolShape, PoolAccounted, pool
  <2> QED
    BY <2>1, <2>2
<1>12. ASSUME NEW p \in Procs, ConnectFails(p) \/ AcquireCancelled(p) PROVE PoolInv'
  BY <1>12, <1>7 DEF ConnectFails, AcquireCancelled, pool
<1>13. ASSUME NEW p \in Procs, RunOk(p) \/ RunRefused(p) \/ RunBroken(p) PROVE PoolInv'
  BY <1>13, <1>8 DEF RunOk, RunRefused, RunBroken
<1> QED
  BY <1>0, <1>1, <1>2, <1>3, <1>4, <1>5, <1>6, <1>9, <1>10, <1>11, <1>12, <1>13
  DEF DBNext

\* Every connection is accounted for: a goroutine holds one exactly while its
\* transaction or its statement is under way, and never another one's
\* (dbstorage.go:151-187).
THEOREM PoolCorrect == DBSpec => []PoolAccounted
<1>1. DBSpec => []PoolInv
  BY PoolInit, PoolNext, PTL DEF DBSpec
<1>2. PoolInv => PoolAccounted
  BY DEF PoolInv
<1> QED
  BY <1>1, <1>2, PTL
-----------------------------------------------------------------------------
(***************************************************************************)
(* The calls and what they did to the tables.                              *)
(***************************************************************************)
\* int64 arithmetic stays in int64.
LEMMA WrapType == \A x \in Int : Wrap(x) \in Int64
<1> SUFFICES ASSUME NEW x \in Int PROVE Wrap(x) \in Int64
  OBVIOUS
<1>1. Half \in Nat /\ Half > 0
  BY MetricsAssumption
<1>2. (x + Half) % (2 * Half) \in 0 .. (2 * Half - 1)
  BY <1>1
<1> QED
  BY <1>1, <1>2 DEF Wrap, Int64

\* Storing any metric leaves well-formed contents.
LEMMA PutType == \A st \in Contents, m \in Metric : Put(st, m) \in Contents
<1> SUFFICES ASSUME NEW st \in Contents, NEW m \in Metric
             PROVE  Put(st, m) \in Contents
  OBVIOUS
<1>1. /\ m.id \in Names
      /\ st.counters \in [Names -> Int64 \cup {Nil}]
      /\ st.gauges \in [Names -> GaugeValues \cup {Nil}]
      /\ m.delta \in Int64 \cup {Nil}
      /\ m.value \in GaugeValues \cup {Nil}
  BY DEF Contents, Metric
<1>2. CASE m.mtype = "counter" /\ m.delta # Nil
  <2>1. m.delta \in Int
    BY <1>1, <1>2, MetricsAssumption DEF Int64
  <2>2. OrZero(st.counters[m.id]) \in Int
    BY <1>1, MetricsAssumption DEF OrZero, Int64
  <2>3. Wrap(OrZero(st.counters[m.id]) + m.delta) \in Int64
    BY <2>1, <2>2, WrapType
  <2> QED
    BY <1>1, <1>2, <2>3 DEF Put, Contents
<1>3. CASE m.mtype = "gauge" /\ m.value # Nil
  BY <1>1, <1>3 DEF Put, Contents
<1>4. CASE ~(m.mtype = "counter" /\ m.delta # Nil) /\ ~(m.mtype = "gauge" /\ m.value # Nil)
  BY <1>4 DEF Put
<1> QED
  BY <1>2, <1>3, <1>4

\* Every question has an answer.
LEMMA AnswerType == \A st \in Contents, q \in Queries : Answer(st, q) \in Answers
<1> SUFFICES ASSUME NEW st \in Contents, NEW q \in Queries
             PROVE  Answer(st, q) \in Answers
  OBVIOUS
<1>1. q.ids \in SUBSET Names
  BY DEF Queries
<1>2. \A n \in q.ids : (IF q.map = "counters" THEN st.counters[n] ELSE st.gauges[n])
                         \in Int64 \cup GaugeValues \cup {Nil}
  BY <1>1 DEF Contents
<1>3. Answer(st, q) \in [q.ids -> Int64 \cup GaugeValues \cup {Nil}]
  BY <1>2 DEF Answer
<1> QED
  BY <1>1, <1>3 DEF Answers

\* The history of a goroutine fits the point its call has reached: the items
\* that are left did not take effect; a single write that waits for another
\* attempt did not either, unless its context lets no attempt start.
HistoryOf(at, c, context, items, tried, res, took) ==
  /\ at = "idle" <=> c = NoCall
  /\ DOMAIN took = DOMAIN c.items
  /\ Len(items) <= Len(c.items)
  /\ at \in {"acquire", "run"} /\ c.op = "batch" => items # <<>>
  /\ c.op = "one" => items = c.items
  /\ c.op = "one" /\ at = "run" => took[1] = 0
  /\ c.op = "one" /\ at \in {"acquire", "backoff"} => took[1] = 0 \/ context # "live"
  /\ c.op = "one" /\ at = "done" /\ res = "ok" => took[1] = 1
  /\ c.op = "batch" =>
       \A i \in DOMAIN took : i >= Len(c.items) - Len(items) + 1 => took[i] = 0
  /\ at = "backoff" => tried # MaxTries

History(p) ==
  HistoryOf(pc[p], call[p], ctx[p], left[p], tries[p], result[p], applied[p])

CallTypes ==
  /\ db \in Contents
  /\ ctx \in [Procs -> {"live"} \cup CtxErrors]
  /\ left \in [Procs -> Seq(Metric)]
  /\ tries \in [Procs -> 0 .. MaxTries]
  /\ result \in [Procs -> Errors \cup {"ok", Nil}]
  /\ answer \in [Procs -> Answers \cup {Nil}]
  /\ applied \in [Procs -> Seq({0, 1})]

CallInv == CallTypes /\ \A p \in Procs : History(p)

\* A call under way, its items and its length.
LEMMA CallFacts ==
  ASSUME PoolInv, CallInv, NEW p \in Procs
  PROVE  /\ call[p].items \in Seq(Metric)
         /\ Len(call[p].items) \in Nat
         /\ Len(applied[p]) = Len(call[p].items)
         /\ call[p].op = "one" => Len(call[p].items) = 1 /\ 1 \in DOMAIN applied[p]
         /\ call[p] = NoCall => call[p].op = "none"
<1>1. call[p] \in Calls \cup {NoCall}
  BY DEF PoolInv, PoolShape
<1>2. call[p].items \in Seq(Metric)
  <2>1. CASE call[p] \in Calls
    BY <2>1, DBAssumption
  <2>2. CASE call[p] = NoCall
    BY <2>2, EmptySeq DEF NoCall
  <2> QED
    BY <1>1, <2>1, <2>2
<1>3. Len(call[p].items) \in Nat /\ DOMAIN call[p].items = 1 .. Len(call[p].items)
  BY <1>2, LenProperties
<1>4. Len(applied[p]) \in Nat /\ DOMAIN applied[p] = 1 .. Len(applied[p])
  BY LenProperties DEF CallInv, CallTypes
<1>5. Len(applied[p]) = Len(call[p].items)
  <2>1. DOMAIN applied[p] = DOMAIN call[p].items
    BY DEF CallInv, History, HistoryOf
  <2>2. \A m, n \in Nat : 1 .. m = 1 .. n => m = n
    OBVIOUS
  <2> QED
    BY <1>3, <1>4, <2>1, <2>2
<1>6. call[p].op = "one" => Len(call[p].items) = 1
  BY <1>1, DBAssumption DEF NoCall
<1>7. call[p].op = "one" => 1 \in DOMAIN applied[p]
  BY <1>4, <1>5, <1>6
<1> QED
  BY <1>2, <1>3, <1>5, <1>6, <1>7 DEF NoCall

\* A step of p leaves the calls of the other goroutines alone.
OthersStay(p) ==
  \A q \in Procs \ {p} :
    /\ pc'[q] = pc[q] /\ call'[q] = call[q] /\ ctx'[q] = ctx[q] /\ left'[q] = left[q]
    /\ tries'[q] = tries[q] /\ result'[q] = result[q] /\ applied'[q] = applied[q]

LEMMA OneHistory ==
  ASSUME CallInv, NEW p \in Procs, CallTypes', OthersStay(p), History(p)'
  PROVE  CallInv'
<1>1. ASSUME NEW q \in Procs \ {p} PROVE History(q)'
  BY <1>1 DEF CallInv, OthersStay, History
<1> QED
  BY <1>1 DEF CallInv

LEMMA CallInit == DBInit => CallInv
<1> SUFFICES ASSUME DBInit PROVE CallInv
  OBVIOUS
<1>1. EmptyContents \in Contents
  BY DEF EmptyContents, Contents
<1>2. CallTypes
  BY <1>1, EmptySeq DEF DBInit, CallTypes, MaxTries
<1>3. ASSUME NEW p \in Procs PROVE History(p)
  BY <1>3, EmptySeq DEF DBInit, History, HistoryOf, NoCall
<1> QED
  BY <1>2, <1>3 DEF CallInv

\* The first item that is left, and what is left after it.
LEMMA ItemFacts ==
  ASSUME PoolInv, CallInv, NEW p \in Procs, left[p] # <<>>
  PROVE  /\ Item(p) \in Metric
         /\ Tail(left[p]) \in Seq(Metric)
         /\ Len(left[p]) \in Nat /\ Len(left[p]) >= 1
         /\ Len(Tail(left[p])) = Len(left[p]) - 1
         /\ ItemIndex(p) \in 1 .. Len(applied[p])
<1>1. left[p] \in Seq(Metric)
  BY DEF CallInv, CallTypes
<1>2. Len(left[p]) \in Nat /\ Len(left[p]) # 0
  BY <1>1, EmptySeq
<1>3. Len(left[p]) <= Len(applied[p]) /\ Len(applied[p]) \in Nat
  BY CallFacts DEF CallInv, History, HistoryOf
<1>4. ItemIndex(p) = Len(applied[p]) - Len(left[p]) + 1
  BY CallFacts DEF ItemIndex
<1>5. ItemIndex(p) \in 1 .. Len(applied[p])
  <2>1. \A m, n \in Nat : n # 0 /\ n <= m => m - n + 1 \in 1 .. m
    OBVIOUS
  <2> QED
    BY <1>2, <1>3, <1>4, <2>1
<1>6. Item(p) \in Metric /\ Tail(left[p]) \in Seq(Metric) /\ Len(Tail(left[p])) = Len(left[p]) - 1
  BY <1>1, HeadTailProperties DEF Item
<1>7. Len(left[p]) >= 1
  BY <1>2
<1> QED
  BY <1>2, <1>5, <1>6, <1>7

\* A statement that takes effect: one more at its item's place.
LEMMA EffectFacts ==
  ASSUME PoolInv, CallInv, NEW p \in Procs, left[p] # <<>>, TakesEffect(p),
         applied[p][ItemIndex(p)] = 0
  PROVE  /\ db' \in Contents
         /\ applied' \in [Procs -> Seq({0, 1})]
         /\ applied'[p][ItemIndex(p)] = 1
         /\ DOMAIN applied'[p] = DOMAIN applied[p]
         /\ \A i \in DOMAIN applied[p] : i # ItemIndex(p) => applied'[p][i] = applied[p][i]
         /\ \A q \in Procs \ {p} : applied'[q] = applied[q]
<1>1. db' \in Contents
  BY ItemFacts, PutType DEF TakesEffect, CallInv, CallTypes
<1>2. applied[p] \in Seq({0, 1}) /\ ItemIndex(p) \in 1 .. Len(applied[p])
  BY ItemFacts DEF CallInv, CallTypes
<1> DEFINE new == [applied[p] EXCEPT ![ItemIndex(p)] = 1]
<1>3. /\ new \in Seq({0, 1})
      /\ Len(new) = Len(applied[p])
      /\ \A i \in 1 .. Len(applied[p]) :
           new[i] = IF i = ItemIndex(p) THEN 1 ELSE applied[p][i]
  BY <1>2, ExceptSeq
<1>4. DOMAIN new = DOMAIN applied[p] /\ DOMAIN applied[p] = 1 .. Len(applied[p])
  BY <1>2, LenProperties
<1>5. applied' = [applied EXCEPT ![p] = new]
  BY DEF TakesEffect
<1> HIDE DEF new
<1> QED
  BY <1>1, <1>2, <1>3, <1>4, <1>5 DEF CallInv, CallTypes

\* What a statement, or the attempt to get a connection for it, may do to the
\* tables and to the history: nothing, or one effect, if it runs.  A single
\* write is reported as done only if it took effect; and after an effect it is
\* tried again only with a context that has ended.
Attempted(p, e) ==
  /\ \/ NoEffect
     \/ pc[p] = "run" /\ call[p].op # "read" /\ TakesEffect(p)
  /\ call[p].op = "one" /\ e = "ok" => pc[p] = "run" /\ TakesEffect(p)
  /\ call[p].op = "one" /\ IsRetryable(e) /\ ctx[p] = "live" => NoEffect

\* Whatever the outcome of an attempt, the history fits.
LEMMA OutcomeKeeps ==
  ASSUME PoolInv, PoolInv', CallInv, NEW p \in Procs, NEW e \in Errors \cup {"ok"},
         pc[p] \in {"acquire", "run"}, Outcome(p, e), Attempted(p, e),
         UNCHANGED <<ctx, call, tries>>
  PROVE  CallInv'
<1> USE DEF CallInv
<1>1. call[p].op \in {"one", "batch", "read"} /\ pc'[p] # "idle" /\ pc[p] # "idle"
  BY DEF Outcome, Return, PoolInv, PoolShape
<1>2. CASE call[p].op = "read"
  <2>1. call[p].query \in Queries
    <3>1. call[p] \in Calls
      BY DEF PoolInv, PoolShape
    <3> QED
      BY <1>2, <3>1, DBAssumption
  <2>2. NoEffect
    BY <1>2 DEF Attempted
  <2>3. [n \in call[p].query.ids |-> Nil] \in Answers
    BY <2>1 DEF Queries, Answers
  <2>4. Answer(db, call[p].query) \in Answers
    BY <2>1, AnswerType DEF CallTypes
  <2>5. /\ pc' = [pc EXCEPT ![p] = "done"] /\ result' = [result EXCEPT ![p] = e]
        /\ left' = left
        /\ answer' = [answer EXCEPT ![p] = IF e = "ok" THEN Answer(db, call[p].query)
                                           ELSE [n \in call[p].query.ids |-> Nil]]
    BY <1>2 DEF Outcome, Return
  <2>6. CallTypes'
    BY <2>2, <2>3, <2>4, <2>5 DEF CallTypes, NoEffect
  <2>7. OthersStay(p)
    BY <2>2, <2>5 DEF OthersStay, NoEffect
  <2>8. History(p)'
    BY <1>1, <1>2, <2>2, <2>5 DEF History, HistoryOf, NoEffect, PoolInv, PoolShape, CallTypes
  <2> QED
    BY <2>6, <2>7, <2>8, OneHistory
<1>3. CASE call[p].op = "one"
  <2>1. /\ left[p] = call[p].items /\ Len(call[p].items) = 1 /\ left[p] # <<>>
        /\ 1 \in DOMAIN applied[p]
    <3>1. left[p] = call[p].items
      BY <1>3 DEF History, HistoryOf
    <3>2. Len(call[p].items) = 1 /\ 1 \in DOMAIN applied[p]
      BY <1>3, CallFacts
    <3>3. left[p] = <<>> => Len(left[p]) = 0
      BY EmptySeq
    <3> QED
      BY <3>1, <3>2, <3>3
  <2>2. ItemIndex(p) = 1
    BY <2>1 DEF ItemIndex
  <2>3. pc[p] = "run" => applied[p][1] = 0
    BY <1>3 DEF History, HistoryOf
  <2>4. /\ db' \in Contents /\ applied' \in [Procs -> Seq({0, 1})]
        /\ DOMAIN applied'[p] = DOMAIN applied[p]
        /\ \A q \in Procs \ {p} : applied'[q] = applied[q]
        /\ TakesEffect(p) /\ pc[p] = "run" => applied'[p][1] = 1
    <3>1. CASE NoEffect
      BY <3>1, <2>1, <2>2, <2>3, EffectFacts DEF NoEffect, CallTypes
    <3>2. CASE pc[p] = "run" /\ TakesEffect(p)
      BY <3>2, <2>1, <2>2, <2>3, EffectFacts
    <3> QED
      BY <3>1, <3>2 DEF Attempted
  <2>5. /\ left' = left /\ answer' = answer
        /\ \/ /\ pc' = [pc EXCEPT ![p] = "done"] /\ result' = [result EXCEPT ![p] = e]
           \/ /\ pc' = [pc EXCEPT ![p] = "backoff"] /\ result' = result
              /\ tries[p] # MaxTries /\ IsRetryable(e)
    BY <1>3 DEF Outcome, Return, Exhausted
  <2>6. CallTypes'
    BY <2>4, <2>5 DEF CallTypes
  <2>7. OthersStay(p)
    BY <2>4, <2>5 DEF OthersStay, CallTypes, PoolInv, PoolShape
  <2>8. /\ left'[p] = left[p] /\ call'[p] = call[p] /\ ctx'[p] = ctx[p] /\ tries'[p] = tries[p]
        /\ DOMAIN applied'[p] = DOMAIN call[p].items
        /\ call[p] # NoCall /\ Len(left[p]) <= Len(call[p].items)
    BY <1>1, <2>4, <2>5 DEF History, HistoryOf
  <2>9. ASSUME pc'[p] = "done", result'[p] = e PROVE History(p)'
    <3>1. e = "ok" => applied'[p][1] = 1
      BY <1>3, <2>4 DEF Attempted
    <3>2. HistoryOf("done", call[p], ctx[p], left[p], tries[p], e, applied'[p])
      BY <1>3, <2>1, <2>8, <3>1 DEF HistoryOf
    <3> QED
      BY <2>8, <2>9, <3>2, Zenon DEF History
  <2>10. ASSUME pc'[p] = "backoff", tries[p] # MaxTries, IsRetryable(e) PROVE History(p)'
    <3>1. applied'[p][1] = 0 \/ ctx[p] # "live"
      <4>1. CASE ctx[p] = "live"
        <5>1. NoEffect
          BY <1>3, <2>10, <4>1 DEF Attempted
        <5>2. applied[p][1] = 0
          BY <1>3, <4>1 DEF History, HistoryOf
        <5> QED
          BY <5>1, <5>2 DEF NoEffect
      <4> QED
        BY <4>1
    <3>2. HistoryOf("backoff", call[p], ctx[p], left[p], tries[p], result'[p], applied'[p])
      BY <1>3, <2>1, <2>8, <2>10, <3>1 DEF HistoryOf
    <3> QED
      BY <2>8, <2>10, <3>2, Zenon DEF History
  <2>11. History(p)'
    BY <2>5, <2>9, <2>10 DEF PoolInv, PoolShape, CallTypes
  <2> QED
    BY <2>6, <2>7, <2>11, OneHistory
<1>4. CASE call[p].op = "batch"
  <2>1. left[p] # <<>>
    BY <1>4 DEF History, HistoryOf
  <2>2. /\ ItemIndex(p) \in 1 .. Len(applied[p])
        /\ Tail(left[p]) \in Seq(Metric)
        /\ Len(left[p]) \in Nat /\ Len(left[p]) >= 1
        /\ Len(Tail(left[p])) = Len(left[p]) - 1
    BY <2>1, ItemFacts
  <2>3. \A i \in DOMAIN applied[p] : i >= ItemIndex(p) => applied[p][i] = 0
    BY <1>4 DEF History, HistoryOf, ItemIndex
  <2>4. ItemIndex(p) \in DOMAIN applied[p] /\ ItemIndex(p) \in Nat
        /\ \A i \in DOMAIN applied[p] : i \in Nat
    <3>1. DOMAIN applied[p] = 1 .. Len(applied[p])
      BY LenProperties DEF CallTypes
    <3> QED
      BY <2>2, <3>1
  <2>5. applied[p][ItemIndex(p)] = 0
    BY <2>3, <2>4
  <2>6. /\ db' \in Contents /\ applied' \in [Procs -> Seq({0, 1})]
        /\ DOMAIN applied'[p] = DOMAIN applied[p]
        /\ \A i \in DOMAIN applied[p] : i # ItemIndex(p) => applied'[p][i] = applied[p][i]
        /\ \A q \in Procs \ {p} : applied'[q] = applied[q]
    <3>1. CASE NoEffect
      BY <3>1 DEF NoEffect, CallTypes
    <3>2. CASE TakesEffect(p)
      BY <3>2, <2>1, <2>5, EffectFacts
    <3> QED
      BY <3>1, <3>2 DEF Attempted
  <2>7. /\ pc' = [pc EXCEPT ![p] = "next"] /\ left' = [left EXCEPT ![p] = Tail(left[p])]
        /\ result' = result /\ answer' = answer
    BY <1>4 DEF Outcome
  <2>8. CallTypes'
    BY <2>2, <2>6, <2>7 DEF CallTypes
  <2>9. OthersStay(p)
    BY <2>6, <2>7 DEF OthersStay, CallTypes, PoolInv, PoolShape
  <2>10. /\ left'[p] = Tail(left[p]) /\ pc'[p] = "next" /\ call'[p] = call[p]
         /\ DOMAIN applied'[p] = DOMAIN call[p].items
    BY <2>6, <2>7 DEF CallTypes, PoolInv, PoolShape, History, HistoryOf
  <2>11. /\ Len(left'[p]) <= Len(call[p].items)
         /\ Len(call[p].items) - Len(left'[p]) + 1 = ItemIndex(p) + 1
    <3>1. \A k, m, n \in Nat : n >= 1 /\ n <= m /\ k = n - 1 =>
             k <= m /\ m - k + 1 = (m - n + 1) + 1
      OBVIOUS
    <3>2. Len(left[p]) <= Len(call[p].items) /\ Len(call[p].items) \in Nat
      BY CallFacts DEF History, HistoryOf
    <3>3. Len(Tail(left[p])) \in Nat
      BY <2>2, LenProperties
    <3>4. ItemIndex(p) = Len(call[p].items) - Len(left[p]) + 1
      BY DEF ItemIndex
    <3>5. /\ Len(Tail(left[p])) <= Len(call[p].items)
          /\ Len(call[p].items) - Len(Tail(left[p])) + 1
               = (Len(call[p].items) - Len(left[p]) + 1) + 1
      BY <2>2, <3>1, <3>2, <3>3
    <3> QED
      BY <2>10, <3>4, <3>5
  <2>12. \A i \in DOMAIN applied'[p] : i >= ItemIndex(p) + 1 => applied'[p][i] = 0
    BY <2>3, <2>4, <2>6
  <2>13. History(p)'
    BY <1>1, <1>4, <2>10, <2>11, <2>12 DEF History, HistoryOf
  <2> QED
    BY <2>8, <2>9, <2>13, OneHistory
<1> QED
  BY <1>1, <1>2, <1>3, <1>4

\* A statement ends, or no connection is to be had for it.
LEMMA AttemptKeeps ==
  ASSUME PoolInv, PoolInv', CallInv, NEW p \in Procs,
         \/ ConnectFails(p) \/ AcquireCancelled(p)
         \/ RunOk(p) \/ RunRefused(p) \/ RunBroken(p)
  PROVE  CallInv'
<1>1. ASSUME ConnectFails(p) PROVE CallInv'
  <2>1. PICK e \in {"timeout", "unreachable"} : Outcome(p, e)
    BY <1>1 DEF ConnectFails
  <2>2. Attempted(p, e)
    BY <1>1, <2>1 DEF ConnectFails, Attempted, NoEffect
  <2> QED
    BY <1>1, <2>1, <2>2, OutcomeKeeps DEF ConnectFails, Errors
<1>2. ASSUME AcquireCancelled(p) PROVE CallInv'
  <2>1. ctx[p] \in CtxErrors
    BY <1>2 DEF AcquireCancelled, CallInv, CallTypes
  <2>2. Attempted(p, ctx[p])
    BY <1>2, <2>1 DEF AcquireCancelled, Attempted, NoEffect, CtxErrors
  <2> QED
    BY <1>2, <2>1, <2>2, OutcomeKeeps DEF AcquireCancelled, Errors
<1>3. ASSUME RunOk(p) PROVE CallInv'
  <2>1. Attempted(p, "ok")
    BY <1>3 DEF RunOk, Attempted, IsRetryable
  <2> QED
    BY <1>3, <2>1, OutcomeKeeps DEF RunOk
<1>4. ASSUME RunRefused(p) PROVE CallInv'
  <2>1. PICK e \in {"refused", "class08"} : Outcome(p, e)
    BY <1>4 DEF RunRefused
  <2>2. Attempted(p, e)
    BY <1>4, <2>1 DEF RunRefused, Attempted, NoEffect
  <2> QED
    BY <1>4, <2>1, <2>2, OutcomeKeeps DEF RunRefused, Errors
<1>5. ASSUME RunBroken(p) PROVE CallInv'
  <2> DEFINE e == IF ctx[p] = "live" THEN "broken" ELSE ctx[p]
  <2>1. e \in Errors /\ e # "ok" /\ (ctx[p] = "live" => ~IsRetryable(e))
    BY DEF CallInv, CallTypes, Errors, CtxErrors, IsRetryable
  <2>2. Outcome(p, e)
    BY <1>5 DEF RunBroken
  <2> HIDE DEF e
  <2>3. Attempted(p, e)
    BY <1>5, <2>1 DEF RunBroken, Attempted
  <2> QED
    BY <1>5, <2>1, <2>2, <2>3, OutcomeKeeps DEF RunBroken
<1> QED
  BY <1>1, <1>2, <1>3, <1>4, <1>5

LEMMA CallNext == PoolInv /\ PoolInv' /\ CallInv /\ [DBNext]_dbVars => CallInv'
<1> SUFFICES ASSUME PoolInv, PoolInv', CallInv, [DBNext]_dbVars PROVE CallInv'
  OBVIOUS
<1> USE DEF CallInv
<1>0. CASE UNCHANGED dbVars
  BY <1>0 DEF dbVars, pool, CallTypes, History
<1>1. ASSUME NEW p \in Procs, NEW c \in Calls, Call(p, c) PROVE CallInv'
  <2>1. c.items \in Seq(Metric) /\ c.op \in {"one", "batch", "read"} /\ c # NoCall
    BY DBAssumption DEF NoCall
  <2>2. /\ Len(c.items) \in Nat /\ DOMAIN c.items = 1 .. Len(c.items)
        /\ c.op = "one" => Len(c.items) = 1
    BY <2>1, LenProperties, DBAssumption
  <2> DEFINE none == [i \in DOMAIN c.items |-> 0]
  <2>3. none \in Seq({0, 1}) /\ DOMAIN none = DOMAIN c.items /\ \A i \in DOMAIN none : none[i] = 0
    BY <2>2
  <2> HIDE DEF none
  <2>4. applied' = [applied EXCEPT ![p] = none]
    BY <1>1 DEF Call, none
  <2>5. CallTypes'
    BY <1>1, <2>1, <2>3, <2>4 DEF Call, CallTypes, MaxTries
  <2>6. OthersStay(p)
    BY <1>1, <2>4 DEF Call, OthersStay, CallTypes, PoolInv, PoolShape
  <2>7. \A at \in {"begin", "acquire"} :
          c.op = "batch" <=> at = "begin" =>
            HistoryOf(at, c, ctx[p], c.items, 1, result[p], none)
    <3>1. ASSUME c.op = "one" PROVE none[1] = 0
      <4>1. 1 \in DOMAIN none
        <5>1. Len(c.items) = 1
          BY <2>2, <3>1
        <5>2. DOMAIN none = 1 .. 1
          BY <2>2, <2>3, <5>1, Zenon
        <5> QED
          BY <5>2
      <4> QED
        BY <2>3, <4>1
    <3> QED
      BY <2>1, <2>2, <2>3, <3>1 DEF HistoryOf, MaxTries
  <2>8. History(p)'
    BY <1>1, <2>1, <2>4, <2>7 DEF Call, History, CallTypes, PoolInv, PoolShape
  <2> QED
    BY <2>5, <2>6, <2>8, OneHistory
<1>2. ASSUME NEW p \in Procs, CtxDone(p) PROVE CallInv'
  <2>1. CallTypes'
    BY <1>2 DEF CtxDone, CallTypes
  <2>2. OthersStay(p)
    BY <1>2 DEF CtxDone, OthersStay, CallTypes
  <2>3. ctx'[p] # "live"
    BY <1>2 DEF CtxDone, CallTypes, CtxErrors
  <2>4. History(p)'
    BY <1>2, <2>3 DEF CtxDone, History, HistoryOf
  <2> QED
    BY <2>1, <2>2, <2>4, OneHistory
<1>3. ASSUME NEW p \in Procs, Begin(p) PROVE CallInv'
  <2>1. call[p].op = "batch"
    BY <1>3 DEF Begin, PoolInv, PoolShape
  <2>2. CallTypes'
    BY <1>3 DEF Begin, Return, CallTypes, Errors
  <2>3. OthersStay(p)
    BY <1>3 DEF Begin, Return, OthersStay, CallTypes, PoolInv, PoolShape
  <2>4. History(p)'
    BY <1>3, <2>1 DEF Begin, Return, History, HistoryOf, CallTypes, PoolInv, PoolShape
  <2> QED
    BY <2>2, <2>3, <2>4, OneHistory
<1>4. ASSUME NEW p \in Procs, NextItem(p) PROVE CallInv'
  <2>1. call[p].op = "batch" /\ pc[p] = "next" /\ left[p] # <<>> /\ call[p] # NoCall
    BY <1>4 DEF NextItem, PoolInv, PoolShape, History, HistoryOf
  <2>2. CASE left' = [left EXCEPT ![p] = Tail(left[p])] /\ UNCHANGED pc
    <3>1. /\ Tail(left[p]) \in Seq(Metric)
          /\ Len(left[p]) \in Nat /\ Len(left[p]) >= 1
          /\ Len(Tail(left[p])) = Len(left[p]) - 1
      BY <2>1, ItemFacts
    <3>2. CallTypes'
      BY <1>4, <2>2, <3>1 DEF NextItem, CallTypes
    <3>3. OthersStay(p)
      BY <1>4, <2>2 DEF NextItem, OthersStay, CallTypes
    <3>4. \A i \in DOMAIN applied[p] :
            i >= Len(call[p].items) - Len(Tail(left[p])) + 1 => applied[p][i] = 0
      <4>1. \A i \in DOMAIN applied[p] : i >= Len(call[p].items) - Len(left[p]) + 1 => applied[p][i] = 0
        BY <2>1 DEF History, HistoryOf
      <4>2. DOMAIN applied[p] \subseteq Nat
        BY LenProperties DEF CallTypes
      <4>3. Len(call[p].items) \in Nat
        BY CallFacts
      <4>4. \A i, k, m, n \in Nat : k = n - 1 /\ i >= m - k + 1 => i >= m - n + 1
        OBVIOUS
      <4>5. Len(Tail(left[p])) \in Nat
        BY <3>1, LenProperties
      <4>6. \A i \in Nat : i >= Len(call[p].items) - Len(Tail(left[p])) + 1
                             => i >= Len(call[p].items) - Len(left[p]) + 1
        BY <3>1, <4>3, <4>4, <4>5
      <4> QED
        BY <4>1, <4>2, <4>6
    <3>5. Len(Tail(left[p])) <= Len(call[p].items)
      <4>1. \A k, m, n \in Nat : n <= m /\ k = n - 1 => k <= m
        OBVIOUS
      <4>2. Len(left[p]) <= Len(call[p].items) /\ Len(call[p].items) \in Nat
        BY CallFacts DEF History, HistoryOf
      <4>3. Len(Tail(left[p])) \in Nat
        BY <3>1, LenProperties
      <4> QED
        BY <3>1, <4>1, <4>2, <4>3
    <3>6. HistoryOf("next", call[p], ctx[p], Tail(left[p]), tries[p], result[p], applied[p])
      BY <2>1, <3>4, <3>5 DEF History, HistoryOf
    <3>7. History(p)'
      BY <1>4, <2>1, <2>2, <3>6 DEF NextItem, History, CallTypes
    <3> QED
      BY <3>2, <3>3, <3>7, OneHistory
  <2>3. CASE pc' = [pc EXCEPT ![p] = "acquire"] /\ UNCHANGED left
    <3>1. CallTypes' /\ OthersStay(p)
      BY <1>4, <2>3 DEF NextItem, CallTypes, OthersStay, PoolInv, PoolShape
    <3>2. History(p)'
      BY <1>4, <2>1, <2>3 DEF NextItem, History, HistoryOf, PoolInv, PoolShape
    <3> QED
      BY <3>1, <3>2, OneHistory
  <2> QED
    BY <1>4, <2>2, <2>3 DEF NextItem
<1>5. ASSUME NEW p \in Procs, Commit(p) PROVE CallInv'
  <2>1. call[p].op = "batch"
    BY <1>5 DEF Commit, PoolInv, PoolShape
  <2>2. CallTypes'
    BY <1>5 DEF Commit, Return, CallTypes, Errors
  <2>3. OthersStay(p)
    BY <1>5 DEF Commit, Return, OthersStay, CallTypes, PoolInv, PoolShape
  <2>4. History(p)'
    BY <1>5, <2>1 DEF Commit, Return, History, HistoryOf, CallTypes, PoolInv, PoolShape
  <2> QED
    BY <2>2, <2>3, <2>4, OneHistory
<1>6. ASSUME NEW p \in Procs, Acquire(p) PROVE CallInv'
  <2>1. CallTypes' /\ OthersStay(p)
    BY <1>6 DEF Acquire, CallTypes, OthersStay, PoolInv, PoolShape
  <2>2. History(p)'
    BY <1>6 DEF Acquire, History, HistoryOf, PoolInv, PoolShape
  <2> QED
    BY <2>1, <2>2, OneHistory
<1>7. ASSUME NEW p \in Procs, BackoffOver(p) PROVE CallInv'
  <2>1. call[p].op = "one" /\ tries[p] # MaxTries
    BY <1>7 DEF BackoffOver, PoolInv, PoolShape, History, HistoryOf
  <2>2. tries[p] + 1 \in 0 .. MaxTries
    <3>1. tries[p] \in 0 .. 4
      BY DEF CallTypes, MaxTries
    <3> QED
      BY <2>1, <3>1 DEF MaxTries
  <2>3. CallTypes' /\ OthersStay(p)
    BY <1>7, <2>2 DEF BackoffOver, CallTypes, OthersStay, PoolInv, PoolShape
  <2>4. History(p)'
    BY <1>7, <2>1 DEF BackoffOver, History, HistoryOf, PoolInv, PoolShape
  <2> QED
    BY <2>3, <2>4, OneHistory
<1>8. ASSUME NEW p \in Procs, BackoffCancelled(p) PROVE CallInv'
  <2>1. call[p].op = "one" /\ ctx[p] \in CtxErrors
    BY <1>8 DEF BackoffCancelled, PoolInv, PoolShape, CallTypes
  <2>2. CallTypes' /\ OthersStay(p)
    BY <1>8, <2>1 DEF BackoffCancelled, Return, CallTypes, Errors, OthersStay, PoolInv, PoolShape
  <2>3. result'[p] # "ok"
    BY <1>8, <2>1 DEF BackoffCancelled, Return, CallTypes, CtxErrors
  <2>4. History(p)'
    BY <1>8, <2>1, <2>3 DEF BackoffCancelled, Return, History, HistoryOf, PoolInv, PoolShape
  <2> QED
    BY <2>2, <2>4, OneHistory
<1>9. ASSUME NEW p \in Procs, Finish(p) PROVE CallInv'
  <2>1. CallTypes'
    BY <1>9, EmptySeq DEF Finish, CallTypes, MaxTries
  <2>2. OthersStay(p)
    BY <1>9 DEF Finish, OthersStay, CallTypes, PoolInv, PoolShape
  <2>3. HistoryOf("idle", NoCall, "live", <<>>, 0, Nil, <<>>)
    BY EmptySeq DEF HistoryOf, NoCall
  <2>4. History(p)'
    BY <1>9, <2>3 DEF Finish, History, CallTypes, PoolInv, PoolShape
  <2> QED
    BY <2>1, <2>2, <2>4, OneHistory
<1> QED
  BY <1>0, <1>1, <1>2, <1>3, <1>4, <1>5, <1>6, <1>7, <1>8, <1>9, AttemptKeeps DEF DBNext

\* retryCtx neither counts an increment twice nor reports success for what did
\* not take effect, whatever breaks under it (dbstorage.go:37-61, 214-249).
THEOREM RetryCorrect == DBSpec => []DBInv
<1>1. DBSpec => []PoolInv
  BY PoolInit, PoolNext, PTL DEF DBSpec
<1>2. DBInit => CallInv
  BY CallInit
<1>3. PoolInv /\ PoolInv' /\ CallInv /\ [DBNext]_dbVars => CallInv'
  BY CallNext
<1>4. PoolInv /\ CallInv => DBInv
  <2> SUFFICES ASSUME PoolInv, CallInv PROVE DBInv
    OBVIOUS
  <2>1. DBTypeOK
    BY DEF PoolInv, PoolShape, CallInv, CallTypes, DBTypeOK, History, HistoryOf
  <2>2. NoItemTwice
    <3> SUFFICES ASSUME NEW p \in Procs, NEW i \in DOMAIN applied[p] PROVE applied[p][i] <= 1
      BY DEF NoItemTwice
    <3>1. applied[p] \in Seq({0, 1})
      BY DEF CallInv, CallTypes
    <3>2. applied[p][i] \in {0, 1}
      BY <3>1, LenProperties, ElementOfSeq
    <3> QED
      BY <3>2
  <2>3. SuccessIsApplied
    BY DEF CallInv, History, HistoryOf, SuccessIsApplied
  <2> QED
    BY <2>1, <2>2, <2>3 DEF DBInv
<1> QED
  BY <1>1, <1>2, <1>3, <1>4, PTL DEF DBSpec
==============================================================================
