------------------------------ MODULE DBStorage ------------------------------
(***************************************************************************)
(* The PostgreSQL backend (internal/storage/dbstorage) on a pool of        *)
(* connections.                                                            *)
(*                                                                         *)
(* SetGauge and IncrementCounter are one statement each, tried up to four  *)
(* times by retryCtx.  SetMetrics begins a transaction, which keeps one    *)
(* connection, and then runs every item as a statement of the POOL: on a   *)
(* second connection, committed on its own, its error only logged; the     *)
(* transaction itself is committed empty.  A read is one query; whatever   *)
(* goes wrong with it, its caller is told that there is nothing there.     *)
(*                                                                         *)
(* The database and the pool are external: a statement either takes        *)
(* effect and is answered, or is refused, or the connection breaks (or the *)
(* context ends) while it is under way, and it took effect or it did not.  *)
(***************************************************************************)
EXTENDS Metrics, SequencesExt

CONSTANTS Procs,     \* the goroutines that use the store
          Calls,     \* the calls they make: [op, items, query]
          Conns,     \* the connections the pool may open
          NoConn     \* no connection

ASSUME DBAssumption ==
  /\ NoConn \notin Conns
  /\ \A c \in Calls :
       /\ c.op \in {"one", "batch", "read"}
       /\ c.items \in Seq(Metric)
       /\ c.op = "one" => Len(c.items) = 1
       /\ c.query \in Queries \cup {Nil}
       /\ c.op = "read" => c.query \in Queries

VARIABLES
  db,      \* what is committed in the tables counter and gauge
  tx,      \* the connection of each goroutine's transaction
  conn,    \* the connection its statement runs on
  ctx,     \* the context of its request: "live", or why it ended
  pc,      \* how far its call is
  call,    \* the call it makes
  left,    \* the items it has not dealt with yet
  tries,   \* the attempts retryCtx has made
  result,  \* what the call returned: "ok", or the error
  answer,  \* what a read call answered
  applied  \* history: how often each item of the call took effect

pool   == <<tx, conn>>
dbVars == <<db, pool, ctx, pc, call, left, tries, result, answer, applied>>

PCs    == {"idle", "begin", "next", "acquire", "run", "backoff", "done"}
CtxErrors == {"deadline", "canceled"}
Errors == {"timeout", "unreachable", "class08", "refused", "broken"} \cup CtxErrors
NoCall == [op |-> "none", items |-> <<>>, query |-> Nil]

DBInit ==
  /\ db = EmptyContents
  /\ tx = [p \in Procs |-> NoConn]
  /\ conn = [p \in Procs |-> NoConn]
  /\ ctx = [p \in Procs |-> "live"]
  /\ pc = [p \in Procs |-> "idle"]
  /\ call = [p \in Procs |-> NoCall]
  /\ left = [p \in Procs |-> <<>>]
  /\ tries = [p \in Procs |-> 0]
  /\ result = [p \in Procs |-> Nil]
  /\ answer = [p \in Procs |-> Nil]
  /\ applied = [p \in Procs |-> <<>>]

(***************************************************************************)
(* The pool and the statements.                                            *)
(***************************************************************************)
InUse == (Range(tx) \cup Range(conn)) \ {NoConn}
Free  == Conns \ InUse

\* The item a statement stores: the first one left.
Item(p)      == Head(left[p])
ItemIndex(p) == Len(call[p].items) - Len(left[p]) + 1

\* An unknown type, or no value of its type.
Skipped(m) ==
  /\ ~(m.mtype = "gauge" /\ m.value # Nil)
  /\ ~(m.mtype = "counter" /\ m.delta # Nil)

\* The column is a BIGINT: where int64 would wrap around, the statement fails.
Overflows(m) ==
  m.mtype = "counter" /\ OrZero(db.counters[m.id]) + m.delta \notin Int64

\* What db.Pool.Exec does to the tables.
TakesEffect(p) ==
  /\ ~Overflows(Item(p))
  /\ db' = Put(db, Item(p))
  /\ applied' = [applied EXCEPT ![p][ItemIndex(p)] = @ + 1]
NoEffect == UNCHANGED <<db, applied>>

(***************************************************************************)
(* retryCtx.                                                               *)
(***************************************************************************)
MaxTries == 4   \* len(backoffs) + 1

Exhausted(p) == tries[p] = MaxTries

\* Faulty variant: every error is retried.
RetryAnything(e) == e # "ok"

\* isRetryablePgErr: a deadline, which a connection attempt that timed out
\* reports too, but not a cancellation.  The test for class 08 asks for the PgError type of
\* github.com/jackc/pgconn, while pgx/v5 reports errors of a type of its own:
\* it never succeeds.
IsRetryable(e) == e \in {"timeout", "deadline"}

Return(p, e) ==
  /\ pc' = [pc EXCEPT ![p] = "done"]
  /\ result' = [result EXCEPT ![p] = e]

\* What the call makes of the outcome of a statement.
Outcome(p, e) ==
  \/ /\ call[p].op = "one"
     /\ e = "ok" \/ ~IsRetryable(e) \/ Exhausted(p)
     /\ Return(p, e)
     /\ UNCHANGED <<left, answer>>
  \/ /\ call[p].op = "one"
     /\ e # "ok" /\ IsRetryable(e) /\ ~Exhausted(p)
     /\ pc' = [pc EXCEPT ![p] = "backoff"]
     /\ UNCHANGED <<left, result, answer>>
  \/ /\ call[p].op = "batch"          \* an error is logged, and that is all
     /\ pc' = [pc EXCEPT ![p] = "next"]
     /\ left' = [left EXCEPT ![p] = Tail(@)]
     /\ UNCHANGED <<result, answer>>
  \/ /\ call[p].op = "read"           \* an error reads as "no such metric"
     /\ Return(p, e)
     /\ answer' = [answer EXCEPT ![p] =
          IF e = "ok" THEN Answer(db, call[p].query)
                      ELSE [n \in call[p].query.ids |-> Nil]]
     /\ UNCHANGED left

\* Faulty variant: the connection is not given back.
ReleaseForgotten(p) == UNCHANGED pool

\* The connection of the statement goes back to the pool.
Release(p) ==
  /\ conn' = [conn EXCEPT ![p] = NoConn]
  /\ UNCHANGED tx

(***************************************************************************)
(* The calls.                                                              *)
(***************************************************************************)
Call(p, c) ==
  /\ pc[p] = "idle"
  /\ call' = [call EXCEPT ![p] = c]
  /\ left' = [left EXCEPT ![p] = c.items]
  /\ applied' = [applied EXCEPT ![p] = [i \in DOMAIN c.items |-> 0]]
  /\ pc' = [pc EXCEPT ![p] = IF c.op = "batch" THEN "begin" ELSE "acquire"]
  /\ tries' = [tries EXCEPT ![p] = 1]
  /\ UNCHANGED <<db, pool, ctx, result, answer>>

\* The service's timeout expires, or the client goes away.
CtxDone(p) ==
  /\ pc[p] \notin {"idle", "done"}
  /\ ctx[p] = "live"
  /\ \E e \in CtxErrors : ctx' = [ctx EXCEPT ![p] = e]
  /\ UNCHANGED <<db, pool, pc, call, left, tries, result, answer, applied>>

\* SetMetrics: db.Pool.Begin(context.Background()), whatever happened to the
\* request's own context.
Begin(p) ==
  /\ pc[p] = "begin"
  /\ Free # {}
  /\ \/ /\ \E c \in Free : tx' = [tx EXCEPT ![p] = c]
        /\ pc' = [pc EXCEPT ![p] = "next"]
        /\ UNCHANGED <<conn, result>>
     \/ /\ \E e \in {"timeout", "unreachable", "broken"} : Return(p, e)
        /\ UNCHANGED pool
  /\ UNCHANGED <<db, ctx, call, left, tries, answer, applied>>

\* The loop head: an item the store does not know is skipped, any other one
\* needs a connection of its own.
NextItem(p) ==
  /\ pc[p] = "next"
  /\ left[p] # <<>>
  /\ IF Skipped(Item(p))
     THEN /\ left' = [left EXCEPT ![p] = Tail(@)]
          /\ UNCHANGED pc
     ELSE /\ pc' = [pc EXCEPT ![p] = "acquire"]
          /\ UNCHANGED left
  /\ UNCHANGED <<db, pool, ctx, call, tries, result, answer, applied>>

\* tx.Commit(context.Background()); if it fails the deferred Rollback finds
\* the transaction closed.  Either way the connection goes back to the pool.
Commit(p) ==
  /\ pc[p] = "next"
  /\ left[p] = <<>>
  /\ tx' = [tx EXCEPT ![p] = NoConn]
  /\ \E e \in {"ok", "broken"} : Return(p, e)
  /\ UNCHANGED <<db, conn, ctx, call, left, tries, answer, applied>>

\* A statement gets a connection from the pool.
Acquire(p) ==
  /\ pc[p] = "acquire"
  /\ ctx[p] = "live"
  /\ \E c \in Free : conn' = [conn EXCEPT ![p] = c]
  /\ pc' = [pc EXCEPT ![p] = "run"]
  /\ UNCHANGED <<db, tx, ctx, call, left, tries, result, answer, applied>>

\* It gets none: the pool has room, but the server cannot be reached.
ConnectFails(p) ==
  /\ pc[p] = "acquire"
  /\ ctx[p] = "live"
  /\ Free # {}
  /\ \E e \in {"timeout", "unreachable"} : Outcome(p, e)
  /\ UNCHANGED <<db, pool, ctx, call, tries, applied>>

\* It gets none: its context ends first.
AcquireCancelled(p) ==
  /\ pc[p] = "acquire"
  /\ ctx[p] # "live"
  /\ Outcome(p, ctx[p])
  /\ UNCHANGED <<db, pool, ctx, call, tries, applied>>

\* The statement runs, and the connection goes back to the pool.
RunOk(p) ==
  /\ pc[p] = "run"
  /\ IF call[p].op = "read" THEN NoEffect ELSE TakesEffect(p)
  /\ Outcome(p, "ok")
  /\ Release(p)
  /\ UNCHANGED <<ctx, call, tries>>

\* The server refuses it: an overflow, or an error of class 08.
RunRefused(p) ==
  /\ pc[p] = "run"
  /\ \/ call[p].op # "read" /\ Overflows(Item(p)) /\ Outcome(p, "refused")
     \/ Outcome(p, "class08")
  /\ Release(p)
  /\ UNCHANGED <<db, ctx, call, tries, applied>>

\* The connection breaks or the context ends before the reply is there.
RunBroken(p) ==
  /\ pc[p] = "run"
  /\ NoEffect \/ (call[p].op # "read" /\ TakesEffect(p))
  /\ Outcome(p, IF ctx[p] = "live" THEN "broken" ELSE ctx[p])
  /\ Release(p)
  /\ UNCHANGED <<ctx, call, tries>>

\* Faulty variant: the attempt is not counted.
BackoffUncounted(p) ==
  /\ pc[p] = "backoff"
  /\ pc' = [pc EXCEPT ![p] = "acquire"]
  /\ UNCHANGED <<db, pool, ctx, call, left, tries, result, answer, applied>>

\* retryCtx waits for the timer or for the end of the context.
BackoffOver(p) ==
  /\ pc[p] = "backoff"
  /\ pc' = [pc EXCEPT ![p] = "acquire"]
  /\ tries' = [tries EXCEPT ![p] = @ + 1]
  /\ UNCHANGED <<db, pool, ctx, call, left, result, answer, applied>>

BackoffCancelled(p) ==
  /\ pc[p] = "backoff"
  /\ ctx[p] # "live"
  /\ Return(p, ctx[p])
  /\ UNCHANGED <<db, pool, ctx, call, left, tries, answer, applied>>

\* The caller has used the result; its next request has a context of its own.
Finish(p) ==
  /\ pc[p] = "done"
  /\ pc' = [pc EXCEPT ![p] = "idle"]
  /\ ctx' = [ctx EXCEPT ![p] = "live"]
  /\ call' = [call EXCEPT ![p] = NoCall]
  /\ left' = [left EXCEPT ![p] = <<>>]
  /\ tries' = [tries EXCEPT ![p] = 0]
  /\ result' = [result EXCEPT ![p] = Nil]
  /\ answer' = [answer EXCEPT ![p] = Nil]
  /\ applied' = [applied EXCEPT ![p] = <<>>]
  /\ UNCHANGED <<db, pool>>

Proceed(p) ==
  \/ Begin(p) \/ NextItem(p) \/ Commit(p)
  \/ Acquire(p) \/ ConnectFails(p) \/ AcquireCancelled(p)
  \/ RunOk(p) \/ RunRefused(p) \/ RunBroken(p)
  \/ BackoffOver(p) \/ BackoffCancelled(p)

DBNext ==
  \E p \in Procs :
    \/ \E c \in Calls : Call(p, c)
    \/ CtxDone(p)
    \/ Begin(p)
    \/ NextItem(p)
    \/ Commit(p)
    \/ Acquire(p)
    \/ ConnectFails(p)
    \/ AcquireCancelled(p)
    \/ RunOk(p)
    \/ RunRefused(p)
    \/ RunBroken(p)
    \/ BackoffOver(p)
    \/ BackoffCancelled(p)
    \/ Finish(p)

DBSpec == DBInit /\ [][DBNext]_dbVars

\* A goroutine that can run does run, and the pool serves those that wait for
\* a connection in their order.
Fairness == \A p \in Procs : /\ WF_dbVars(Proceed(p))
                             /\ SF_dbVars(Acquire(p) \/ ConnectFails(p))
                             /\ SF_dbVars(Begin(p))

\* The service has a timeout (StoreInterval > 0), or every client has one: the
\* agent gives a request three seconds.
Timeouts == \A p \in Procs : WF_dbVars(CtxDone(p))

TimeoutSpec == DBSpec /\ Fairness /\ Timeouts
-----------------------------------------------------------------------------
DBTypeOK ==
  /\ db \in Contents
  /\ tx \in [Procs -> Conns \cup {NoConn}]
  /\ conn \in [Procs -> Conns \cup {NoConn}]
  /\ ctx \in [Procs -> {"live"} \cup CtxErrors]
  /\ pc \in [Procs -> PCs]
  /\ call \in [Procs -> Calls \cup {NoCall}]
  /\ left \in [Procs -> Seq(Metric)]
  /\ tries \in [Procs -> 0 .. MaxTries]
  /\ result \in [Procs -> Errors \cup {"ok", Nil}]
  /\ answer \in [Procs -> Answers \cup {Nil}]
  /\ \A p \in Procs :
       /\ pc[p] = "idle" <=> call[p] = NoCall
       /\ DOMAIN applied[p] = DOMAIN call[p].items

\* No connection is used by two statements, and none is lost: a goroutine
\* holds the transaction's connection exactly while SetMetrics works on its
\* items, a second one exactly while a statement runs, and nothing when its
\* call returns, whichever error path it took.
PoolAccounted ==
  /\ \A p \in Procs :
       /\ tx[p] # NoConn <=> call[p].op = "batch" /\ pc[p] \in {"next", "acquire", "run"}
       /\ conn[p] # NoConn <=> pc[p] = "run"
       /\ tx[p] # NoConn => tx[p] # conn[p]
  /\ \A p, q \in Procs : p # q =>
       {tx[p], conn[p]} \cap {tx[q], conn[q]} \subseteq {NoConn}

\* Retrying never counts an increment twice: retryCtx repeats an attempt only
\* after an error that excludes that the statement ran, or with a context
\* that lets no further statement start.
NoItemTwice ==
  \A p \in Procs : \A i \in DOMAIN applied[p] : applied[p][i] <= 1

\* SetGauge and IncrementCounter report success only for a statement that
\* took effect; the retry loop does not run out into a nil error.
SuccessIsApplied ==
  \A p \in Procs :
    pc[p] = "done" /\ call[p].op = "one" /\ result[p] = "ok" => applied[p][1] = 1

\* retryCtx, whatever breaks under it: nothing counts twice, and success is
\* reported for what took effect only.
DBInv == DBTypeOK /\ NoItemTwice /\ SuccessIsApplied

\* Every call returns.
DBCallsReturn == \A p \in Procs : pc[p] # "idle" ~> pc[p] = "done"

\* interfaces/store.go:21-22: SetMetrics "atomically saves" the metrics and
\* "must provide transactionality": what is committed changes by whole calls.
CommittedByWholeCalls ==
  [][db' # db => \E p \in Procs : /\ call[p].op # "read"
                                  /\ db' = FoldLeft(Put, db, call[p].items)]_dbVars
=============================================================================
