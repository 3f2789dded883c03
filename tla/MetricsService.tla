--------------------------- MODULE MetricsService ---------------------------
(***************************************************************************)
(* The business logic of the server (internal/service/metrics.go) on top   *)
(* of the in-memory store.  One goroutine serves one HTTP request at a     *)
(* time.  A request is validated, and then makes one, two or no calls of   *)
(* the store; between two calls of a request the lock is free, and other   *)
(* requests get in.                                                        *)
(*                                                                         *)
(* Requests arrive until MaxRequests have been served; the history of what *)
(* the store published is kept, so that an answer can be compared with the *)
(* contents that existed while the request was served.                     *)
(***************************************************************************)
EXTENDS MemStorage, SequencesExt

CONSTANTS Requests,     \* the requests clients send: [op, items]
          MaxRequests   \* bound: how many requests arrive

\* What a handler gets from the service.
Responses == [err    : {"ok", "ErrInvalidType", "ErrBadValue", "ErrNotFound"},
              metric : Metric \cup {Nil},
              lists  : [{"gauges", "counters"} -> Answers] \cup {Nil}]

ASSUME ServiceAssumption ==
  /\ MaxRequests \in Nat
  /\ Nil \notin Responses \cup Answers
  /\ \A r \in Requests :
       /\ r.op \in {"Update", "UpdateBatch", "Get", "List"}
       /\ r.items \in Seq(Metric)
       /\ r.op \in {"Update", "Get"} => Len(r.items) = 1
       /\ r.op = "Update" => <<r.items[1]>> \in Writes
       /\ r.op = "UpdateBatch" => r.items \in Writes

VARIABLES
  stage,    \* how far each goroutine's handler is
  req,      \* the request it serves
  resp,     \* what the service returned
  listed,   \* the map List has read so far
  arrived,  \* the number of requests received
  log,      \* history: every contents the store published, in order
  since     \* history: the length of log when the answer became possible

serviceVars == <<stage, req, resp, listed, arrived>>
histVars    == <<log, since>>
vars        == <<memVars, serviceVars, histVars>>

Stages == {"idle", "writing", "written", "reading", "first", "between",
           "second", "done"}

NoRequest == [op |-> "none", items |-> <<>>]

\* Faulty variant: List reads the counters first.
ListOrderSwapped == <<"counters", "gauges">>

\* The order in which List reads the maps of the store.
ListOrder == <<"gauges", "counters">>

\* A response: the error, or "ok" with a metric or the two maps of List.
Failed(err) == [err |-> err, metric |-> Nil, lists |-> Nil]
Ok          == Failed("ok")
OkMetric(m) == [Ok EXCEPT !.metric = m]
OkList(first, second) ==
  [Ok EXCEPT !.lists = [map \in {"gauges", "counters"} |->
                          IF map = ListOrder[1] THEN first ELSE second]]

ServiceInit ==
  /\ MemInit
  /\ stage = [p \in Procs |-> "idle"]
  /\ req = [p \in Procs |-> NoRequest]
  /\ resp = [p \in Procs |-> Nil]
  /\ listed = [p \in Procs |-> Nil]
  /\ arrived = 0
  /\ log = <<EmptyContents>>
  /\ since = [p \in Procs |-> 1]

(***************************************************************************)
(* Validation.                                                             *)
(***************************************************************************)
BadType(m)  == m.mtype \notin {"gauge", "counter"}
BadValue(m) == \/ m.mtype = "gauge" /\ m.value = Nil
               \/ m.mtype = "counter" /\ m.delta = Nil

\* Faulty variant: only the first item is validated.
VerdictOfFirst(items) ==
  IF items = <<>> THEN "ok"
  ELSE IF BadType(items[1]) THEN "ErrInvalidType"
  ELSE IF BadValue(items[1]) THEN "ErrBadValue" ELSE "ok"

\* The first offending item decides the error.
Verdict(items) ==
  LET bad == {i \in DOMAIN items : BadType(items[i]) \/ BadValue(items[i])}
  IN  IF bad = {} THEN "ok"
      ELSE IF BadValue(items[Min(bad)]) THEN "ErrBadValue" ELSE "ErrInvalidType"

One(m) == [map |-> IF m.mtype = "counter" THEN "counters" ELSE "gauges",
           ids |-> {m.id}]
All(map) == [map |-> map, ids |-> Names]

\* The history grows whenever the store publishes something new.
Logged == log' = IF Published' # Published THEN Append(log, Published') ELSE log

(***************************************************************************)
(* A request arrives.                                                      *)
(***************************************************************************)
Respond(p, r) ==
  /\ resp' = [resp EXCEPT ![p] = r]
  /\ stage' = [stage EXCEPT ![p] = "done"]

Arrive(p, r) ==
  /\ stage[p] = "idle"
  /\ arrived < MaxRequests
  /\ arrived' = arrived + 1
  /\ req' = [req EXCEPT ![p] = r]
  /\ since' = [since EXCEPT ![p] = Len(log)]
  /\ UNCHANGED <<listed, log>>

\* Update and UpdateBatch: the repository is called only if every item is
\* valid.
ArriveWrite(p, r) ==
  /\ r.op \in {"Update", "UpdateBatch"}
  /\ Arrive(p, r)
  /\ IF Verdict(r.items) = "ok"
     THEN /\ CallWrite(p, r.items)
          /\ stage' = [stage EXCEPT ![p] = "writing"]
          /\ UNCHANGED resp
     ELSE /\ Respond(p, Failed(Verdict(r.items)))
          /\ UNCHANGED memVars

ArriveGet(p, r) ==
  /\ r.op = "Get"
  /\ Arrive(p, r)
  /\ IF BadType(r.items[1])
     THEN /\ Respond(p, Failed("ErrInvalidType"))
          /\ UNCHANGED memVars
     ELSE /\ CallRead(p, One(r.items[1]))
          /\ stage' = [stage EXCEPT ![p] = "reading"]
          /\ UNCHANGED resp

ArriveList(p, r) ==
  /\ r.op = "List"
  /\ Arrive(p, r)
  /\ CallRead(p, All(ListOrder[1]))
  /\ stage' = [stage EXCEPT ![p] = "first"]
  /\ UNCHANGED resp

(***************************************************************************)
(* The store's own steps, and what the service does with their results.    *)
(***************************************************************************)
StoreStep(p) ==
  /\ Proceed(p)
  /\ Logged
  /\ IF stage[p] = "writing" /\ pc[p] = "write" /\ pc'[p] = "idle"
     THEN /\ stage' = [stage EXCEPT ![p] = "written"]
          /\ since' = [since EXCEPT ![p] = Len(log')]
     ELSE UNCHANGED <<stage, since>>
  /\ UNCHANGED <<req, resp, listed, arrived>>

\* UpdateBatch returns as soon as the repository does.
BatchDone(p) ==
  /\ stage[p] = "written"
  /\ req[p].op = "UpdateBatch"
  /\ Respond(p, Ok)
  /\ UNCHANGED <<memVars, req, listed, arrived, histVars>>

\* Update reads the metric back, in a call of its own.
ReadBack(p) ==
  /\ stage[p] = "written"
  /\ req[p].op = "Update"
  /\ CallRead(p, One(req[p].items[1]))
  /\ stage' = [stage EXCEPT ![p] = "reading"]
  /\ UNCHANGED <<req, resp, listed, arrived, histVars>>

\* What Update and Get make of the value that was read: Update leaves the
\* metric it was given alone when there is none, Get reports ErrNotFound.
WithValue(m, v) == IF m.mtype = "counter" THEN [m EXCEPT !.delta = v]
                                          ELSE [m EXCEPT !.value = v]

MetricRead(p) ==
  LET m == req[p].items[1]
      v == ret[p][m.id]
  IN  /\ stage[p] = "reading"
      /\ Forget(p)
      /\ Respond(p, IF v # Nil THEN OkMetric(WithValue(m, v))
                    ELSE IF req[p].op = "Update" THEN OkMetric(m)
                    ELSE Failed("ErrNotFound"))
      /\ UNCHANGED <<req, listed, arrived, histVars>>

FirstRead(p) ==
  /\ stage[p] = "first"
  /\ Forget(p)
  /\ listed' = [listed EXCEPT ![p] = ret[p]]
  /\ stage' = [stage EXCEPT ![p] = "between"]
  /\ UNCHANGED <<req, resp, arrived, histVars>>

ListSecond(p) ==
  /\ stage[p] = "between"
  /\ CallRead(p, All(ListOrder[2]))
  /\ stage' = [stage EXCEPT ![p] = "second"]
  /\ UNCHANGED <<req, resp, listed, arrived, histVars>>

SecondRead(p) ==
  /\ stage[p] = "second"
  /\ Forget(p)
  /\ Respond(p, OkList(listed[p], ret[p]))
  /\ listed' = [listed EXCEPT ![p] = Nil]
  /\ UNCHANGED <<req, arrived, histVars>>

\* The handler sends the response; the goroutine is free.
Sent(p) ==
  /\ stage[p] = "done"
  /\ stage' = [stage EXCEPT ![p] = "idle"]
  /\ req' = [req EXCEPT ![p] = NoRequest]
  /\ resp' = [resp EXCEPT ![p] = Nil]
  /\ UNCHANGED <<memVars, listed, arrived, histVars>>

\* Nothing is left to do once the last request has been served.
Quiet ==
  /\ arrived = MaxRequests
  /\ \A p \in Procs : stage[p] = "idle"
  /\ UNCHANGED vars

ServiceNext ==
  \/ \E p \in Procs :
       \/ \E r \in Requests : ArriveWrite(p, r) \/ ArriveGet(p, r) \/ ArriveList(p, r)
       \/ StoreStep(p)
       \/ BatchDone(p)
       \/ ReadBack(p)
       \/ MetricRead(p)
       \/ FirstRead(p)
       \/ ListSecond(p)
       \/ SecondRead(p)
       \/ Sent(p)
  \/ Quiet

ServiceSpec == ServiceInit /\ [][ServiceNext]_vars
-----------------------------------------------------------------------------
ServiceTypeOK ==
  /\ MemTypeOK
  /\ stage \in [Procs -> Stages]
  /\ \A p \in Procs :
       /\ stage[p] = "idle" => req[p] = NoRequest
       /\ stage[p] # "idle" => req[p] \in Requests
       /\ IF stage[p] = "done" THEN resp[p] \in Responses ELSE resp[p] = Nil
       /\ listed[p] # Nil <=> stage[p] \in {"between", "second"}
       /\ since[p] \in 1 .. Len(log)
  /\ arrived \in 0 .. MaxRequests
  /\ log \in Seq(Contents)

\* The contents that existed at some moment since the request could be
\* answered: since it arrived, or, if it wrote, since its write.
During(p) == since[p] .. Len(log)

\* The value a metric has in some contents.
ValueIn(st, m) == Answer(st, One(m))[m.id]
ValueOf(m)     == IF m.mtype = "counter" THEN m.delta ELSE m.value

\* An accepted Update answers with a value its metric really had at or after
\* its own write, though it reads it back in a second critical section where
\* others may have written; Get answers with a value, or an absence, from
\* while it was served (metrics.go:41-46 "returns the updated metric with
\* the actual value").
MetricAnswersReal ==
  \A p \in Procs : stage[p] = "done" /\ req[p].op \in {"Update", "Get"} =>
    /\ resp[p].err = "ok" =>
         \E i \in During(p) : ValueIn(log[i], resp[p].metric) = ValueOf(resp[p].metric)
    /\ resp[p].err = "ErrNotFound" =>
         \E i \in During(p) : ValueIn(log[i], req[p].items[1]) = Nil

\* List reads gauges and counters under two separate locks, so its answer is
\* not one moment's contents; but the counters are never older than the
\* gauges, so whoever sees a batch's gauges also sees its counters.
ListCountersNotOlder ==
  \A p \in Procs : stage[p] = "done" /\ req[p].op = "List" =>
    \E i \in During(p), j \in During(p) :
      /\ i <= j
      /\ resp[p].lists["gauges"] = log[i].gauges
      /\ resp[p].lists["counters"] = log[j].counters

\* What concurrent requests are answered is real.
ServiceInv == ServiceTypeOK /\ MetricAnswersReal /\ ListCountersNotOlder

\* Whenever what readers see changes, it changes by all the items of one
\* request, applied in order to what was there, and every one of the items
\* is valid (metrics.go:51-53 "all metrics must be valid, otherwise the
\* operation is cancelled as a whole").
WholeRequestsOnly ==
  [][Published' # Published =>
       \E p \in Procs :
         /\ stage[p] = "writing" /\ stage'[p] = "written"
         /\ \A m \in Range(req[p].items) : ~BadType(m) /\ ~BadValue(m)
         /\ Published' = FoldLeft(Put, Published, req[p].items)]_vars
=============================================================================
