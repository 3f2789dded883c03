------------------------------- MODULE Pipeline -------------------------------
(***************************************************************************)
(* A request on its way through the server (internal/router): the gzip     *)
(* middleware, the logger, the check of the HMAC, the handler and back.    *)
(*                                                                         *)
(* Requests are served concurrently.  They share the store, the pool of    *)
(* gzip writers and the pool of JSON buffers.  A pool hands out any object *)
(* nobody has; its New is an object that was never used.                   *)
(*                                                                         *)
(* A handler's call of the service is one step, and a second one where it  *)
(* reads back what it wrote; MetricsService looks inside these calls.  The *)
(* store is the memory, whose calls never fail and which stores a batch as *)
(* a whole, or the database, whose calls may fail and which gets a batch   *)
(* statement by statement (DBStorage).  net/http sends the first status it *)
(* is given.                                                               *)
(***************************************************************************)
EXTENDS Metrics, FiniteSets, SequencesExt

CONSTANTS Handlers,     \* the goroutines that serve requests
          Requests,     \* what clients send: [route, coding, accept, sum, items]
          Configs,      \* [backend, key]: the store, and whether there is a key
          Writers,      \* gzip.Writers
          Buffers,      \* the bytes.Buffers of Handler.bufferPool
          NoObject,     \* no writer, no buffer
          Unencodable   \* the gauges encoding/json refuses: NaN and infinities

Routes   == {"update", "updateURL", "updates", "value", "valueURL", "home", "ping"}

\* How the body is sent: in a gzip stream or not, what claims to be one and is
\* none, a stream that ends too early, one whose checksum is wrong.
Codings  == {"plain", "gzip", "noGzip", "truncated", "checksum"}

\* The HMAC in the header: none, that of the body, that of the compressed
\* body, another.
Sums     == {"none", "ofBody", "ofWire", "other"}

ASSUME PipelineAssumption ==
  /\ NoObject \notin Writers \cup Buffers
  /\ Unencodable \subseteq GaugeValues
  /\ \A r \in Requests :
       /\ r.route \in Routes /\ r.coding \in Codings /\ r.sum \in Sums
       /\ r.accept \in BOOLEAN
       /\ r.coding = "plain" => r.sum # "ofWire"
       /\ r.items = Nil \/ r.items \in Seq(Metric)
       /\ r.items # Nil /\ r.route \in {"update", "updateURL", "value", "valueURL"} =>
            Len(r.items) = 1
       \* a URL names its metric; one without a value for it has none at all
       /\ r.route = "valueURL" => r.items # Nil
       /\ r.items # Nil /\ r.route = "updateURL" =>
            /\ r.items[1].mtype = "gauge" => r.items[1].value # Nil
            /\ r.items[1].mtype = "counter" => r.items[1].delta # Nil
       \* JSON has no NaN; a URL has
       /\ r.items # Nil /\ r.route # "updateURL" =>
            \A i \in DOMAIN r.items : r.items[i].value \notin Unencodable

VARIABLES
  config,   \* the configuration the server runs with
  st,       \* the contents of the store
  pc,       \* how far each request is
  req,      \* the request; items = Nil: the handler cannot decode it
  resp,     \* [status, parts]: what the client gets, parts in order
  seen,     \* the last status the logger's wrapper was given
  logged,   \* the status in the log, or Nil
  answer,   \* the value the handler is about to send
  applied,  \* the items of the request that are stored
  lost,     \* the items of a batch whose own statement the database reports failed
  event,    \* history: whether an audit event was sent
  past,     \* history: the values the metric of the request had in the store while
            \* it was handled, or, for an update, since it was stored
  missed,   \* history: whether a call of the database failed, those items aside
  writer,   \* the gzip.Writer of each request
  target,   \* the response each gzip.Writer writes to (Reset)
  buffer,   \* the JSON buffer of each request
  content   \* whose answer is in each buffer

wires == <<writer, target, buffer, content>>
pipelineVars ==
  <<config, st, pc, req, resp, seen, logged, answer, applied, lost, event, past,
    missed, wires>>

NoRequest  == [route |-> "none", coding |-> "plain", accept |-> FALSE, sum |-> "none",
               items |-> Nil]
NoResponse == [status |-> 0, parts |-> <<>>]

PipelineInit ==
  /\ config \in Configs
  /\ st = EmptyContents
  /\ pc = [h \in Handlers |-> "idle"]
  /\ req = [h \in Handlers |-> NoRequest]
  /\ resp = [h \in Handlers |-> NoResponse]
  /\ seen = [h \in Handlers |-> 0]
  /\ logged = [h \in Handlers |-> Nil]
  /\ answer = [h \in Handlers |-> Nil]
  /\ applied = [h \in Handlers |-> {}]
  /\ lost = [h \in Handlers |-> {}]
  /\ event = [h \in Handlers |-> FALSE]
  /\ past = [h \in Handlers |-> {}]
  /\ missed = [h \in Handlers |-> FALSE]
  /\ writer = [h \in Handlers |-> NoObject]
  /\ target = [w \in Writers |-> NoObject]
  /\ buffer = [h \in Handlers |-> NoObject]
  /\ content = [b \in Buffers |-> NoObject]

(***************************************************************************)
(* The response.                                                           *)
(***************************************************************************)
Part(what, h) == [what |-> what, of |-> h]

\* net/http: the first status counts, and a body without one has 200.
WithStatus(rs, code) == [rs EXCEPT !.status = IF @ = 0 THEN code ELSE @]
WithPart(rs, part)   == [WithStatus(rs, 200) EXCEPT !.parts = Append(@, part)]

\* Where the body written by a handler goes: to the writer's target.
Sink(h) == IF writer[h] = NoObject THEN h ELSE target[writer[h]]

\* rw.WriteHeader(code), and rw.Write of a part, behind the logger's wrapper.
Answered(h, code, part) ==
  /\ resp' = LET rs == [resp EXCEPT ![h] = WithStatus(@, code)]
             IN  [rs EXCEPT ![Sink(h)] = WithPart(@, part)]
  /\ seen' = [seen EXCEPT ![h] = code]

\* rw.WriteHeader(code) without a body.
Status(h, code) ==
  /\ resp' = [resp EXCEPT ![h] = WithStatus(@, code)]
  /\ seen' = [seen EXCEPT ![h] = code]

Goto(h, label) == pc' = [pc EXCEPT ![h] = label]

\* Faulty variant: the return after http.Error is missing.
FailGoesOn(h, code) ==
  /\ resp' = LET rs == [resp EXCEPT ![h] = WithStatus(@, code)]
             IN  [rs EXCEPT ![Sink(h)] = WithPart(@, Part("error", h))]
  /\ seen' = [seen EXCEPT ![h] = 200]
  /\ Goto(h, "log")

\* http.Error, and return.
Fail(h, code) ==
  /\ Answered(h, code, Part("error", h))
  /\ Goto(h, "log")

(***************************************************************************)
(* The middleware on the way in.                                           *)
(***************************************************************************)
Arrive(h, r) ==
  /\ pc[h] = "idle"
  /\ req' = [req EXCEPT ![h] = r]
  /\ Goto(h, "gunzip")
  /\ UNCHANGED <<config, st, resp, seen, logged, answer, applied, lost, event, missed, wires>>

\* gzip.NewReader rejects the body before the logger is there.
NotGzip(h) ==
  /\ pc[h] = "gunzip"
  /\ req[h].coding = "noGzip"
  /\ resp' = [resp EXCEPT ![h] = [status |-> 400, parts |-> <<Part("error", h)>>]]
  /\ Goto(h, "done")
  /\ UNCHANGED <<config, st, req, seen, logged, answer, applied, lost, event, missed, wires>>

\* Faulty variant: one writer for all requests.
FreeWritersAll == Writers

FreeWriters == Writers \ {writer[h] : h \in Handlers}

\* The body will be decompressed as it is read; a response the client accepts
\* compressed goes through a writer of the pool.
Gunzip(h) ==
  /\ pc[h] = "gunzip"
  /\ req[h].coding # "noGzip"
  /\ IF req[h].accept
     THEN \E w \in FreeWriters : /\ writer' = [writer EXCEPT ![h] = w]
                                 /\ target' = [target EXCEPT ![w] = h]
     ELSE UNCHANGED <<writer, target>>
  /\ Goto(h, "hash")
  /\ UNCHANGED <<config, st, req, resp, seen, logged, answer, applied, lost, event, missed,
                 buffer, content>>

\* Faulty variant: the logger hands on what it read although reading failed.
ReadableInPart(r) == r.coding \in {"plain", "gzip", "checksum"}

\* The logger reads the body to its end.  If that fails it does not replace
\* it, and whoever reads on gets the reader's error again.
Readable(r) == r.coding \in {"plain", "gzip"}

\* Faulty variant: the check comes before the decompression.
SumMatchesWire(r) == r.sum = IF r.coding = "plain" THEN "ofBody" ELSE "ofWire"

\* HashValidationMiddleware compares with the sum of the decompressed body.
SumMatches(r) == r.sum = "ofBody"

\* The routes that are registered with it.
Checked(h) ==
  /\ req[h].route \in {"update", "updateURL", "updates", "value"}
  /\ config.key
  /\ req[h].sum # "none"

HashCheck(h) ==
  /\ pc[h] = "hash"
  /\ \/ /\ Checked(h) => Readable(req[h]) /\ SumMatches(req[h])
        /\ Goto(h, "handle")
        /\ UNCHANGED <<resp, seen>>
     \/ /\ Checked(h) /\ ~Readable(req[h])
        /\ Fail(h, 500)
     \/ /\ Checked(h) /\ Readable(req[h]) /\ ~SumMatches(req[h])
        /\ Fail(h, 400)
  /\ UNCHANGED <<config, st, req, logged, answer, applied, lost, event, missed, wires>>

(***************************************************************************)
(* The handlers and the service.                                           *)
(***************************************************************************)
Fallible == config.backend = "database"

\* The JSON decoder, or the parameters of the URL.
Decodes(r) ==
  CASE r.route \in {"update", "updates", "value"} -> Readable(r) /\ r.items # Nil
    [] r.route = "updateURL" -> r.items # Nil /\ Head(r.items).mtype # "other"
    [] OTHER -> TRUE

Item(h) == Head(req[h].items)

\* The service's verdict on a metric to be stored, and on a list of them: that
\* of the first bad one.
Verdict(m) ==
  CASE m.mtype = "gauge" /\ m.value = Nil -> "ErrBadValue"
    [] m.mtype = "counter" /\ m.delta = Nil -> "ErrBadValue"
    [] m.mtype = "other" -> "ErrInvalidType"
    [] OTHER -> "nil"

Bad(items) == {i \in DOMAIN items : Verdict(items[i]) # "nil"}

\* Faulty variant: a value that is missing counts as an internal error.
HttpStatusOfType(err) ==
  CASE err = "ErrInvalidType" -> 400
    [] err = "ErrNotFound" -> 404
    [] OTHER -> 500

\* What the handlers answer to an error of the service.
HttpStatus(err) ==
  CASE err \in {"ErrInvalidType", "ErrBadValue"} -> 400
    [] err = "ErrNotFound" -> 404
    [] OTHER -> 500

CannotDecode(h) ==
  /\ pc[h] = "handle"
  /\ ~Decodes(req[h])
  /\ Fail(h, 400)
  /\ UNCHANGED <<config, st, req, logged, answer, applied, lost, event, missed, wires>>

Serving(h, routes) ==
  /\ pc[h] = "handle"
  /\ req[h].route \in routes
  /\ Decodes(req[h])

RejectWrite(h) ==
  /\ Serving(h, {"update", "updates"})
  /\ \E i \in Bad(req[h].items) :
       /\ \A j \in Bad(req[h].items) : i <= j
       /\ Fail(h, HttpStatus(Verdict(req[h].items[i])))
  /\ UNCHANGED <<config, st, req, logged, answer, applied, lost, event, missed, wires>>

\* A BIGINT does not wrap around: the statement fails.
Fits(m) ==
  Fallible /\ m.mtype = "counter" => OrZero(st.counters[m.id]) + m.delta \in Int64

\* Update stores the metric, and will read it back.
SetOne(h) ==
  /\ Serving(h, {"update", "updateURL"})
  /\ Bad(req[h].items) = {}
  /\ Fits(Item(h))
  /\ st' = Put(st, Item(h))
  /\ applied' = [applied EXCEPT ![h] = {1}]
  /\ Goto(h, "readback")
  /\ UNCHANGED <<config, req, resp, seen, logged, answer, lost, event, missed, wires>>

\* The statement fails, and may have taken effect all the same.
SetOneFails(h) ==
  /\ Fallible
  /\ Serving(h, {"update", "updateURL"})
  /\ Bad(req[h].items) = {}
  /\ \/ UNCHANGED <<st, applied>>
     \/ /\ Fits(Item(h))
        /\ st' = Put(st, Item(h))
        /\ applied' = [applied EXCEPT ![h] = {1}]
  /\ missed' = [missed EXCEPT ![h] = TRUE]
  /\ Fail(h, HttpStatus("error"))
  /\ UNCHANGED <<config, req, logged, answer, lost, event, wires>>

\* The value of m's metric in the store, or Nil.
Stored(m) == IF m.mtype = "gauge" THEN st.gauges[m.id] ELSE st.counters[m.id]
Sent(m)   == IF m.mtype = "gauge" THEN m.value ELSE m.delta

\* Faulty variant: the metric is answered as it was sent.
ReadBackNothing(h) ==
  /\ pc[h] = "readback"
  /\ event' = [event EXCEPT ![h] = TRUE]
  /\ answer' = [answer EXCEPT ![h] = Sent(Item(h))]
  /\ IF req[h].route = "update"
     THEN Goto(h, "encode") /\ UNCHANGED <<resp, seen>>
     ELSE Status(h, 200) /\ Goto(h, "log")
  /\ UNCHANGED <<config, st, req, logged, applied, lost, missed, wires>>

\* Update reads the metric back; if that fails it answers what was sent.  The
\* audit event goes out before the answer is encoded.
ReadBack(h) ==
  /\ pc[h] = "readback"
  /\ event' = [event EXCEPT ![h] = TRUE]
  /\ \E fails \in IF Fallible THEN BOOLEAN ELSE {FALSE} :
       /\ missed' = [missed EXCEPT ![h] = fails]
       /\ answer' = [answer EXCEPT ![h] = IF fails \/ Stored(Item(h)) = Nil
                                         THEN Sent(Item(h)) ELSE Stored(Item(h))]
  /\ IF req[h].route = "update"
     THEN Goto(h, "encode") /\ UNCHANGED <<resp, seen>>
     ELSE Status(h, 200) /\ Goto(h, "log")
  /\ UNCHANGED <<config, st, req, logged, applied, lost, wires>>

\* The contents when all items of a batch are stored.
Batch(items) == FoldLeft(Put, st, items)

\* Faulty variant: the items are checked and stored one by one.
SetManyOneByOne(h) ==
  LET items == req[h].items
      good  == {i \in DOMAIN items : \A j \in 1 .. i : Verdict(items[j]) = "nil"}
  IN  /\ Serving(h, {"updates"})
      /\ st' = Batch(SubSeq(items, 1, Cardinality(good)))
      /\ applied' = [applied EXCEPT ![h] = good]
      /\ IF good = DOMAIN items
         THEN /\ event' = [event EXCEPT ![h] = TRUE]
              /\ Status(h, 200) /\ Goto(h, "log")
         ELSE Fail(h, 400) /\ UNCHANGED event
      /\ UNCHANGED <<config, req, logged, answer, lost, missed, wires>>

\* UpdateBatch on the memory: the store takes the whole batch under its lock.
SetMany(h) ==
  /\ ~Fallible
  /\ Serving(h, {"updates"})
  /\ Bad(req[h].items) = {}
  /\ st' = Batch(req[h].items)
  /\ applied' = [applied EXCEPT ![h] = DOMAIN req[h].items]
  /\ event' = [event EXCEPT ![h] = TRUE]
  /\ Status(h, 200)
  /\ Goto(h, "log")
  /\ UNCHANGED <<config, req, logged, answer, lost, missed, wires>>

\* UpdateBatch on the database: a transaction begins, which no statement uses.
BeginBatch(h) ==
  /\ Fallible
  /\ Serving(h, {"updates"})
  /\ Bad(req[h].items) = {}
  /\ Goto(h, "batch")
  /\ UNCHANGED <<config, st, req, resp, seen, logged, answer, applied, lost, event, missed,
                 wires>>

\* The items of the batch whose statements have been executed.
Tried(h) == applied[h] \cup lost[h]

\* The next item has a statement of its own.  It takes effect, or fails, or
\* both; an error is only logged.
SetItem(h) ==
  /\ pc[h] = "batch"
  /\ \E i \in DOMAIN req[h].items \ Tried(h), takes, fails \in BOOLEAN :
       /\ 1 .. i - 1 \subseteq Tried(h)
       /\ takes \/ fails
       /\ takes => Fits(req[h].items[i])
       /\ st' = IF takes THEN Put(st, req[h].items[i]) ELSE st
       /\ applied' = [applied EXCEPT ![h] = IF takes THEN @ \cup {i} ELSE @]
       /\ lost' = [lost EXCEPT ![h] = IF fails THEN @ \cup {i} ELSE @]
  /\ UNCHANGED <<config, pc, req, resp, seen, logged, answer, event, missed, wires>>

\* The commit succeeds, and so does the call, whatever became of the items.
CommitBatch(h) ==
  /\ pc[h] = "batch"
  /\ Tried(h) = DOMAIN req[h].items
  /\ event' = [event EXCEPT ![h] = TRUE]
  /\ Status(h, 200)
  /\ Goto(h, "log")
  /\ UNCHANGED <<config, st, req, logged, answer, applied, lost, missed, wires>>

\* There is no transaction, or no commit, which takes no item back.
SetManyFails(h) ==
  /\ Fallible
  /\ \/ Serving(h, {"updates"}) /\ Bad(req[h].items) = {}
     \/ pc[h] = "batch" /\ Tried(h) = DOMAIN req[h].items
  /\ missed' = [missed EXCEPT ![h] = TRUE]
  /\ Fail(h, HttpStatus("error"))
  /\ UNCHANGED <<config, st, req, logged, answer, applied, lost, event, wires>>

\* GetHandler writes the text without a status of its own; ValueHandlerJSON
\* has yet to encode it.
Get(h) ==
  /\ Serving(h, {"value", "valueURL"})
  /\ Item(h).mtype # "other" /\ Stored(Item(h)) # Nil
  /\ answer' = [answer EXCEPT ![h] = Stored(Item(h))]
  /\ IF req[h].route = "value"
     THEN Goto(h, "encode") /\ UNCHANGED resp
     ELSE /\ resp' = [resp EXCEPT ![Sink(h)] = WithPart(@, Part("answer", h))]
          /\ Goto(h, "log")
  /\ UNCHANGED <<config, st, req, seen, logged, applied, lost, event, missed, wires>>

\* A query that fails looks like a metric that is not there.
GetFails(h) ==
  /\ Serving(h, {"value", "valueURL"})
  /\ \/ /\ Item(h).mtype = "other"
        /\ Fail(h, HttpStatus("ErrInvalidType"))
        /\ UNCHANGED missed
     \/ /\ Item(h).mtype # "other"
        /\ \/ Stored(Item(h)) = Nil /\ UNCHANGED missed
           \/ Fallible /\ missed' = [missed EXCEPT ![h] = TRUE]
        /\ Fail(h, HttpStatus("ErrNotFound"))
  /\ UNCHANGED <<config, st, req, logged, answer, applied, lost, event, wires>>

Home(h) ==
  /\ Serving(h, {"home"})
  /\ Answered(h, 200, Part("answer", h))
  /\ Goto(h, "log")
  /\ UNCHANGED <<config, st, req, logged, answer, applied, lost, event, missed, wires>>

Ping(h) ==
  /\ Fallible
  /\ Serving(h, {"ping"})
  /\ \/ Status(h, 200) /\ UNCHANGED missed
     \/ Status(h, 500) /\ missed' = [missed EXCEPT ![h] = TRUE]
  /\ Goto(h, "log")
  /\ UNCHANGED <<config, st, req, logged, answer, applied, lost, event, wires>>

\* main pings postgres.Pool, which is nil without a database: the handler
\* panics.  The deferred calls run, but net/http drops the connection and
\* whatever was to be sent; the logger does not come to log.
PingPanics(h) ==
  /\ ~Fallible
  /\ Serving(h, {"ping"})
  /\ resp' = [resp EXCEPT ![h] = NoResponse]
  /\ writer' = [writer EXCEPT ![h] = NoObject]
  /\ Goto(h, "done")
  /\ UNCHANGED <<config, st, req, seen, logged, answer, applied, lost, event, missed,
                 target, buffer, content>>

FreeBuffers == Buffers \ {buffer[h] : h \in Handlers}

\* json.Encoder into a buffer of the pool.
Encode(h) ==
  /\ pc[h] = "encode"
  /\ answer[h] \notin Unencodable
  /\ \E b \in FreeBuffers : /\ buffer' = [buffer EXCEPT ![h] = b]
                            /\ content' = [content EXCEPT ![b] = h]
  /\ Goto(h, "write")
  /\ UNCHANGED <<config, st, req, resp, seen, logged, answer, applied, lost, event, missed,
                 writer, target>>

EncodeFails(h) ==
  /\ pc[h] = "encode"
  /\ answer[h] \in Unencodable
  /\ Fail(h, 500)
  /\ UNCHANGED <<config, st, req, logged, answer, applied, lost, event, missed, wires>>

\* The buffer's bytes are sent, and the deferred Put gives it back.
Write(h) ==
  /\ pc[h] = "write"
  /\ Answered(h, 200, Part("answer", content[buffer[h]]))
  /\ buffer' = [buffer EXCEPT ![h] = NoObject]
  /\ Goto(h, "log")
  /\ UNCHANGED <<config, st, req, logged, answer, applied, lost, event, missed,
                 writer, target, content>>

(***************************************************************************)
(* The way back.                                                           *)
(***************************************************************************)
Log(h) ==
  /\ pc[h] = "log"
  /\ logged' = [logged EXCEPT ![h] = seen[h]]
  /\ Goto(h, "unwind")
  /\ UNCHANGED <<config, st, req, resp, seen, answer, applied, lost, event, missed, wires>>

\* The deferred calls of the gzip middleware: the writer ends its stream and
\* returns to the pool; the reader's Close fails if its stream broke off,
\* which is too late for a status.
Unwind(h) ==
  /\ pc[h] = "unwind"
  /\ LET ended  == IF writer[h] = NoObject THEN resp
                   ELSE [resp EXCEPT ![Sink(h)] = WithPart(@, Part("end", h))]
     IN  resp' = IF req[h].coding = "truncated"
                 THEN [ended EXCEPT ![h] = WithPart(@, Part("closeError", h))]
                 ELSE ended
  /\ writer' = [writer EXCEPT ![h] = NoObject]
  /\ Goto(h, "done")
  /\ UNCHANGED <<config, st, req, seen, logged, answer, applied, lost, event, missed,
                 target, buffer, content>>

\* The response is complete; the goroutine is free for another request.
Depart(h) ==
  /\ pc[h] = "done"
  /\ Goto(h, "idle")
  /\ req' = [req EXCEPT ![h] = NoRequest]
  /\ resp' = [resp EXCEPT ![h] = NoResponse]
  /\ seen' = [seen EXCEPT ![h] = 0]
  /\ logged' = [logged EXCEPT ![h] = Nil]
  /\ answer' = [answer EXCEPT ![h] = Nil]
  /\ applied' = [applied EXCEPT ![h] = {}]
  /\ lost' = [lost EXCEPT ![h] = {}]
  /\ event' = [event EXCEPT ![h] = FALSE]
  /\ missed' = [missed EXCEPT ![h] = FALSE]
  /\ target' = [w \in Writers |-> IF target[w] = h THEN NoObject ELSE target[w]]
  /\ content' = [b \in Buffers |-> IF content[b] = h THEN NoObject ELSE content[b]]
  /\ UNCHANGED <<config, st, writer, buffer>>

\* The history of the request's metric.
Remember ==
  past' = [h \in Handlers |->
    IF \/ pc'[h] \in {"idle", "gunzip", "hash"}
       \/ req[h].route \notin {"update", "value", "valueURL"}
       \/ req[h].items = Nil
    THEN {}
    ELSE IF pc'[h] = "readback" /\ pc[h] = "handle" THEN {Stored(Item(h))'}
    ELSE IF pc'[h] \in {"handle", "readback"} THEN past[h] \cup {Stored(Item(h))'}
    ELSE past[h]]

PipelineNext ==
  /\ \E h \in Handlers :
       \/ \E r \in Requests : Arrive(h, r)
       \/ NotGzip(h)
       \/ Gunzip(h)
       \/ HashCheck(h)
       \/ CannotDecode(h)
       \/ RejectWrite(h)
       \/ SetOne(h)
       \/ SetOneFails(h)
       \/ ReadBack(h)
       \/ SetMany(h)
       \/ BeginBatch(h)
       \/ SetItem(h)
       \/ CommitBatch(h)
       \/ SetManyFails(h)
       \/ Get(h)
       \/ GetFails(h)
       \/ Home(h)
       \/ Ping(h)
       \/ PingPanics(h)
       \/ Encode(h)
       \/ EncodeFails(h)
       \/ Write(h)
       \/ Log(h)
       \/ Unwind(h)
       \/ Depart(h)
  /\ Remember

PipelineSpec == PipelineInit /\ [][PipelineNext]_pipelineVars
-----------------------------------------------------------------------------
PipelineTypeOK ==
  /\ config \in Configs
  /\ st \in Contents
  /\ pc \in [Handlers -> {"idle", "gunzip", "hash", "handle", "readback", "batch",
                          "encode", "write", "log", "unwind", "done"}]
  /\ req \in [Handlers -> Requests \cup {NoRequest}]
  /\ writer \in [Handlers -> Writers \cup {NoObject}]
  /\ buffer \in [Handlers -> Buffers \cup {NoObject}]
  /\ \A h \in Handlers :
       /\ resp[h].status \in {0, 200, 400, 404, 500}
       /\ seen[h] \in {0, 200, 400, 404, 500}
       /\ answer[h] \in {Nil} \cup Int64 \cup GaugeValues
       /\ Tried(h) # {} => Tried(h) \subseteq DOMAIN req[h].items

Done(h)   == pc[h] = "done"
Cut(h)    == resp[h].status = 0   \* the handler panicked
Failed(h) == resp[h].status >= 400

\* All of the request is stored, save items of a batch whose own statement the
\* database failed.
Everything(h) ==
  /\ DOMAIN req[h].items \subseteq Tried(h)
  /\ lost[h] # {} => Fallible /\ req[h].route = "updates"

\* A request that is refused (400, 404) has changed nothing and is not audited,
\* whichever of the many places it is refused at (handlers.go: the comments
\* "HTTP 400 ..." of every handler).
RefusedChangesNothing ==
  \A h \in Handlers :
    Done(h) /\ resp[h].status \in {400, 404} => applied[h] = {} /\ ~event[h]

\* 200 for an update: there is an audit event, and the memory has stored
\* everything, the database everything but items of a batch whose own statement
\* it failed (handlers.go:313 promises 200 only if all metrics are stored).
OkIsStored ==
  \A h \in Handlers :
    /\ Done(h)
    /\ resp[h].status = 200
    /\ req[h].route \in {"update", "updateURL", "updates"}
    => event[h] /\ Everything(h)

\* An audit event tells of metrics that are stored, those items aside, and of a
\* request that was answered 200, unless what another client stored cannot be
\* encoded.
EventsAreTrue ==
  \A h \in Handlers : event[h] =>
    /\ Everything(h)
    /\ Done(h) /\ resp[h].status # 200 =>
         resp[h].status = 500 /\ answer[h] \in Unencodable

\* A request that is answered 500 and has stored something all the same was
\* audited, or met the database failing a statement or a commit.
ErrorsHideNothing ==
  \A h \in Handlers :
    Done(h) /\ resp[h].status = 500 /\ applied[h] # {} =>
      event[h] \/ (Fallible /\ missed[h])

\* Status, audit event and store agree, as far as the database lets them.
StatusIsTrue == RefusedChangesNothing /\ OkIsStored /\ EventsAreTrue /\ ErrorsHideNothing

\* A 500 has one of three causes: a damaged body under a hash check, a gauge
\* that JSON cannot express, or a database that failed a call.
ServerErrorHasCause ==
  \A h \in Handlers :
    Done(h) /\ resp[h].status = 500 =>
      \/ Checked(h) /\ ~Readable(req[h])
      \/ answer[h] \in Unencodable
      \/ Fallible /\ missed[h]

\* Nothing is stored from a damaged body, nor from one whose hash is checked
\* and wrong (handlers.go:115 reads no body).
DamagedIsNotStored ==
  \A h \in Handlers : applied[h] # {} =>
    /\ req[h].route # "updateURL" => req[h].coding \in {"plain", "gzip"}
    /\ config.key => req[h].sum \in {"none", "ofBody"}

\* The client gets its own answer or its own error, nothing of another
\* request's although writers and buffers are shared, and a compressed stream
\* that is ended once.  (After a body that broke off a line of text follows.)
\* Nobody goes without an answer but who pings a server without a database.
ResponseIsOwn ==
  \A h \in Handlers : Done(h) => IF Cut(h) THEN req[h].route = "ping" /\ ~Fallible ELSE
    LET main   == IF req[h].route = "ping" \/ (req[h].route \in {"updateURL", "updates"}
                                               /\ ~Failed(h))
                  THEN <<>> ELSE <<Part(IF Failed(h) THEN "error" ELSE "answer", h)>>
        refused == req[h].coding = "noGzip"
        end    == IF req[h].accept /\ ~refused THEN <<Part("end", h)>> ELSE <<>>
        late   == IF req[h].coding = "truncated" THEN <<Part("closeError", h)>> ELSE <<>>
    IN  resp[h].parts = (IF refused THEN <<Part("error", h)>> ELSE main) \o end \o late

\* The log has the status the client got (and nothing of a request whose
\* handler panicked), except that of a text answer, whose handler gives none
\* and which is logged as 0 (logger.go:36-39).
LogIsHonest ==
  \A h \in Handlers : Done(h) /\ req[h].coding # "noGzip" =>
    \/ logged[h] = IF Cut(h) THEN Nil ELSE resp[h].status
    \/ logged[h] = 0 /\ resp[h].status = 200 /\ req[h].route = "valueURL"

\* The agent compresses its JSON and signs it before (cmd/agent/main.go:213):
\* the server never refuses what its agent sends.
AgentIsHeard ==
  \A h \in Handlers :
    /\ Done(h)
    /\ req[h].route \in {"update", "updates"}
    /\ req[h].coding = "gzip"
    /\ req[h].sum \in {"none", "ofBody"}
    /\ req[h].items # Nil /\ Bad(req[h].items) = {}
    => resp[h].status \notin {400, 404}

\* The value a client is told was that of its metric at some moment while the
\* request was handled, for an update at or after its own write; and what is
\* said not to exist did not exist then.  Only if a query of the database fails
\* an update is answered with what was sent, which for a counter is the increment
\* in place of the total, and a metric that is stored with 404.
AnswersAreReal ==
  \A h \in Handlers : Done(h) =>
    /\ resp[h].status = 200 /\ req[h].route \in {"update", "value", "valueURL"} =>
         \/ answer[h] \in past[h]
         \/ missed[h] /\ answer[h] = Sent(Item(h))
    /\ resp[h].status = 404 => Nil \in past[h] \/ missed[h]
=============================================================================
