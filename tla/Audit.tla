-------------------------------- MODULE Audit --------------------------------
(***************************************************************************)
(* Audit events (internal/audit) and the handlers that send them           *)
(* (handlers.go).  A handler builds an event whose list of metric names is *)
(* a slice; NotifyAll starts one goroutine per observer and returns; the   *)
(* goroutine marshals the event, name by name, and then writes it to the   *)
(* audit file, one goroutine at a time (FileAuditObserver.mu), or sends it *)
(* to the audit server.                                                    *)
(*                                                                         *)
(* The handlers of single metrics build a slice of their own.  The batch   *)
(* handler takes the array of its slice from a sync.Pool and puts it back  *)
(* when it returns, while the goroutines may not have marshalled it yet.   *)
(* Reading and writing a name are single steps.                            *)
(***************************************************************************)
EXTENDS Naturals, Sequences, FiniteSets, SequencesExt

CONSTANTS Handlers,    \* the goroutines that serve requests
          Observers,   \* "file" and "url", or one of them
          Arrays,      \* the arrays sync.Pool may hand out
          Own,         \* an array that no pool knows
          Requests,    \* [batch, names]: what clients send
          MaxEvents,   \* bound: how many requests are served
          NoName       \* what an unused slot of an array holds

ASSUME AuditAssumption ==
  /\ Own \notin Arrays
  /\ Observers \subseteq {"file", "url"}
  /\ MaxEvents \in Nat
  /\ IsFiniteSet(Handlers)
  /\ \A r \in Requests : /\ r.names \in Seq(Range(r.names))
                         /\ ~r.batch => Len(r.names) = 1
  /\ \E r \in Requests : \A q \in Requests : Len(q.names) <= Len(r.names)

VARIABLES
  array,     \* the contents of the pooled arrays
  pool,      \* the arrays that are in stringSlicePool
  handler,   \* [pc, req, arr, filled, event]: each handler's request
  events,    \* the events sent so far: [arr, names]
  notes,     \* the goroutines of NotifyAll: [obs, event] -> [pc, read]
  fileOpen,  \* FileAuditObserver.file is not nil
  locked,    \* the goroutine that holds FileAuditObserver.mu, or <<>>
  process,   \* "up", "closing" (main's deferred Close), "closed", "down"
  records,   \* what each observer has recorded: [event, names]
  dropped    \* history: the notifications whose Notify returned an error

fileVars  == <<fileOpen, locked>>
auditVars == <<array, pool, handler, events, notes, fileVars, process, records, dropped>>

MaxNames == CHOOSE n \in {Len(r.names) : r \in Requests} :
              \A r \in Requests : Len(r.names) <= n

Free == [pc |-> "idle", req |-> [batch |-> FALSE, names |-> <<>>], arr |-> Own,
         filled |-> 0]

AuditInit ==
  /\ array = [a \in Arrays |-> [i \in 1 .. MaxNames |-> NoName]]
  /\ pool = Arrays
  /\ handler = [h \in Handlers |-> Free]
  /\ events = <<>>
  /\ notes = [o \in {} |-> Nat]
  /\ fileOpen = ("file" \in Observers)
  /\ locked = <<>>
  /\ process = "up"
  /\ records = [o \in Observers |-> <<>>]
  /\ dropped = {}

(***************************************************************************)
(* The handlers, after the service has accepted the metrics.               *)
(***************************************************************************)

\* Faulty variant: one array is shared by all batch requests.
ArriveShared(h, r) ==
  /\ process = "up"
  /\ handler[h].pc = "idle"
  /\ Len(events) + Cardinality({g \in Handlers : handler[g].pc = "fill"}) < MaxEvents
  /\ \E a \in IF r.batch THEN pool ELSE {Own} :
       handler' = [handler EXCEPT ![h] =
                     [pc |-> "fill", req |-> r, arr |-> a, filled |-> 0]]
  /\ UNCHANGED <<array, pool, events, notes, fileVars, process, records, dropped>>

\* UpdateHandler, UpdateHandlerJSON: []string{m.ID}.  UpdateMetrics: an array
\* of the pool (a new one is one that was never used).
Arrive(h, r) ==
  /\ process = "up"
  /\ handler[h].pc = "idle"
  /\ Len(events) + Cardinality({g \in Handlers : handler[g].pc = "fill"}) < MaxEvents
  /\ \E a \in IF r.batch THEN pool ELSE {Own} :
       /\ handler' = [handler EXCEPT ![h] =
                        [pc |-> "fill", req |-> r, arr |-> a, filled |-> 0]]
       /\ pool' = pool \ {a}
  /\ UNCHANGED <<array, events, notes, fileVars, process, records, dropped>>

\* append(metricNames, m.ID)
AppendName(h) ==
  LET i == handler[h].filled + 1
  IN  /\ process = "up"
      /\ handler[h].pc = "fill"
      /\ i <= Len(handler[h].req.names)
      /\ handler' = [handler EXCEPT ![h].filled = i]
      /\ array' = IF handler[h].arr = Own THEN array
                  ELSE [array EXCEPT ![handler[h].arr][i] = handler[h].req.names[i]]
      /\ UNCHANGED <<pool, events, notes, fileVars, process, records, dropped>>

\* sendAuditEvent and NotifyAll: one goroutine per observer.
NotifyAll(h) ==
  /\ process = "up"
  /\ handler[h].pc = "fill"
  /\ handler[h].filled = Len(handler[h].req.names)
  /\ events' = Append(events, [arr |-> handler[h].arr, names |-> handler[h].req.names])
  /\ notes' = [n \in DOMAIN notes \cup (Observers \X {Len(events')}) |->
                 IF n \in DOMAIN notes THEN notes[n] ELSE [pc |-> "marshal", read |-> <<>>]]
  /\ handler' = [handler EXCEPT ![h].pc = "return"]
  /\ UNCHANGED <<array, pool, fileVars, process, records, dropped>>

\* The response is sent, and the deferred Put gives the array back.
Return(h) ==
  /\ process = "up"
  /\ handler[h].pc = "return"
  /\ handler' = [handler EXCEPT ![h] = Free]
  /\ pool' = pool \cup ({handler[h].arr} \ {Own})
  /\ UNCHANGED <<array, events, notes, fileVars, process, records, dropped>>

(***************************************************************************)
(* The goroutines of NotifyAll; n is <<observer, event>>.                  *)
(***************************************************************************)
Event(n) == events[n[2]]

\* json.Marshal looks at the next name.
MarshalName(n) ==
  LET i == Len(notes[n].read) + 1
  IN  /\ process # "down"
      /\ notes[n].pc = "marshal"
      /\ i <= Len(Event(n).names)
      /\ notes' = [notes EXCEPT ![n].read = Append(@,
                     IF Event(n).arr = Own THEN Event(n).names[i] ELSE array[Event(n).arr][i])]
      /\ UNCHANGED <<array, pool, handler, events, fileVars, process, records, dropped>>

Marshalled(n) == notes[n].pc = "marshal" /\ Len(notes[n].read) = Len(Event(n).names)

\* FileAuditObserver.mu is taken for the write and the sync.
Lock(n) ==
  /\ process # "down"
  /\ n[1] = "file"
  /\ Marshalled(n)
  /\ locked = <<>>
  /\ locked' = n
  /\ UNCHANGED <<array, pool, handler, events, notes, fileOpen, process, records, dropped>>

Ready(n) == Marshalled(n) /\ (n[1] = "file" => locked = n)

\* The observer has the event.
Written(n) ==
  [records EXCEPT ![n[1]] = Append(@, [event |-> n[2], names |-> notes[n].read])]

\* Notify returns; the mutex is unlocked by a defer, on every path.
Finish(n) ==
  /\ notes' = [notes EXCEPT ![n].pc = "done"]
  /\ locked' = IF locked = n THEN <<>> ELSE locked

\* Faulty variant: an event is written and then written again.
RecordAgain(n) ==
  /\ process # "down"
  /\ Ready(n)
  /\ n[1] = "file" => fileOpen
  /\ records' = Written(n)
  /\ UNCHANGED <<array, pool, handler, events, notes, fileVars, process, dropped>>

\* The disk takes the event, or the audit server answers.  (Notify does not
\* look whether the file is open: os.File refuses to write to a nil file.)
Record(n) ==
  /\ process # "down"
  /\ Ready(n)
  /\ n[1] = "file" => fileOpen
  /\ records' = Written(n)
  /\ Finish(n)
  /\ UNCHANGED <<array, pool, handler, events, fileOpen, process, dropped>>

\* Faulty variant: the error path of Notify returns without the unlock.
DropKeepsLock(n) ==
  /\ process # "down"
  /\ Ready(n)
  /\ dropped' = dropped \cup {n}
  /\ records' \in {records} \cup (IF n[1] = "file" /\ ~fileOpen THEN {} ELSE {Written(n)})
  /\ notes' = [notes EXCEPT ![n].pc = "done"]
  /\ UNCHANGED <<array, pool, handler, events, fileVars, process>>

\* Notify returns an error, which is logged: the file is closed, or the disk or
\* the audit server fails, before or after it has the event.
Drop(n) ==
  /\ process # "down"
  /\ Ready(n)
  /\ dropped' = dropped \cup {n}
  /\ records' \in {records} \cup (IF n[1] = "file" /\ ~fileOpen THEN {} ELSE {Written(n)})
  /\ Finish(n)
  /\ UNCHANGED <<array, pool, handler, events, fileOpen, process>>

(***************************************************************************)
(* Shutdown: server.Shutdown waits for the handlers, the deferred          *)
(* auditPublisher.Close closes the observers, and main returns.  Nobody    *)
(* waits for the goroutines of NotifyAll.                                  *)
(***************************************************************************)
Shutdown ==
  /\ process = "up"
  /\ \A h \in Handlers : handler[h].pc = "idle"
  /\ process' = "closing"
  /\ UNCHANGED <<array, pool, handler, events, notes, fileVars, records, dropped>>

\* FileAuditObserver.Close needs the mutex as well.
Close ==
  /\ process = "closing"
  /\ locked = <<>>
  /\ process' = "closed"
  /\ fileOpen' = FALSE
  /\ UNCHANGED <<array, pool, handler, events, notes, locked, records, dropped>>

\* main returns; or the process ends before that: logger.Fatal, when Shutdown has
\* waited for ten seconds, or a kill.
Exit ==
  /\ process # "down"
  /\ process' = "down"
  /\ UNCHANGED <<array, pool, handler, events, notes, fileVars, records, dropped>>

Gone == process = "down" /\ UNCHANGED auditVars

AuditNext ==
  \/ \E h \in Handlers :
       \/ \E r \in Requests : Arrive(h, r)
       \/ AppendName(h)
       \/ NotifyAll(h)
       \/ Return(h)
  \/ \E n \in DOMAIN notes : MarshalName(n) \/ Lock(n) \/ Record(n) \/ Drop(n)
  \/ Shutdown
  \/ Close
  \/ Exit
  \/ Gone

AuditSpec == AuditInit /\ [][AuditNext]_auditVars

\* A goroutine that can go on does.  (That also covers the mutex: a goroutine
\* that waits for it is overtaken at most by the other, finitely many ones.)
Notifications == Observers \X (1 .. MaxEvents)
Fairness ==
  \A n \in Notifications :
    WF_auditVars(n \in DOMAIN notes /\ (MarshalName(n) \/ Lock(n) \/ Record(n) \/ Drop(n)))
FairAuditSpec == AuditSpec /\ Fairness
-----------------------------------------------------------------------------
AuditTypeOK ==
  /\ pool \subseteq Arrays
  /\ \A h \in Handlers :
       /\ handler[h].pc \in {"idle", "fill", "return"}
       /\ handler[h].arr \in Arrays \cup {Own}
       /\ handler[h].filled \in 0 .. MaxNames
  /\ Len(events) <= MaxEvents
  /\ DOMAIN notes \subseteq Observers \X DOMAIN events
  /\ \A n \in DOMAIN notes : notes[n].pc \in {"marshal", "done"}
  /\ locked \in {<<>>} \cup DOMAIN notes
  /\ dropped \subseteq DOMAIN notes
  /\ process \in {"up", "closing", "closed", "down"}
  /\ fileOpen \in BOOLEAN

\* An array of the pool is used by one handler at a time.
ArrayHasOneHandler ==
  \A h \in Handlers :
    /\ handler[h].arr # Own => handler[h].arr \notin pool
    /\ \A g \in Handlers : g # h /\ handler[g].arr = handler[h].arr => handler[g].arr = Own

\* A handler that fills an array never sees another one's names in the part it
\* has filled: the event it sends is right at the moment it is sent.
SentEventIsRight ==
  \A h \in Handlers : handler[h].arr # Own =>
    \A i \in 1 .. handler[h].filled : array[handler[h].arr][i] = handler[h].req.names[i]

\* The arrays of the pool are used by one handler at a time, and an event is
\* right when it is sent.
ArrayInv == AuditTypeOK /\ ArrayHasOneHandler /\ SentEventIsRight

\* Every observer records an event at most once, never more than were sent, and
\* the events of single metrics exactly as they were sent.
RecordsAreHonest ==
  \A o \in Observers :
    /\ \A i, j \in DOMAIN records[o] :
         i # j => records[o][i].event # records[o][j].event
    /\ \A i \in DOMAIN records[o] :
         LET e == events[records[o][i].event]
         IN  /\ Len(records[o][i].names) = Len(e.names)
             /\ e.arr = Own => records[o][i].names = e.names

\* An event that was sent is recorded by each observer, or its Notify returns an
\* error, which is logged (audit.go:71-73): goroutines that wait for the mutex of
\* the file are never left behind.  Only the end of the process takes events
\* with it unseen, for nobody waits for the goroutines (cmd/server/main.go:58).
IsRecorded(n) == \E i \in DOMAIN records[n[1]] : records[n[1]][i].event = n[2]

EventsAreHandled ==
  \A n \in Notifications :
    n \in DOMAIN notes ~> IsRecorded(n) \/ n \in dropped \/ process = "down"

\* audit.go:15 "the names of the metrics received": an event is recorded with
\* the names of its own request.
RecordHasOwnNames ==
  \A o \in Observers : \A i \in DOMAIN records[o] :
    records[o][i].names = events[records[o][i].event].names
==============================================================================
