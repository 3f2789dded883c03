----------------------------- MODULE MemStorage -----------------------------
(***************************************************************************)
(* The in-memory backend (internal/storage/memstorage): two maps behind    *)
(* one sync.RWMutex.  Every method of the store is one call that takes the *)
(* lock, works on the maps and releases the lock; SetMetrics works item by *)
(* item, so that its half-done state exists and only the lock hides it.    *)
(*                                                                         *)
(* The lock is the one of the Go library: writers take a mutex among       *)
(* themselves, announce themselves, and wait for the readers that are      *)
(* inside; a reader that meets an announced writer waits for its Unlock,   *)
(* which lets all the waiting readers in.                                  *)
(***************************************************************************)
EXTENDS Metrics, Sequences

CONSTANTS Procs,     \* the goroutines that use the store
          Writes,    \* the sequences of metrics a call may carry
          Nobody     \* no goroutine

ASSUME MemAssumption ==
  /\ Nobody \notin Procs
  /\ Writes \subseteq Seq(Metric)

VARIABLES
  mem,      \* the maps s.Counters and s.Gauges
  writer,   \* who holds the writers' mutex of s.mu
  readers,  \* who holds a read lock of s.mu
  waiting,  \* the readers that wait for the announced writer
  pc,       \* how far each goroutine's call is
  left,     \* the metrics its write call has not stored yet
  query,    \* what its read call asks
  ret,      \* what its read call returned
  base      \* history: mem when the last critical section began

lockVars == <<writer, readers, waiting>>
memVars  == <<mem, lockVars, pc, left, query, ret, base>>

PCs == {"idle", "lock", "drain", "write", "wait", "read", "answered"}

MemInit ==
  /\ mem = EmptyContents
  /\ writer = Nobody
  /\ readers = {}
  /\ waiting = {}
  /\ pc = [p \in Procs |-> "idle"]
  /\ left = [p \in Procs |-> <<>>]
  /\ query = [p \in Procs |-> Nil]
  /\ ret = [p \in Procs |-> Nil]
  /\ base = EmptyContents

(***************************************************************************)
(* Write calls: SetMetrics carries a batch; IncrementCounter, SetGauge and *)
(* their twins UpdateCounter and UpdateGauge carry one metric.             *)
(***************************************************************************)
CallWrite(p, ms) ==
  /\ pc[p] = "idle"
  /\ pc' = [pc EXCEPT ![p] = "lock"]
  /\ left' = [left EXCEPT ![p] = ms]
  /\ UNCHANGED <<mem, lockVars, query, ret, base>>

\* s.mu.Lock(), first half: the only writer, and no new reader gets in.
Announce(p) ==
  /\ pc[p] = "lock"
  /\ writer = Nobody
  /\ writer' = p
  /\ pc' = [pc EXCEPT ![p] = "drain"]
  /\ UNCHANGED <<mem, readers, waiting, left, query, ret, base>>

\* Faulty variant: it does not wait for the readers.
EnterAtOnce(p) ==
  /\ pc[p] = "drain"
  /\ pc' = [pc EXCEPT ![p] = "write"]
  /\ base' = mem
  /\ UNCHANGED <<mem, lockVars, left, query, ret>>

\* s.mu.Lock(), second half: the readers that were inside have left.
Enter(p) ==
  /\ pc[p] = "drain"
  /\ readers = {}
  /\ pc' = [pc EXCEPT ![p] = "write"]
  /\ base' = mem
  /\ UNCHANGED <<mem, lockVars, left, query, ret>>

PutItem(p) ==
  /\ pc[p] = "write"
  /\ left[p] # <<>>
  /\ mem' = Put(mem, Head(left[p]))
  /\ left' = [left EXCEPT ![p] = Tail(@)]
  /\ UNCHANGED <<lockVars, pc, query, ret, base>>

Unlock(p) ==
  /\ pc[p] = "write"
  /\ left[p] = <<>>
  /\ writer' = Nobody
  /\ readers' = waiting
  /\ waiting' = {}
  /\ pc' = [r \in Procs |-> IF r = p THEN "idle"
                            ELSE IF r \in waiting THEN "read" ELSE pc[r]]
  /\ UNCHANGED <<mem, left, query, ret, base>>

(***************************************************************************)
(* Read calls: GetCounter, GetGauge, GetAllCounters, GetAllGauges.         *)
(***************************************************************************)
\* Faulty variant: a getter that does not take the lock.
CallReadUnlocked(p, q) ==
  /\ pc[p] = "idle"
  /\ query' = [query EXCEPT ![p] = q]
  /\ readers' = readers \cup {p}
  /\ pc' = [pc EXCEPT ![p] = "read"]
  /\ UNCHANGED <<mem, writer, waiting, left, ret, base>>

\* Faulty variant: a lock that prefers readers to an announced writer.
CallReadPreferred(p, q) ==
  /\ pc[p] = "idle"
  /\ \A w \in Procs : pc[w] # "write"
  /\ query' = [query EXCEPT ![p] = q]
  /\ readers' = readers \cup {p}
  /\ pc' = [pc EXCEPT ![p] = "read"]
  /\ UNCHANGED <<mem, writer, waiting, left, ret, base>>

CallRead(p, q) ==
  /\ pc[p] = "idle"
  /\ query' = [query EXCEPT ![p] = q]
  /\ IF writer = Nobody
     THEN /\ readers' = readers \cup {p}
          /\ pc' = [pc EXCEPT ![p] = "read"]
          /\ UNCHANGED waiting
     ELSE /\ waiting' = waiting \cup {p}
          /\ pc' = [pc EXCEPT ![p] = "wait"]
          /\ UNCHANGED readers
  /\ UNCHANGED <<mem, writer, left, ret, base>>

\* The lookup, or the copy of a whole map, and s.mu.RUnlock().
Read(p) ==
  /\ pc[p] = "read"
  /\ ret' = [ret EXCEPT ![p] = Answer(mem, query[p])]
  /\ readers' = readers \ {p}
  /\ pc' = [pc EXCEPT ![p] = "answered"]
  /\ query' = [query EXCEPT ![p] = Nil]
  /\ UNCHANGED <<mem, writer, waiting, left, base>>

\* The caller has used the answer.
Forget(p) ==
  /\ pc[p] = "answered"
  /\ ret' = [ret EXCEPT ![p] = Nil]
  /\ pc' = [pc EXCEPT ![p] = "idle"]
  /\ UNCHANGED <<mem, lockVars, left, query, base>>

\* What a call does on its own once it has been made.
Proceed(p) == Announce(p) \/ Enter(p) \/ PutItem(p) \/ Unlock(p) \/ Read(p)

MemNext ==
  \E p \in Procs :
    \/ \E ms \in Writes : CallWrite(p, ms)
    \/ Announce(p)
    \/ Enter(p)
    \/ PutItem(p)
    \/ Unlock(p)
    \/ \E q \in Queries : CallRead(p, q)
    \/ Read(p)
    \/ Forget(p)

MemSpec == MemInit /\ [][MemNext]_memVars

\* A goroutine that can run does run; sync.Mutex hands the lock over to a
\* writer that has waited for long, so a writer that finds the lock free again
\* and again gets it.
Fairness == \A p \in Procs : WF_memVars(Proceed(p)) /\ SF_memVars(Announce(p))

FairMemSpec == MemSpec /\ Fairness
-----------------------------------------------------------------------------
\* The type invariant.  A call that has not entered its critical section
\* still has all of its metrics.
MemTypeOK ==
  /\ mem \in Contents
  /\ base \in Contents
  /\ writer \in Procs \cup {Nobody}
  /\ readers \subseteq Procs
  /\ waiting \subseteq Procs
  /\ pc \in [Procs -> PCs]
  /\ left \in [Procs -> Seq(Metric)]
  /\ query \in [Procs -> Queries \cup {Nil}]
  /\ ret \in [Procs -> Answers \cup {Nil}]
  /\ \A p \in Procs :
       /\ pc[p] \in {"lock", "drain"} => left[p] \in Writes
       /\ pc[p] \in {"read", "wait"} => query[p] \in Queries

\* The lock and the goroutines agree on who is where: one writer at a time,
\* nobody reads while it is inside (memstorage.go locks before every access),
\* and a reader only waits while a writer is there to let it in.
LockInv ==
  /\ \A p \in Procs :
       /\ pc[p] \in {"drain", "write"} <=> writer = p
       /\ pc[p] = "read" <=> p \in readers
       /\ pc[p] = "wait" <=> p \in waiting
       /\ pc[p] = "write" => readers = {}
  /\ waiting # {} => writer # Nobody

\* While a writer is inside, the published contents are those it found: its
\* half-done batch is seen by nobody.
InSection == \E p \in Procs : pc[p] = "write"
Published == IF InSection THEN base ELSE mem

Contract == INSTANCE MetricsStore
  WITH Callers <- Procs,
       store   <- Published,
       tx      <- [p \in Procs |->
                     IF pc[p] = "write"
                     THEN [open |-> TRUE, base |-> base, work |-> mem, left |-> left[p]]
                     ELSE [open |-> FALSE, base |-> EmptyContents,
                           work |-> EmptyContents, left |-> <<>>]],
       out     <- ret

\* The backend keeps what interfaces.Store promises: each write call appears
\* to readers in one step, all of it, on top of every earlier one, and every
\* answer is the published one (memstorage.go:94 "hold the lock for the whole
\* pass"; store.go:19-24).
ImplementsContract == Contract!StoreSpec

\* Every call returns: writers are not starved by a stream of readers, which
\* the lock keeps out once a writer has announced itself, and the readers it
\* keeps out get in after that one writer.
CallsReturn ==
  \A p \in Procs :
    /\ pc[p] = "lock" ~> pc[p] = "idle"
    /\ pc[p] \in {"wait", "read"} ~> pc[p] = "answered"
=============================================================================
