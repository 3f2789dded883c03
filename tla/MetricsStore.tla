---------------------------- MODULE MetricsStore ----------------------------
(***************************************************************************)
(* What interfaces.Store promises to its callers, whatever backend is      *)
(* behind it (internal/interfaces/store.go): SetMetrics "atomically saves  *)
(* many metrics" and "must provide transactionality", a counter is         *)
(* incremented, a gauge overwritten, and a read answers from the published *)
(* contents.                                                               *)
(*                                                                         *)
(* A write call works on a private copy of the contents, metric by metric, *)
(* and publishes the copy in a single step, provided nobody published      *)
(* anything in between: what every other caller sees changes from all of   *)
(* the batch missing to all of the batch present.                          *)
(***************************************************************************)
EXTENDS Metrics, Sequences

CONSTANTS Callers,   \* the goroutines that use the store
          Writes     \* the sequences of metrics a call may carry

VARIABLES store,   \* the published contents
          tx,      \* the private copy of each caller's write in progress
          out      \* the last answer of each caller's reads

storeVars == <<store, tx, out>>

\* What a caller without a write in progress has in tx, and a caller without
\* an answer has in out.
NoTx == [open |-> FALSE, base |-> EmptyContents, work |-> EmptyContents,
         left |-> <<>>]

StoreInit ==
  /\ store = EmptyContents
  /\ tx = [c \in Callers |-> NoTx]
  /\ out = [c \in Callers |-> Nil]

\* SetMetrics, SetGauge or IncrementCounter starts from what is published.
Begin(c, ms) ==
  /\ ~tx[c].open
  /\ tx' = [tx EXCEPT ![c] = [open |-> TRUE, base |-> store, work |-> store,
                              left |-> ms]]
  /\ UNCHANGED <<store, out>>

\* One metric of the call is put into the private copy.
Stage(c) ==
  /\ tx[c].open
  /\ tx[c].left # <<>>
  /\ tx' = [tx EXCEPT ![c].work = Put(@, Head(tx[c].left)),
                      ![c].left = Tail(@)]
  /\ UNCHANGED <<store, out>>

\* The whole call becomes visible at once, on top of what it started from.
Publish(c) ==
  /\ tx[c].open
  /\ tx[c].left = <<>>
  /\ tx[c].base = store
  /\ store' = tx[c].work
  /\ tx' = [tx EXCEPT ![c] = NoTx]
  /\ UNCHANGED out

Read(c, q) ==
  /\ out' = [out EXCEPT ![c] = Answer(store, q)]
  /\ UNCHANGED <<store, tx>>

\* The caller is done with the answer.
Forget(c) ==
  /\ out' = [out EXCEPT ![c] = Nil]
  /\ UNCHANGED <<store, tx>>

StoreNext ==
  \E c \in Callers :
    \/ \E ms \in Writes : Begin(c, ms)
    \/ Stage(c)
    \/ Publish(c)
    \/ \E q \in Queries : Read(c, q)
    \/ Forget(c)

StoreSpec == StoreInit /\ [][StoreNext]_storeVars
==============================================================================
