---------------------------- MODULE MetricsSender ----------------------------
(***************************************************************************)
(* The agent's MetricsSender (cmd/agent/main.go): one call of              *)
(* SendBatchJSONCtx.  The batch is posted to /updates/, with retries; if   *)
(* that fails, each metric is posted to /update, with retries of its own.  *)
(*                                                                         *)
(* Time is in seconds: the client gives one post five, the context of a    *)
(* worker's call gives the whole call three, and the pauses between the    *)
(* attempts are one, three and five.  A post is answered, or fails, or     *)
(* takes too long; in the last two cases, and when the answer is a server  *)
(* error, the server may have stored what it was sent.  A server on the    *)
(* database answers a batch with 200 also when it stored only a part of    *)
(* it (Pipeline has the server in detail).                                 *)
(***************************************************************************)
EXTENDS Integers, Sequences, FiniteSets

CONSTANTS Size,      \* the number of metrics in the batch
          Deadline,  \* when the context ends, or Never
          Never

ASSUME SenderAssumption ==
  /\ Size \in Nat \ {0}
  /\ Never \notin Nat
  /\ Deadline \in Nat \cup {Never}

VARIABLES
  pc,        \* "post", "backoff" or "done"
  single,    \* 0: the batch is sent; i: its metric i is
  attempt,   \* how many attempts of this post have failed
  now,       \* the time since the call began (0 without a deadline)
  stopped,   \* the agent is shutting down: the parent context is cancelled
  err,       \* the error of the last attempt, or "nil"
  firstErr,  \* the error the fallback will return, or "nil"
  backend,   \* where the server stores: "memory" or "database"
  stored,    \* how often the server has stored each metric
  unsure     \* history: failed posts the server has stored all the same

senderVars == <<pc, single, attempt, now, stopped, err, firstErr, backend, stored, unsure>>

\* Faulty variant: short pauses.
ShortBackoffs == <<1, 1, 1>>

Backoffs      == <<1, 3, 5>>
ClientTimeout == 5
Batch         == 1 .. Size

Errors == {"status", "server", "net", "deadline", "canceled"}

SenderInit ==
  /\ pc = "post"
  /\ single = 0
  /\ attempt = 0
  /\ now = 0
  /\ stopped = FALSE
  /\ err = "nil"
  /\ firstErr = "nil"
  /\ backend \in {"memory", "database"}
  /\ stored = [i \in Batch |-> 0]
  /\ unsure = 0

CtxDone == stopped \/ (Deadline # Never /\ now >= Deadline)

\* The clock goes on by d, as long as it matters; the deadline cuts it off.
Passes(d) == now' = IF Deadline = Never THEN 0
                    ELSE IF now + d > Deadline THEN Deadline ELSE now + d
InTime(d) == Deadline = Never \/ now + d < Deadline
TooLate(d) == Deadline # Never /\ now + d >= Deadline

\* What the current post carries.
Posted == IF single = 0 THEN Batch ELSE {single}

\* What the server keeps of a post: everything; but DBStorage.SetMetrics skips
\* an item whose statement fails, and the batch is answered with 200 all the same.
MayBePartial == backend = "database" /\ single = 0
Kept == IF MayBePartial THEN SUBSET Posted ELSE {Posted}
Store ==
  \E kept \in Kept :
    stored' = [i \in Batch |-> IF i \in kept THEN stored[i] + 1 ELSE stored[i]]

\* isRetryableHTTPOrNetErr: transport errors are, unless the context was
\* cancelled, and so are 408, 425, 429, 500, 502, 503 and 504 ("server");
\* every other status is not.
IsRetryable(e) == e \in {"server", "net", "deadline"}

(***************************************************************************)
(* How a retried post ends.                                                *)
(***************************************************************************)
\* Faulty variant: the last error is returned, not the first.
FollowingKeepsLast(e) ==
  /\ firstErr' = e
  /\ IF single < Size
     THEN /\ single' = single + 1
          /\ pc' = "post"
     ELSE /\ pc' = "done"
          /\ UNCHANGED single

\* The next metric of the fallback, or the end of the call.
Following(e) ==
  /\ firstErr' = IF firstErr = "nil" THEN e ELSE firstErr
  /\ IF single < Size
     THEN /\ single' = single + 1
          /\ pc' = "post"
     ELSE /\ pc' = "done"
          /\ UNCHANGED single

\* Faulty variant: the fallback runs after a success too.
PostSucceedsGoesOn ==
  /\ err' = "nil"
  /\ attempt' = 0
  /\ IF single = 0
     THEN /\ single' = 1
          /\ pc' = "post"
          /\ UNCHANGED firstErr
     ELSE Following("nil")

PostSucceeds ==
  /\ err' = "nil"
  /\ attempt' = 0
  /\ IF single = 0
     THEN /\ pc' = "done"
          /\ UNCHANGED <<single, firstErr>>
     ELSE Following("nil")

PostGivesUp(e) ==
  /\ err' = e
  /\ attempt' = 0
  /\ IF single = 0
     THEN /\ single' = 1
          /\ pc' = "post"
          /\ UNCHANGED firstErr
     ELSE Following(e)

AttemptFails(e) ==
  IF IsRetryable(e) /\ attempt < Len(Backoffs)
  THEN /\ pc' = "backoff"
       /\ err' = e
       /\ UNCHANGED <<single, attempt, firstErr>>
  ELSE PostGivesUp(e)

(***************************************************************************)
(* One attempt: postGzJSONCtx.                                             *)
(***************************************************************************)
\* With its context ended the client sends nothing.
PostRefused ==
  /\ pc = "post"
  /\ CtxDone
  /\ AttemptFails(IF stopped THEN "canceled" ELSE "deadline")
  /\ UNCHANGED <<now, stopped, backend, stored, unsure>>

\* 200.
PostAccepted ==
  /\ pc = "post"
  /\ ~CtxDone
  /\ \E d \in 0 .. ClientTimeout - 1 : InTime(d) /\ Passes(d)
  /\ Store
  /\ PostSucceeds
  /\ UNCHANGED <<stopped, backend, unsure>>

\* A status that says that the request was wrong, and was not stored.
PostRejected ==
  /\ pc = "post"
  /\ ~CtxDone
  /\ \E d \in 0 .. ClientTimeout - 1 : InTime(d) /\ Passes(d)
  /\ AttemptFails("status")
  /\ UNCHANGED <<stopped, backend, stored, unsure>>

MaybeStored ==
  \/ UNCHANGED <<stored, unsure>>
  \/ Store /\ unsure' = unsure + 1

\* A server error or a broken connection: nobody knows.
PostFails ==
  /\ pc = "post"
  /\ ~CtxDone
  /\ \E d \in 0 .. ClientTimeout - 1 : InTime(d) /\ Passes(d)
  /\ \E e \in {"server", "net"} : AttemptFails(e)
  /\ MaybeStored
  /\ UNCHANGED <<stopped, backend>>

\* The client's timeout, the deadline or the shutdown ends the post.
PostTimesOut ==
  /\ pc = "post"
  /\ ~CtxDone
  /\ \/ InTime(ClientTimeout) /\ Passes(ClientTimeout) /\ AttemptFails("net")
     \/ TooLate(ClientTimeout) /\ Passes(ClientTimeout) /\ AttemptFails("deadline")
  /\ MaybeStored
  /\ UNCHANGED <<stopped, backend>>

PostCanceled ==
  /\ pc = "post"
  /\ ~CtxDone
  /\ stopped' = TRUE
  /\ AttemptFails("canceled")
  /\ MaybeStored
  /\ UNCHANGED <<now, backend>>

(***************************************************************************)
(* The pause before the next attempt.                                      *)
(***************************************************************************)
BackoffOver ==
  /\ pc = "backoff"
  /\ ~stopped
  /\ Deadline = Never \/ now + Backoffs[attempt + 1] <= Deadline
  /\ Passes(Backoffs[attempt + 1])
  /\ attempt' = attempt + 1
  /\ pc' = "post"
  /\ UNCHANGED <<single, stopped, err, firstErr, backend, stored, unsure>>

\* Faulty variant: the loop goes on when the context ends a pause.
BackoffCutGoesOn ==
  /\ pc = "backoff"
  /\ stopped \/ TooLate(Backoffs[attempt + 1])
  /\ now' = IF stopped THEN now ELSE Deadline
  /\ pc' = "post"
  /\ UNCHANGED <<single, attempt, stopped, err, firstErr, backend, stored, unsure>>

BackoffCut ==
  /\ pc = "backoff"
  /\ stopped \/ TooLate(Backoffs[attempt + 1])
  /\ now' = IF stopped THEN now ELSE Deadline
  /\ PostGivesUp(IF stopped THEN "canceled" ELSE "deadline")
  /\ UNCHANGED <<stopped, backend, stored, unsure>>

Stop ==
  /\ pc = "backoff"
  /\ ~stopped
  /\ stopped' = TRUE
  /\ UNCHANGED <<pc, single, attempt, now, err, firstErr, backend, stored, unsure>>

\* The call has returned.
Returned == pc = "done" /\ UNCHANGED senderVars

Step == \/ PostRefused \/ PostAccepted \/ PostRejected \/ PostFails \/ PostTimesOut
        \/ PostCanceled \/ BackoffOver \/ BackoffCut

SenderNext ==
  \/ PostRefused
  \/ PostAccepted
  \/ PostRejected
  \/ PostFails
  \/ PostTimesOut
  \/ PostCanceled
  \/ BackoffOver
  \/ BackoffCut
  \/ Stop
  \/ Returned

SenderSpec == SenderInit /\ [][SenderNext]_senderVars
FairSenderSpec == SenderSpec /\ WF_senderVars(Step)
-----------------------------------------------------------------------------
Result == IF single = 0 THEN err ELSE firstErr

SenderTypeOK ==
  /\ pc \in {"post", "backoff", "done"}
  /\ single \in 0 .. Size
  /\ attempt \in 0 .. Len(Backoffs)
  /\ now \in Nat
  /\ Deadline # Never => now <= Deadline
  /\ stopped \in BOOLEAN
  /\ {err, firstErr} \subseteq Errors \cup {"nil"}
  /\ backend \in {"memory", "database"}
  /\ stored \in [Batch -> Nat]
  /\ unsure \in Nat

\* If the call returns nil the server has stored every metric, in the batch or
\* one by one, unless it accepted the batch and is on the database, which may
\* have dropped metrics (dbstorage.go:165-187) without the agent learning of it.
\* A success of the fallback is one for every metric on either store.
SuccessIsStored ==
  pc = "done" /\ Result = "nil" /\ ~MayBePartial => \A i \in Batch : stored[i] >= 1

\* A metric is stored again only where the agent could not know that it was
\* stored: each surplus copy comes from a failed post of its own.
CopiesNeedDoubt == \A i \in Batch : stored[i] <= 1 + unsure

\* The bookkeeping of a call, and that its copies have a reason.
SenderInv == SenderTypeOK /\ CopiesNeedDoubt

\* With the three seconds a worker gives the call (main.go:312) there are at
\* most two attempts of anything and no metric is stored more than three times:
\* the pauses of three and five seconds never run to their end, so the
\* fallback starts only when somebody rejected the batch early.
ThreeSecondsBound ==
  /\ attempt <= 1
  /\ \A i \in Batch : stored[i] <= 3

\* SendBatchJSONCtx returns.
SendReturns == <>(pc = "done")
==============================================================================
