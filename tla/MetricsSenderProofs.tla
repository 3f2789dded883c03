------------------------- MODULE MetricsSenderProofs -------------------------
(***************************************************************************)
(* What one call of SendBatchJSONCtx promises, for every size of the batch *)
(* and every deadline: surplus copies at the server have a reason, success *)
(* means that everything is stored, unless a database dropped a part of    *)
(* the batch, and within the three seconds of a worker no metric is stored *)
(* more than three times.                                                  *)
(***************************************************************************)
EXTENDS MetricsSender, TLAPS

\* The three pauses, and how many attempts they separate.
LEMMA Pauses ==
  /\ Len(Backoffs) = 3
  /\ Backoffs[1] = 1 /\ Backoffs[2] = 3 /\ Backoffs[3] = 5
  /\ \A i \in 0 .. 2 : Backoffs[i + 1] \in {1, 3, 5}
<1>1. Len(Backoffs) = 3 /\ Backoffs[1] = 1 /\ Backoffs[2] = 3 /\ Backoffs[3] = 5
  BY DEF Backoffs
<1>2. ASSUME NEW i \in 0 .. 2 PROVE Backoffs[i + 1] \in {1, 3, 5}
  <2>1. i = 0 \/ i = 1 \/ i = 2
    OBVIOUS
  <2> QED
    BY <1>1, <2>1
<1> QED
  BY <1>1, <1>2

\* The copies a metric may have at a point of the call: before its own post is
\* accepted, only failed posts can have left one.
CopiesInv ==
  \A i \in Batch :
    /\ stored[i] <= 1 + unsure
    /\ pc # "done" /\ i >= single => stored[i] <= unsure

\* What has been stored for certain: everything, if the batch was accepted by a
\* server in memory, and the metrics the fallback has come past, as long as it
\* has no error to return.
SuccessInv ==
  /\ single = 0 => firstErr = "nil"
  /\ single = 0 /\ pc = "done" => err = "nil"
  /\ single = 0 /\ pc = "done" /\ backend = "memory" => \A i \in Batch : stored[i] >= 1
  /\ single >= 1 /\ firstErr = "nil" => \A i \in 1 .. single - 1 : stored[i] >= 1
  /\ single >= 1 /\ pc = "done" =>
       single = Size /\ (firstErr = "nil" => stored[Size] >= 1)

\* A pause is one of the three.
PauseInv == pc = "backoff" => attempt < Len(Backoffs)

CallInv == SenderTypeOK /\ CopiesInv /\ SuccessInv /\ PauseInv

\* The clock never runs past the deadline, and never backwards.
ClockGoesOn ==
  /\ now' \in Nat
  /\ Deadline # Never => now <= now' /\ now' <= Deadline

LEMMA PassesGoesOn ==
  ASSUME SenderTypeOK, NEW d \in Nat, Passes(d)
  PROVE  ClockGoesOn
BY SenderAssumption DEF SenderTypeOK, Passes, ClockGoesOn

\* One post at the server: nothing happens, or one more copy of what it carries
\* is stored, and then the sender is in doubt.
DoubtCovers ==
  /\ stored' \in [Batch -> Nat]
  /\ unsure' \in Nat
  /\ \A i \in Batch :
       /\ stored[i] >= 1 => stored'[i] >= 1
       /\ stored[i] <= unsure => stored'[i] <= unsure'
       /\ stored[i] <= 1 + unsure => stored'[i] <= 1 + unsure'

LEMMA MaybeStoredAdds ==
  ASSUME SenderTypeOK, MaybeStored
  PROVE  DoubtCovers
<1>1. CASE UNCHANGED <<stored, unsure>>
  BY <1>1 DEF SenderTypeOK, DoubtCovers
<1>2. CASE Store /\ unsure' = unsure + 1
  <2>1. PICK kept \in Kept :
          stored' = [i \in Batch |-> IF i \in kept THEN stored[i] + 1 ELSE stored[i]]
    BY <1>2 DEF Store
  <2> QED
    BY <1>2, <2>1 DEF SenderTypeOK, DoubtCovers
<1> QED
  BY <1>1, <1>2 DEF MaybeStored

\* What it means that single is one of the metrics, or 0.
LEMMA Positions ==
  ASSUME SenderTypeOK
  PROVE  /\ single \in Nat /\ single <= Size /\ Size \in Nat /\ Size >= 1
         /\ single = 0 \/ (single >= 1 /\ single < Size) \/ (single >= 1 /\ single = Size)
         /\ \A i \in Batch : i \in Nat /\ i >= 1 /\ i <= Size
BY SenderAssumption DEF SenderTypeOK, Batch

\* A failed post that is not repeated: the fallback begins or goes on.
LEMMA GivesUpKeeps ==
  ASSUME CallInv, NEW e \in Errors, pc # "done", PostGivesUp(e), MaybeStored, ClockGoesOn,
         stopped' \in BOOLEAN, UNCHANGED backend
  PROVE  CallInv'
<1> USE DEF CallInv
<1>1. DoubtCovers
  BY MaybeStoredAdds
<1>2. e # "nil"
  BY DEF Errors
<1>3. PauseInv' /\ attempt' = 0 /\ err' = e /\ single' \in {single, single + 1}
  BY DEF PauseInv, PostGivesUp, Following
<1>4. 0 \in 0 .. Len(Backoffs)
  BY Pauses
<1>5. CASE single = 0
  <2>1. single' = 1 /\ pc' = "post" /\ firstErr' = firstErr
    BY <1>5 DEF PostGivesUp
  <2>2. SenderTypeOK'
    BY <1>1, <1>3, <1>4, <2>1, Positions DEF SenderTypeOK, ClockGoesOn, DoubtCovers
  <2>3. CopiesInv'
    BY <1>1, <1>5, <2>1, Positions DEF CopiesInv, DoubtCovers
  <2>4. SuccessInv'
    BY <2>1 DEF SuccessInv
  <2> QED
    BY <1>3, <2>2, <2>3, <2>4
<1>6. CASE single >= 1 /\ single < Size
  <2>1. single' = single + 1 /\ pc' = "post" /\ firstErr' = IF firstErr = "nil" THEN e ELSE firstErr
    BY <1>6 DEF PostGivesUp, Following
  <2>2. SenderTypeOK'
    BY <1>1, <1>3, <1>4, <1>6, <2>1, Positions DEF SenderTypeOK, ClockGoesOn, DoubtCovers
  <2>3. CopiesInv'
    BY <1>1, <1>6, <2>1, Positions DEF CopiesInv, DoubtCovers
  <2>4. SuccessInv'
    BY <1>2, <1>6, <2>1, Positions DEF SuccessInv
  <2> QED
    BY <1>3, <2>2, <2>3, <2>4
<1>7. CASE single >= 1 /\ single = Size
  <2>1. single' = single /\ pc' = "done" /\ firstErr' = IF firstErr = "nil" THEN e ELSE firstErr
    BY <1>7, Positions DEF PostGivesUp, Following
  <2>2. SenderTypeOK'
    BY <1>1, <1>3, <1>4, <1>7, <2>1, Positions DEF SenderTypeOK, ClockGoesOn, DoubtCovers
  <2>3. CopiesInv'
    BY <1>1, <1>7, <2>1, Positions DEF CopiesInv, DoubtCovers
  <2>4. SuccessInv'
    BY <1>2, <1>7, <2>1, Positions DEF SuccessInv
  <2> QED
    BY <1>3, <2>2, <2>3, <2>4
<1> QED
  BY <1>5, <1>6, <1>7, Positions

\* A failed post: it is repeated after a pause, or given up.
LEMMA FailKeeps ==
  ASSUME CallInv, NEW e \in Errors, pc = "post", AttemptFails(e), MaybeStored, ClockGoesOn,
         stopped' \in BOOLEAN, UNCHANGED backend
  PROVE  CallInv'
<1>1. CASE PostGivesUp(e)
  BY <1>1, GivesUpKeeps
<1>2. CASE /\ attempt < Len(Backoffs)
           /\ pc' = "backoff" /\ err' = e /\ UNCHANGED <<single, attempt, firstErr>>
  <2> USE DEF CallInv
  <2>1. DoubtCovers
    BY MaybeStoredAdds
  <2>2. SenderTypeOK'
    BY <1>2, <2>1 DEF SenderTypeOK, ClockGoesOn, DoubtCovers
  <2>3. CopiesInv'
    BY <1>2, <2>1 DEF CopiesInv, DoubtCovers
  <2>4. SuccessInv'
    BY <1>2, <2>1, Positions DEF SuccessInv, DoubtCovers, Batch
  <2>5. PauseInv'
    BY <1>2 DEF PauseInv
  <2> QED
    BY <2>2, <2>3, <2>4, <2>5
<1> QED
  BY <1>1, <1>2 DEF AttemptFails

\* A post that is accepted: the end of the batch, or of one metric.
LEMMA AcceptedKeeps ==
  ASSUME CallInv, pc = "post", Store, PostSucceeds, ClockGoesOn, UNCHANGED unsure,
         stopped' \in BOOLEAN, UNCHANGED backend
  PROVE  CallInv'
<1> USE DEF CallInv
<1>0. PICK kept \in Kept :
        stored' = [i \in Batch |-> IF i \in kept THEN stored[i] + 1 ELSE stored[i]]
  BY DEF Store
<1>a. kept \subseteq Posted /\ (~MayBePartial => kept = Posted)
  BY DEF Kept
<1>1. stored' \in [Batch -> Nat]
  BY <1>0 DEF SenderTypeOK
<1>2. \A i \in Batch : /\ stored'[i] >= stored[i]
                       /\ i \in Posted /\ ~MayBePartial => stored'[i] >= 1
                       /\ stored[i] <= unsure => stored'[i] <= 1 + unsure
                       /\ i \notin Posted => stored'[i] = stored[i]
  BY <1>0, <1>a DEF SenderTypeOK
<1>3. PauseInv' /\ attempt' = 0 /\ err' = "nil"
  BY DEF PauseInv, PostSucceeds, Following
<1>4. 0 \in 0 .. Len(Backoffs)
  BY Pauses
<1>5. CASE single = 0
  <2>1. single' = 0 /\ pc' = "done" /\ firstErr' = firstErr /\ Posted = Batch
    BY <1>5 DEF PostSucceeds, Posted
  <2>2. SenderTypeOK'
    BY <1>1, <1>3, <1>4, <1>5, <2>1 DEF SenderTypeOK, ClockGoesOn
  <2>3. CopiesInv'
    BY <1>2, <1>5, <2>1, Positions DEF CopiesInv
  <2>4. SuccessInv'
    BY <1>2, <1>3, <1>5, <2>1 DEF SuccessInv, MayBePartial
  <2> QED
    BY <1>3, <2>2, <2>3, <2>4
<1>6. CASE single >= 1
  <2>1. Posted = {single} /\ single \in Batch
    BY <1>6, Positions DEF Posted, Batch
  <2>2. firstErr' = firstErr
    BY <1>6, Positions DEF PostSucceeds, Following
  <2>3. stored'[single] >= 1
    BY <1>2, <1>6, <2>1, Positions DEF MayBePartial
  <2>4. \A i \in Batch : i # single => stored'[i] = stored[i]
    BY <1>2, <2>1
  <2>5. CASE single < Size
    <3>1. single' = single + 1 /\ pc' = "post"
      BY <1>6, <2>5, Positions DEF PostSucceeds, Following
    <3>2. SenderTypeOK'
      BY <1>1, <1>3, <1>4, <2>2, <2>5, <3>1, Positions DEF SenderTypeOK, ClockGoesOn
    <3>3. CopiesInv'
      BY <1>2, <2>4, <3>1, Positions DEF CopiesInv
    <3>4. SuccessInv'
      BY <1>6, <2>2, <2>3, <2>4, <3>1, Positions DEF SuccessInv, Batch
    <3> QED
      BY <1>3, <3>2, <3>3, <3>4
  <2>6. CASE single = Size
    <3>1. single' = single /\ pc' = "done"
      BY <1>6, <2>6, Positions DEF PostSucceeds, Following
    <3>2. SenderTypeOK'
      BY <1>1, <1>3, <1>4, <2>2, <3>1 DEF SenderTypeOK, ClockGoesOn
    <3>3. CopiesInv'
      BY <1>2, <2>4, <3>1, Positions DEF CopiesInv
    <3>4. SuccessInv'
      BY <1>6, <2>2, <2>3, <2>4, <2>6, <3>1, Positions DEF SuccessInv, Batch
    <3> QED
      BY <1>3, <3>2, <3>3, <3>4
  <2> QED
    BY <1>6, <2>5, <2>6, Positions
<1> QED
  BY <1>5, <1>6, Positions

LEMMA CallInit == SenderInit => CallInv
<1> SUFFICES ASSUME SenderInit PROVE CallInv
  OBVIOUS
<1>1. SenderTypeOK
  <2>1. single \in 0 .. Size /\ attempt \in 0 .. Len(Backoffs)
    BY Pauses, SenderAssumption DEF SenderInit
  <2>2. now \in Nat /\ (Deadline # Never => now <= Deadline)
    BY SenderAssumption DEF SenderInit
  <2> QED
    BY <2>1, <2>2 DEF SenderInit, SenderTypeOK
<1>2. CopiesInv
  BY DEF SenderInit, CopiesInv
<1>3. SuccessInv /\ PauseInv
  BY DEF SenderInit, SuccessInv, PauseInv
<1> QED
  BY <1>1, <1>2, <1>3 DEF CallInv

LEMMA CallNext == CallInv /\ [SenderNext]_senderVars => CallInv'
<1> SUFFICES ASSUME CallInv, [SenderNext]_senderVars PROVE CallInv'
  OBVIOUS
<1>0. CASE UNCHANGED senderVars
  BY <1>0 DEF senderVars, CallInv, SenderTypeOK, CopiesInv, SuccessInv, PauseInv
<1>a. ASSUME UNCHANGED now PROVE ClockGoesOn
  BY <1>a DEF CallInv, SenderTypeOK, ClockGoesOn
<1>b. ASSUME NEW d \in Nat, Passes(d) PROVE ClockGoesOn
  BY <1>b, PassesGoesOn DEF CallInv
<1>c. ClientTimeout \in Nat /\ \A d \in 0 .. ClientTimeout - 1 : d \in Nat
  BY DEF ClientTimeout
<1>d. ASSUME UNCHANGED stopped PROVE stopped' \in BOOLEAN
  BY <1>d DEF CallInv, SenderTypeOK
<1>1. CASE PostRefused
  BY <1>1, <1>a, <1>d, FailKeeps DEF PostRefused, MaybeStored, Errors
<1>2. CASE PostAccepted
  BY <1>2, <1>b, <1>c, <1>d, AcceptedKeeps DEF PostAccepted
<1>3. CASE PostRejected
  <2>1. ClockGoesOn
    BY <1>3, <1>b, <1>c DEF PostRejected
  <2> QED
    BY <1>3, <1>d, <2>1, FailKeeps DEF PostRejected, MaybeStored, Errors
<1>4. CASE PostFails
  <2>1. ClockGoesOn
    BY <1>4, <1>b, <1>c DEF PostFails
  <2>2. PICK e \in {"server", "net"} : AttemptFails(e)
    BY <1>4 DEF PostFails
  <2> QED
    BY <1>4, <1>d, <2>1, <2>2, FailKeeps DEF PostFails, Errors
<1>5. CASE PostTimesOut
  <2>1. ClockGoesOn
    BY <1>5, <1>b, <1>c DEF PostTimesOut
  <2>2. AttemptFails("net") \/ AttemptFails("deadline")
    BY <1>5 DEF PostTimesOut
  <2> QED
    BY <1>5, <1>d, <2>1, <2>2, FailKeeps DEF PostTimesOut, Errors
<1>6. CASE PostCanceled
  BY <1>6, <1>a, FailKeeps DEF PostCanceled, Errors
<1>7. CASE BackoffOver
  <2> USE DEF CallInv
  <2>1. attempt \in 0 .. 2
    BY <1>7, Pauses DEF BackoffOver, PauseInv, SenderTypeOK
  <2>2. Backoffs[attempt + 1] \in Nat
    BY <2>1, Pauses
  <2>3. ClockGoesOn
    BY <1>7, <2>2, <1>b DEF BackoffOver
  <2>4. SenderTypeOK'
    BY <1>7, <2>1, <2>3, Pauses DEF BackoffOver, SenderTypeOK, ClockGoesOn
  <2>5. (CopiesInv /\ SuccessInv /\ PauseInv)'
    BY <1>7 DEF BackoffOver, CopiesInv, SuccessInv, PauseInv
  <2> QED
    BY <2>4, <2>5
<1>8. CASE BackoffCut
  <2>1. attempt \in 0 .. 2
    BY <1>8, Pauses DEF CallInv, BackoffCut, PauseInv, SenderTypeOK
  <2>2. ClockGoesOn
    BY <1>8, SenderAssumption DEF CallInv, BackoffCut, SenderTypeOK, ClockGoesOn, TooLate
  <2>3. PICK e \in Errors : PostGivesUp(e)
    BY <1>8 DEF BackoffCut, Errors
  <2> QED
    BY <1>8, <1>d, <2>2, <2>3, GivesUpKeeps DEF BackoffCut, MaybeStored
<1>9. CASE Stop
  BY <1>9 DEF Stop, CallInv, SenderTypeOK, CopiesInv, SuccessInv, PauseInv
<1> QED
  BY <1>0, <1>1, <1>2, <1>3, <1>4, <1>5, <1>6, <1>7, <1>8, <1>9 DEF SenderNext, Returned

LEMMA CallCorrect == SenderSpec => []CallInv
BY CallInit, CallNext, PTL DEF SenderSpec

\* The bookkeeping of a call, and that each surplus copy of a metric comes from
\* a failed post of its own (cmd/agent/main.go:166-276).
THEOREM SenderCorrect == SenderSpec => []SenderInv
<1>1. CallInv => SenderInv
  BY DEF CallInv, CopiesInv, SenderInv, CopiesNeedDoubt
<1> QED
  BY <1>1, CallCorrect, PTL

\* SendBatchJSONCtx returns nil only if every metric is stored, unless a server
\* on the database has dropped metrics of the batch it accepted.
THEOREM SuccessCorrect == SenderSpec => []SuccessIsStored
<1>1. CallInv => SuccessIsStored
  <2> SUFFICES ASSUME CallInv, pc = "done", Result = "nil", ~MayBePartial, NEW i \in Batch
               PROVE  stored[i] >= 1
    BY DEF SuccessIsStored
  <2>1. CASE single = 0
    BY <2>1 DEF CallInv, SuccessInv, SenderTypeOK, MayBePartial
  <2>2. CASE single >= 1
    <3>1. single = Size /\ firstErr = "nil" /\ stored[Size] >= 1
      BY <2>2 DEF CallInv, SuccessInv, Result, SenderTypeOK
    <3>2. i = Size \/ i \in 1 .. single - 1
      BY <3>1, SenderAssumption DEF Batch
    <3> QED
      BY <2>2, <3>1, <3>2 DEF CallInv, SuccessInv
  <2> QED
    BY <2>1, <2>2, Positions DEF CallInv
<1> QED
  BY <1>1, CallCorrect, PTL
-----------------------------------------------------------------------------
(***************************************************************************)
(* The three seconds.                                                      *)
(***************************************************************************)
\* What the batch leaves behind for the fallback: one copy, or two copies and no
\* time for any more.
LeftOver == IF CtxDone THEN 2 ELSE 1

\* How many copies there may be at a point of the call, one for every attempt.
BoundInv ==
  /\ attempt <= 1
  /\ attempt = 1 => now >= 1
  /\ \A i \in Batch :
       /\ stored[i] <= 3
       /\ single = 0 /\ pc = "post" => stored[i] <= attempt
       /\ single = 0 /\ pc = "backoff" => stored[i] <= attempt + 1
       /\ single >= 1 /\ i > single => stored[i] <= LeftOver
       /\ i = single /\ pc = "post" => stored[i] <= LeftOver + attempt
       /\ i = single /\ pc = "backoff" => stored[i] <= 2 + attempt

\* The clock and the shutdown go one way only.
TimeMoves ==
  /\ now \in Nat /\ now' \in Nat /\ now <= now'
  /\ stopped \in BOOLEAN /\ stopped' \in BOOLEAN /\ (stopped => stopped')

\* A post that reaches the server adds a copy of what it carries, and is sent
\* only while there is time.
CopyMade ==
  \A i \in Batch :
    /\ stored[i] \in Nat /\ stored'[i] \in Nat
    /\ \/ stored'[i] = stored[i]
       \/ i \in Posted /\ stored'[i] = stored[i] + 1 /\ pc = "post" /\ ~CtxDone

LEMMA TimeIsUp ==
  ASSUME Deadline = 3, TimeMoves
  PROVE  /\ CtxDone => CtxDone'
         /\ LeftOver \in {1, 2} /\ LeftOver' \in {1, 2} /\ LeftOver <= LeftOver'
         /\ ~CtxDone => LeftOver = 1
         /\ CtxDone' => LeftOver' = 2
<1>1. CtxDone => CtxDone'
  BY SenderAssumption DEF TimeMoves, CtxDone
<1> QED
  BY <1>1 DEF LeftOver

\* The call goes on to the next metric, or returns.
Onwards ==
  \/ single' = single + 1 /\ pc' = "post"
  \/ single' = single /\ pc' = "done"

\* The batch, or one metric of the fallback, is over.
LEMMA OnwardsKeepsBound ==
  ASSUME Deadline = 3, CallInv, BoundInv, TimeMoves, CopyMade, Onwards, attempt' = 0,
         single = 0 /\ pc' = "post" => \A i \in Batch : stored'[i] <= LeftOver'
  PROVE  BoundInv'
<1>1. /\ single \in Nat
      /\ \A i \in Batch : i \in Nat /\ i >= 1
  BY Positions DEF CallInv
<1>2. attempt \in {0, 1}
  BY Pauses DEF CallInv, SenderTypeOK, BoundInv
<1>3. ASSUME NEW i \in Batch PROVE stored'[i] <= 3
  BY <1>1, <1>2, <1>3, TimeIsUp DEF BoundInv, CopyMade, Posted
<1>4. ASSUME NEW i \in Batch, single' >= 1, i > single' PROVE stored'[i] <= LeftOver'
  <2>1. CASE single = 0
    BY <1>1, <1>4, <2>1 DEF Onwards
  <2>2. CASE single >= 1
    <3>1. i > single /\ i \notin Posted
      BY <1>1, <1>4, <2>2 DEF Onwards, Posted
    <3>2. stored'[i] = stored[i] /\ stored[i] <= LeftOver
      BY <2>2, <3>1 DEF BoundInv, CopyMade
    <3> QED
      BY <3>2, TimeIsUp DEF CopyMade
  <2> QED
    BY <1>1, <2>1, <2>2
<1>5. ASSUME NEW i \in Batch, i = single', pc' = "post" PROVE stored'[i] <= LeftOver' + attempt'
  <2>1. single' = single + 1
    BY <1>5 DEF Onwards
  <2>2. CASE single = 0
    BY <1>5, <2>2, TimeIsUp DEF CopyMade
  <2>3. CASE single >= 1
    <3>1. i > single /\ i \notin Posted
      BY <1>1, <1>5, <2>1, <2>3 DEF Posted
    <3>2. stored'[i] = stored[i] /\ stored[i] <= LeftOver
      BY <2>3, <3>1 DEF BoundInv, CopyMade
    <3> QED
      BY <3>2, TimeIsUp DEF CopyMade
  <2> QED
    BY <1>1, <2>2, <2>3
<1>6. pc' # "backoff" /\ (single' = 0 => pc' = "done")
  BY <1>1 DEF Onwards
<1> QED
  BY <1>3, <1>4, <1>5, <1>6 DEF BoundInv

\* A failed post that will be repeated after a pause.
LEMMA RetryKeepsBound ==
  ASSUME Deadline = 3, CallInv, BoundInv, TimeMoves, CopyMade, pc = "post", pc' = "backoff",
         UNCHANGED <<single, attempt>>
  PROVE  BoundInv'
<1>1. /\ single \in Nat
      /\ \A i \in Batch : i \in Nat /\ i >= 1
  BY Positions DEF CallInv
<1>2. attempt \in {0, 1}
  BY Pauses DEF CallInv, SenderTypeOK, BoundInv
<1>3. attempt' = 1 => now' >= 1
  BY DEF BoundInv, TimeMoves, CallInv, SenderTypeOK
<1>4. ASSUME NEW i \in Batch
      PROVE  /\ stored'[i] <= 3
             /\ single' = 0 => stored'[i] <= attempt' + 1
             /\ i = single' => stored'[i] <= 2 + attempt'
  BY <1>1, <1>2, <1>4, TimeIsUp DEF BoundInv, CopyMade, Posted
<1>5. ASSUME NEW i \in Batch, single' >= 1, i > single' PROVE stored'[i] <= LeftOver'
  <2>1. i \notin Posted
    BY <1>1, <1>5 DEF Posted
  <2>2. stored'[i] = stored[i] /\ stored[i] <= LeftOver
    BY <1>5, <2>1 DEF BoundInv, CopyMade
  <2> QED
    BY <2>2, TimeIsUp DEF CopyMade
<1> QED
  BY <1>2, <1>3, <1>4, <1>5 DEF BoundInv

\* A failed attempt: the error of a post that was given up although it may have
\* been stored is one that nothing follows.
LEMMA FailKeepsBound ==
  ASSUME Deadline = 3, CallInv, BoundInv, NEW e \in Errors, pc = "post", AttemptFails(e),
         TimeMoves, CopyMade,
         e = "status" => UNCHANGED stored,
         e = "canceled" => CtxDone'
  PROVE  BoundInv'
<1>1. attempt \in {0, 1} /\ attempt < Len(Backoffs)
  BY Pauses DEF CallInv, SenderTypeOK, BoundInv
<1>2. CASE IsRetryable(e)
  BY <1>1, <1>2, RetryKeepsBound DEF AttemptFails
<1>3. CASE ~IsRetryable(e)
  <2>1. PostGivesUp(e)
    BY <1>3 DEF AttemptFails
  <2>2. e \in {"status", "canceled"}
    BY <1>3 DEF Errors, IsRetryable
  <2>3. Onwards /\ attempt' = 0
    BY <2>1 DEF PostGivesUp, Following, Onwards
  <2>4. ASSUME single = 0, NEW i \in Batch PROVE stored'[i] <= LeftOver'
    <3>1. stored[i] <= attempt /\ stored[i] \in Nat
      BY <2>4 DEF BoundInv, CopyMade
    <3>2. CASE e = "status"
      BY <1>1, <3>1, <3>2, TimeIsUp
    <3>3. CASE e = "canceled"
      BY <1>1, <3>1, <3>3, TimeIsUp DEF CopyMade
    <3> QED
      BY <2>2, <3>2, <3>3
  <2> QED
    BY <2>3, <2>4, OnwardsKeepsBound
<1> QED
  BY <1>2, <1>3

\* What each step does to the clock and to the server.
LEMMA StepMoves ==
  ASSUME Deadline = 3, CallInv, SenderNext
  PROVE  TimeMoves /\ CopyMade
<1> USE DEF CallInv, SenderTypeOK
<1>1. ASSUME NEW d \in Nat, Passes(d) PROVE now' \in Nat /\ now <= now'
  BY <1>1, SenderAssumption DEF Passes
<1>2. ClientTimeout \in Nat /\ \A d \in 0 .. ClientTimeout - 1 : d \in Nat
  BY DEF ClientTimeout
<1>3. ASSUME pc = "post", ~CtxDone, Store \/ UNCHANGED stored PROVE CopyMade
  <2>1. CASE UNCHANGED stored
    BY <2>1 DEF CopyMade
  <2>2. CASE Store
    <3>1. PICK kept \in Kept :
            stored' = [i \in Batch |-> IF i \in kept THEN stored[i] + 1 ELSE stored[i]]
      BY <2>2 DEF Store
    <3>2. kept \subseteq Posted
      BY DEF Kept
    <3> QED
      BY <1>3, <3>1, <3>2 DEF CopyMade
  <2> QED
    BY <1>3, <2>1, <2>2
<1>4. ASSUME UNCHANGED stored PROVE CopyMade
  BY <1>4 DEF CopyMade
<1>5. CASE PostRefused \/ Stop \/ Returned
  <2>1. UNCHANGED <<now, stored>> /\ (stopped' = stopped \/ stopped' = TRUE)
    BY <1>5 DEF PostRefused, Stop, Returned, senderVars
  <2>2. stopped \in BOOLEAN /\ stopped' \in BOOLEAN /\ (stopped => stopped')
    BY <2>1, Zenon
  <2>3. now \in Nat /\ now' \in Nat /\ now <= now'
    BY <2>1
  <2> QED
    BY <1>4, <2>1, <2>2, <2>3 DEF TimeMoves
<1>6. CASE PostAccepted \/ PostRejected \/ PostFails \/ PostTimesOut
  <2>1. now' \in Nat /\ now <= now' /\ UNCHANGED stopped
    BY <1>1, <1>2, <1>6 DEF PostAccepted, PostRejected, PostFails, PostTimesOut
  <2>2. CopyMade
    BY <1>3, <1>6 DEF PostAccepted, PostRejected, PostFails, PostTimesOut, MaybeStored
  <2> QED
    BY <2>1, <2>2 DEF TimeMoves
<1>7. CASE PostCanceled
  BY <1>3, <1>7 DEF PostCanceled, MaybeStored, TimeMoves
<1>8. CASE BackoffOver
  <2>1. attempt \in 0 .. 2
    BY <1>8, Pauses DEF BackoffOver, PauseInv
  <2>2. Backoffs[attempt + 1] \in Nat
    BY <2>1, Pauses
  <2> QED
    BY <1>1, <1>4, <1>8, <2>2 DEF BackoffOver, TimeMoves
<1>9. CASE BackoffCut
  BY <1>4, <1>9, SenderAssumption DEF BackoffCut, TimeMoves
<1> QED
  BY <1>5, <1>6, <1>7, <1>8, <1>9 DEF SenderNext

LEMMA BoundInit == Deadline = 3 /\ SenderInit => BoundInv
BY SenderAssumption DEF SenderInit, BoundInv, Batch

LEMMA BoundNext ==
  Deadline = 3 /\ CallInv /\ BoundInv /\ [SenderNext]_senderVars => BoundInv'
<1> SUFFICES ASSUME Deadline = 3, CallInv, BoundInv, [SenderNext]_senderVars PROVE BoundInv'
  OBVIOUS
<1>0. CASE UNCHANGED senderVars
  BY <1>0 DEF senderVars, BoundInv, LeftOver, CtxDone
<1>1. CASE SenderNext
  <2>0. TimeMoves /\ CopyMade
    BY <1>1, StepMoves
  <2>1. CASE PostRefused
    <3>1. PICK e \in {"canceled", "deadline"} : AttemptFails(e)
      BY <2>1 DEF PostRefused
    <3>2. CtxDone'
      BY <2>0, <2>1, TimeIsUp DEF PostRefused
    <3> QED
      BY <2>0, <2>1, <3>1, <3>2, FailKeepsBound DEF PostRefused, Errors
  <2>2. CASE PostAccepted
    <3>1. Onwards /\ attempt' = 0 /\ ~(single = 0 /\ pc' = "post")
      BY <2>2 DEF PostAccepted, PostSucceeds, Following, Onwards
    <3> QED
      BY <2>0, <3>1, OnwardsKeepsBound
  <2>3. CASE PostRejected
    BY <2>0, <2>3, FailKeepsBound DEF PostRejected, Errors
  <2>4. CASE PostFails
    BY <2>0, <2>4, FailKeepsBound DEF PostFails, Errors
  <2>5. CASE PostTimesOut
    BY <2>0, <2>5, FailKeepsBound DEF PostTimesOut, Errors
  <2>6. CASE PostCanceled
    <3>1. CtxDone'
      BY <2>6 DEF PostCanceled, CtxDone
    <3> QED
      BY <2>0, <2>6, <3>1, FailKeepsBound DEF PostCanceled, Errors
  <2>7. CASE BackoffOver
    <3>1. attempt = 0
      BY <2>7, Pauses, SenderAssumption DEF CallInv, SenderTypeOK, BoundInv, BackoffOver
    <3>2. attempt' = 1 /\ now' >= 1 /\ pc' = "post" /\ UNCHANGED <<single, stored>>
      BY <2>7, <3>1, Pauses, SenderAssumption DEF CallInv, SenderTypeOK, BackoffOver, Passes
    <3>3. ASSUME NEW i \in Batch
          PROVE  /\ stored[i] <= 3
                 /\ single = 0 => stored[i] <= 1
                 /\ i = single => stored[i] <= LeftOver' + 1
                 /\ single >= 1 /\ i > single => stored[i] <= LeftOver'
      BY <2>0, <2>7, <3>1, <3>3, TimeIsUp DEF CopyMade, BoundInv, BackoffOver
    <3> QED
      BY <3>2, <3>3 DEF BoundInv
  <2>8. CASE BackoffCut
    <3>1. Onwards /\ attempt' = 0
      BY <2>8 DEF BackoffCut, PostGivesUp, Following, Onwards
    <3>2. CtxDone'
      BY <2>8, SenderAssumption DEF BackoffCut, CtxDone
    <3>3. ASSUME single = 0, NEW i \in Batch PROVE stored'[i] <= LeftOver'
      <4>1. stored'[i] = stored[i] /\ stored[i] <= attempt + 1 /\ attempt \in {0, 1}
        BY <2>8, <3>3, Pauses DEF BackoffCut, BoundInv, CallInv, SenderTypeOK
      <4> QED
        BY <2>0, <3>2, <4>1, TimeIsUp DEF CopyMade
    <3> QED
      BY <2>0, <3>1, <3>3, OnwardsKeepsBound
  <2>9. CASE Stop
    <3>1. pc' = pc /\ UNCHANGED <<single, attempt, stored, now>>
      BY <2>9 DEF Stop
    <3>2. ASSUME NEW i \in Batch, single >= 1, i > single PROVE stored[i] <= LeftOver'
      BY <2>0, <3>2, TimeIsUp DEF CopyMade, BoundInv
    <3> QED
      BY <2>9, <3>1, <3>2 DEF BoundInv, Stop
  <2>10. CASE Returned
    BY <2>10 DEF Returned, senderVars, BoundInv, LeftOver, CtxDone
  <2> QED
    BY <1>1, <2>1, <2>2, <2>3, <2>4, <2>5, <2>6, <2>7, <2>8, <2>9, <2>10 DEF SenderNext
<1> QED
  BY <1>0, <1>1

\* Within the three seconds a worker gives a call (cmd/agent/main.go:312) there
\* are at most two attempts of anything and at most three copies of a metric.
THEOREM ThreeSeconds == ASSUME Deadline = 3 PROVE SenderSpec => []ThreeSecondsBound
<1>1. SenderInit => BoundInv
  BY BoundInit
<1>2. CallInv /\ BoundInv /\ [SenderNext]_senderVars => BoundInv'
  BY BoundNext
<1>3. BoundInv => ThreeSecondsBound
  BY DEF BoundInv, ThreeSecondsBound
<1> QED
  BY <1>1, <1>2, <1>3, CallCorrect, PTL DEF SenderSpec
==============================================================================
