----------------------------- MODULE AgentProofs -----------------------------
(***************************************************************************)
(* That the agent's queue and workers neither lose nor double nor reorder  *)
(* a report, for every number of workers, polls, reports and late posts.   *)
(***************************************************************************)
EXTENDS Agent, FiniteSetTheorems, SequenceTheorems, TLAPS

RuntimeReports == [kind : {"runtime"}, taken : 1 .. MaxReports, delta : Nat]

LEMMA BatchFacts ==
  /\ \A b \in Batches : IsReport(b) <=> b \in RuntimeReports
  /\ ~IsReport(Idle) /\ Idle \notin Batches
  /\ SystemBatch \in Batches /\ ~IsReport(SystemBatch)
  /\ RuntimeReports \subseteq Batches
  /\ \A b \in RuntimeReports : b.taken \in Nat /\ b.taken \in 1 .. MaxReports
BY AgentAssumption DEF Batches, RuntimeReports, IsReport, Idle, SystemBatch

LEMMA CapacityType == workers \in Teams => Capacity \in Nat /\ Cardinality(workers) \in Nat
<1> SUFFICES ASSUME workers \in Teams PROVE Capacity \in Nat /\ Cardinality(workers) \in Nat
  OBVIOUS
<1>1. Cardinality(workers) \in Nat
  BY AgentAssumption, FS_CardinalityType
<1> QED
  BY <1>1 DEF Capacity
-----------------------------------------------------------------------------
(***************************************************************************)
(* Queues.                                                                 *)
(***************************************************************************)
InOrder(q) ==
  \A i, j \in DOMAIN q :
    i < j /\ IsReport(q[i]) /\ IsReport(q[j]) => q[i].taken < q[j].taken

LEMMA EnqueueFacts ==
  ASSUME NEW q \in Seq(Batches), NEW b \in Batches, InOrder(q),
         IsReport(b) => \A c \in Reports(Range(q)) : c.taken < b.taken
  PROVE  /\ Append(q, b) \in Seq(Batches)
         /\ Len(Append(q, b)) = Len(q) + 1
         /\ Range(Append(q, b)) = Range(q) \cup {b}
         /\ InOrder(Append(q, b))
<1> DEFINE r == Append(q, b)
<1>1. /\ r \in Seq(Batches) /\ Len(r) = Len(q) + 1 /\ Len(q) \in Nat
      /\ DOMAIN q = 1 .. Len(q)
      /\ \A i \in 1 .. Len(q) : r[i] = q[i]
      /\ r[Len(q) + 1] = b
  BY AppendProperties, LenProperties
<1>2. DOMAIN r = 1 .. Len(q) + 1
  BY <1>1, LenProperties
<1> HIDE DEF r
<1>3. \A i \in DOMAIN r : (i \in DOMAIN q /\ r[i] = q[i]) \/ (i = Len(q) + 1 /\ r[i] = b)
  BY <1>1, <1>2
<1>4. DOMAIN q \subseteq DOMAIN r /\ Len(q) + 1 \in DOMAIN r
  BY <1>1, <1>2
<1>5. Range(r) = Range(q) \cup {b}
  BY <1>1, <1>3, <1>4 DEF Range
<1>6. InOrder(r)
  <2> SUFFICES ASSUME NEW i \in DOMAIN r, NEW j \in DOMAIN r, i < j,
                      IsReport(r[i]), IsReport(r[j])
               PROVE  r[i].taken < r[j].taken
    BY DEF InOrder
  <2>1. i \in DOMAIN q /\ r[i] = q[i]
    BY <1>1, <1>2, <1>3
  <2>2. CASE j \in DOMAIN q /\ r[j] = q[j]
    BY <2>1, <2>2 DEF InOrder
  <2>3. CASE r[j] = b
    <3>1. r[i] \in Reports(Range(q))
      BY <2>1 DEF Reports, Range
    <3> QED
      BY <2>3, <3>1
  <2> QED
    BY <1>3, <2>2, <2>3
<1> QED
  BY <1>1, <1>5, <1>6 DEF r

LEMMA DequeueFacts ==
  ASSUME NEW q \in Seq(Batches), q # <<>>, InOrder(q)
  PROVE  /\ Head(q) \in Batches
         /\ Tail(q) \in Seq(Batches)
         /\ Len(Tail(q)) <= Len(q)
         /\ Range(q) = Range(Tail(q)) \cup {Head(q)}
         /\ InOrder(Tail(q))
         /\ IsReport(Head(q)) => \A c \in Reports(Range(Tail(q))) : Head(q).taken < c.taken
<1> DEFINE r == Tail(q)
<1>1. /\ r \in Seq(Batches) /\ Len(r) = Len(q) - 1 /\ Len(q) \in Nat /\ Len(r) \in Nat
      /\ DOMAIN q = 1 .. Len(q) /\ DOMAIN r = 1 .. Len(r)
      /\ \A i \in 1 .. Len(r) : r[i] = q[i + 1]
      /\ Head(q) \in Batches
  BY HeadTailProperties, LenProperties
<1>2. Head(q) = q[1]
  OBVIOUS
<1> HIDE DEF r
<1>3. \A i \in DOMAIN r : i \in Nat /\ i + 1 \in DOMAIN q /\ r[i] = q[i + 1] /\ 1 < i + 1
  BY <1>1
<1>4. \A i \in DOMAIN q : i = 1 \/ (i - 1 \in DOMAIN r /\ q[i] = r[i - 1])
  BY <1>1
<1>5. 1 \in DOMAIN q
  BY <1>1
<1>6. Range(q) = Range(r) \cup {q[1]}
  BY <1>3, <1>4, <1>5 DEF Range
<1>7. InOrder(r)
  <2>1. \A i, j \in Nat : i < j => i + 1 < j + 1
    OBVIOUS
  <2> QED
    BY <1>3, <2>1 DEF InOrder
<1>8. ASSUME IsReport(q[1]), NEW c \in Reports(Range(r)) PROVE q[1].taken < c.taken
  <2>1. PICK i \in DOMAIN r : c = r[i]
    BY DEF Reports, Range
  <2>2. IsReport(q[i + 1])
    BY <1>3, <2>1 DEF Reports
  <2> QED
    BY <1>3, <1>5, <1>8, <2>1, <2>2 DEF InOrder
<1> QED
  BY <1>1, <1>2, <1>6, <1>7, <1>8 DEF r
-----------------------------------------------------------------------------
(***************************************************************************)
(* The server: what it has accepted, in the order it handled it.           *)
(***************************************************************************)
OnceOrAdrift(s, loose) == \A i, j \in DOMAIN s : i # j /\ s[i] = s[j] => s[i] \in loose

Forward(s, loose) ==
  \A i, j \in DOMAIN s : i < j => s[i].taken < s[j].taken \/ s[j] \in loose

LEMMA StoreFacts ==
  ASSUME NEW s \in Seq(RuntimeReports), NEW b \in RuntimeReports
  PROVE  /\ Append(s, b) \in Seq(RuntimeReports)
         /\ Range(Append(s, b)) = Range(s) \cup {b}
         /\ \A loose : OnceOrAdrift(s, loose) /\ (b \in Range(s) => b \in loose) =>
                         OnceOrAdrift(Append(s, b), loose)
         /\ \A loose : Forward(s, loose)
                       /\ (b \in loose \/ \A c \in Range(s) : c.taken < b.taken) =>
                         Forward(Append(s, b), loose)
<1> DEFINE r == Append(s, b)
<1>1. /\ r \in Seq(RuntimeReports) /\ Len(r) = Len(s) + 1 /\ Len(s) \in Nat
      /\ DOMAIN s = 1 .. Len(s)
      /\ \A i \in 1 .. Len(s) : r[i] = s[i]
      /\ r[Len(s) + 1] = b
  BY AppendProperties, LenProperties
<1>2. DOMAIN r = 1 .. Len(s) + 1
  BY <1>1, LenProperties
<1> HIDE DEF r
<1>3. \A i \in DOMAIN r : (i \in DOMAIN s /\ r[i] = s[i] /\ s[i] \in Range(s))
                          \/ (i = Len(s) + 1 /\ r[i] = b)
  BY <1>1, <1>2 DEF Range
<1>4. DOMAIN s \subseteq DOMAIN r /\ Len(s) + 1 \in DOMAIN r
  BY <1>1, <1>2
<1>5. Range(r) = Range(s) \cup {b}
  BY <1>1, <1>3, <1>4 DEF Range
<1>6. ASSUME NEW loose, OnceOrAdrift(s, loose), b \in Range(s) => b \in loose
      PROVE  OnceOrAdrift(r, loose)
  BY <1>3, <1>6 DEF OnceOrAdrift
<1>7. ASSUME NEW loose, Forward(s, loose), b \in loose \/ \A c \in Range(s) : c.taken < b.taken
      PROVE  Forward(r, loose)
  <2> SUFFICES ASSUME NEW i \in DOMAIN r, NEW j \in DOMAIN r, i < j
               PROVE  r[i].taken < r[j].taken \/ r[j] \in loose
    BY DEF Forward
  <2>1. i \in DOMAIN s /\ r[i] = s[i] /\ s[i] \in Range(s)
    BY <1>1, <1>2, <1>3
  <2> QED
    BY <1>3, <1>7, <2>1 DEF Forward
<1> QED
  BY <1>1, <1>5, <1>6, <1>7 DEF r
-----------------------------------------------------------------------------
(***************************************************************************)
(* The inductive invariant.                                                *)
(***************************************************************************)
AgentTypes ==
  /\ workers \in Teams
  /\ pollCount \in Nat
  /\ poller \in [pc : {"idle", "store"}, loaded : Nat]
  /\ reporter \in [pc : {"idle", "enqueue", "reset"}, batch : RuntimeReports \cup {Idle}]
  /\ reporter.pc = "idle" <=> reporter.batch = Idle
  /\ system \in {"idle", "enqueue"}
  /\ ended \subseteq Goroutines
  /\ stopped \in BOOLEAN
  /\ ended # {} => stopped
  /\ reports \in 0 .. MaxReports

FlowTypes ==
  /\ jobs \in Seq(Batches)
  /\ worker \in [workers -> Batches \cup {Idle}]
  /\ server \in Seq(RuntimeReports)
  /\ adrift \subseteq RuntimeReports
  /\ givenUp \subseteq RuntimeReports

\* Where a report is that has left the queue, or has left it once.
Ahead == InHand \cup Range(server) \cup adrift

\* What the reporter has taken and not queued is newer than all the others.
Newest ==
  /\ \A b \in Queued \cup Ahead : b.taken <= reports /\ (reporter.pc = "enqueue" => b.taken < reports)
  /\ reporter.pc = "enqueue" => reporter.batch.taken = reports

QueueOrder ==
  /\ Len(jobs) <= Capacity
  /\ InOrder(jobs)
  /\ \A b \in Queued, c \in Ahead : c.taken < b.taken

\* A report is in one worker's hands, and has not been posted yet.
HandsAreApart ==
  /\ \A v, w \in workers : v # w /\ worker[v] = worker[w] => ~IsReport(worker[v])
  /\ \A c \in InHand : c \notin Range(server) \cup adrift
  /\ Cardinality(workers) = 1 => \A c \in InHand, d \in Range(server) \cup adrift : d.taken < c.taken

ServerOrder ==
  /\ OnceOrAdrift(server, adrift)
  /\ Cardinality(workers) = 1 => Forward(server, adrift)

FlowInv == FlowTypes /\ Newest /\ QueueOrder /\ HandsAreApart /\ ServerOrder /\ ReportsAccounted

AgentInv == AgentTypes /\ FlowInv
-----------------------------------------------------------------------------
(***************************************************************************)
(* Types.                                                                  *)
(***************************************************************************)
LEMMA AgentInitTypes == AgentInit => AgentTypes
<1> SUFFICES ASSUME AgentInit PROVE AgentTypes
  OBVIOUS
<1>1. reports \in 0 .. MaxReports
  BY AgentAssumption DEF AgentInit
<1>2. /\ reporter \in [pc : {"idle", "enqueue", "reset"}, batch : RuntimeReports \cup {Idle}]
      /\ reporter.pc = "idle" /\ reporter.batch = Idle
  BY DEF AgentInit
<1>3. poller \in [pc : {"idle", "store"}, loaded : Nat]
  BY DEF AgentInit
<1> QED
  BY <1>1, <1>2, <1>3 DEF AgentInit, AgentTypes

LEMMA AgentTypesStep ==
  ASSUME AgentTypes, AgentNext
  PROVE  AgentTypes'
<1> USE DEF AgentTypes
<1>1. CASE PollLoad
  BY <1>1 DEF PollLoad, netVars, Goroutines
<1>2. CASE PollStore
  BY <1>2 DEF PollStore, tickVars, netVars, Goroutines
<1>3. CASE ReportRead
  <2>1. reports' = reports + 1 /\ reports' \in 1 .. MaxReports
    BY <1>3, AgentAssumption DEF ReportRead
  <2>2. Report(reports', pollCount) \in RuntimeReports /\ Report(reports', pollCount) # Idle
    BY <2>1 DEF Report, RuntimeReports, Idle
  <2> QED
    BY <1>3, <2>1, <2>2 DEF ReportRead, netVars, Goroutines
<1>4. CASE ReportEnqueue
  BY <1>4 DEF ReportEnqueue, tickVars, netVars, Goroutines
<1>5. CASE ReportReset
  BY <1>5 DEF ReportReset, tickVars, netVars, Goroutines
<1>6. CASE SystemCollect
  BY <1>6 DEF SystemCollect, netVars, Goroutines
<1>7. CASE SystemEnqueue
  BY <1>7 DEF SystemEnqueue, tickVars, netVars, Goroutines
<1>8. ASSUME NEW w \in workers, Receive(w) \/ Sent(w) PROVE AgentTypes'
  BY <1>8 DEF Receive, Sent, tickVars, Goroutines
<1>9. ASSUME NEW b \in adrift, Land(b) PROVE AgentTypes'
  BY <1>9 DEF Land, tickVars, Goroutines
<1>10. CASE Stop
  BY <1>10 DEF Stop, tickVars, netVars, Goroutines
<1>11. ASSUME NEW g \in Goroutines, End(g) PROVE AgentTypes'
  BY <1>11 DEF End, tickVars, netVars, Goroutines
<1>12. CASE Quiet
  BY <1>12 DEF Quiet, agentVars, tickVars, Goroutines
<1> QED
  BY <1>1, <1>2, <1>3, <1>4, <1>5, <1>6, <1>7, <1>8, <1>9, <1>10, <1>11, <1>12 DEF AgentNext
-----------------------------------------------------------------------------
(***************************************************************************)
(* The way of a report.                                                    *)
(***************************************************************************)
LEMMA FlowInit == AgentInit => FlowInv
<1> SUFFICES ASSUME AgentInit PROVE FlowInv
  OBVIOUS
<1>1. /\ workers \in Teams /\ jobs = <<>> /\ server = <<>> /\ adrift = {} /\ givenUp = {}
      /\ worker = [w \in workers |-> Idle] /\ reports = 0 /\ reporter.pc = "idle"
  BY DEF AgentInit
<1>2. FlowTypes
  BY <1>1 DEF FlowTypes
<1>3. Queued = {} /\ InHand = {} /\ Range(server) = {} /\ Ahead = {}
  <2>1. Range(jobs) = {} /\ Range(server) = {}
    BY <1>1 DEF Range
  <2>2. InHand = {}
    BY <1>1, BatchFacts DEF InHand, Reports, Range
  <2> QED
    BY <1>1, <2>1, <2>2 DEF Queued, Reports, Ahead
<1>4. Newest
  BY <1>1, <1>3 DEF Newest
<1>5. QueueOrder
  <2>1. Len(jobs) = 0 /\ DOMAIN jobs = {} /\ Capacity \in Nat
    BY <1>1, CapacityType
  <2> QED
    BY <1>3, <2>1 DEF QueueOrder, InOrder
<1>6. HandsAreApart
  BY <1>1, <1>3, BatchFacts DEF HandsAreApart
<1>7. ServerOrder
  BY <1>1 DEF ServerOrder, OnceOrAdrift, Forward
<1>8. ReportsAccounted
  BY <1>1 DEF ReportsAccounted
<1> QED
  BY <1>2, <1>4, <1>5, <1>6, <1>7, <1>8 DEF FlowInv

\* A step that leaves the reports where they are.
LEMMA FlowFrame ==
  ASSUME FlowInv, UNCHANGED <<workers, jobs, worker, server, adrift, givenUp, reports>>,
         reporter'.pc = "enqueue" <=> reporter.pc = "enqueue",
         reporter.pc = "enqueue" => reporter'.batch = reporter.batch
  PROVE  FlowInv'
<1>1. Queued' = Queued /\ Ahead' = Ahead /\ InHand' = InHand /\ Capacity' = Capacity
  BY DEF Queued, Ahead, InHand, Capacity
<1>2. Taken' = Taken
  BY <1>1 DEF Taken
<1>3. FlowTypes' /\ HandsAreApart' /\ ServerOrder' /\ QueueOrder'
  BY <1>1 DEF FlowInv, FlowTypes, HandsAreApart, ServerOrder, QueueOrder
<1>4. Newest'
  BY <1>1 DEF FlowInv, Newest
<1>5. ReportsAccounted'
  BY <1>2 DEF FlowInv, ReportsAccounted
<1> QED
  BY <1>3, <1>4, <1>5 DEF FlowInv

LEMMA ReportReadFlow ==
  ASSUME AgentInv, ReportRead
  PROVE  FlowInv'
<1>1. /\ UNCHANGED <<workers, jobs, worker, server, adrift, givenUp>>
      /\ reporter.pc = "idle" /\ reporter'.pc = "enqueue"
      /\ reporter'.batch.taken = reports'
      /\ reports' = reports + 1 /\ reports \in Nat
  BY AgentAssumption DEF AgentInv, AgentTypes, ReportRead, netVars, Report
<1>2. Queued' = Queued /\ Ahead' = Ahead /\ InHand' = InHand /\ Capacity' = Capacity
  BY <1>1 DEF Queued, Ahead, InHand, Capacity
<1>3. Taken' = Taken
  BY <1>1, <1>2 DEF Taken
<1>4. FlowTypes' /\ HandsAreApart' /\ ServerOrder' /\ QueueOrder'
  BY <1>1, <1>2 DEF AgentInv, FlowInv, FlowTypes, HandsAreApart, ServerOrder, QueueOrder
<1>5. \A b \in Queued \cup Ahead : b.taken \in Nat
  BY BatchFacts DEF AgentInv, FlowInv, FlowTypes, Queued, Ahead, InHand, Reports, Range
<1>6. Newest'
  <2>1. \A b \in Queued \cup Ahead : b.taken <= reports
    BY DEF AgentInv, FlowInv, Newest
  <2>2. \A n \in Nat : n <= reports => n <= reports + 1 /\ n < reports + 1
    BY <1>1
  <2> QED
    BY <1>1, <1>2, <1>5, <2>1, <2>2 DEF Newest
<1>7. ReportsAccounted'
  <2> SUFFICES ASSUME NEW n \in 1 .. reports + 1, n # reports + 1
               PROVE  \E b \in Taken : b.taken = n
    BY <1>1, <1>3 DEF ReportsAccounted
  <2>1. n \in 1 .. reports
    BY <1>1
  <2> QED
    BY <1>1, <2>1 DEF AgentInv, FlowInv, ReportsAccounted
<1> QED
  BY <1>4, <1>6, <1>7 DEF FlowInv

\* Whoever waits for room in the queue gets behind all that waits there.
LEMMA QueuedFlow ==
  ASSUME AgentInv, NEW b \in Batches, Room, jobs' = Append(jobs, b),
         UNCHANGED <<workers, worker, server, adrift, givenUp, reports>>,
         IsReport(b) => /\ reporter.pc = "enqueue" /\ b = reporter.batch
                        /\ reporter'.pc # "enqueue",
         ~IsReport(b) => reporter' = reporter
  PROVE  FlowInv'
<1> USE DEF AgentInv, FlowInv
<1>1. IsReport(b) => \A c \in Queued \cup Ahead : c.taken < b.taken
  BY DEF Newest
<1>2. InOrder(jobs) /\ jobs \in Seq(Batches)
  BY DEF QueueOrder, FlowTypes
<1>3. /\ jobs' \in Seq(Batches)
      /\ Len(jobs') = Len(jobs) + 1
      /\ Range(jobs') = Range(jobs) \cup {b}
      /\ InOrder(jobs')
  BY <1>1, <1>2, EnqueueFacts DEF Queued
<1>4. /\ Queued' = Queued \cup Reports({b})
      /\ Ahead' = Ahead /\ InHand' = InHand /\ Capacity' = Capacity
  BY <1>3 DEF Queued, Reports, Ahead, InHand, Capacity
<1>5. FlowTypes' /\ HandsAreApart' /\ ServerOrder'
  BY <1>3, <1>4 DEF FlowTypes, HandsAreApart, ServerOrder
<1>6. Len(jobs') <= Capacity'
  BY <1>2, <1>3, <1>4, CapacityType, LenProperties DEF Room, AgentTypes
<1>7. QueueOrder'
  BY <1>1, <1>3, <1>4, <1>6 DEF QueueOrder, Reports
<1>8. Newest'
  <2>1. IsReport(b) => b.taken = reports /\ reports \in Nat
    BY AgentAssumption DEF Newest, AgentTypes
  <2> QED
    BY <1>4, <2>1 DEF Newest, Reports
<1>9. ReportsAccounted'
  <2>1. Taken' = Taken \cup Reports({b})
    BY <1>4 DEF Taken
  <2>2. IsReport(b) => b \in Reports({b})
    BY DEF Reports
  <2> SUFFICES ASSUME NEW n \in 1 .. reports
               PROVE  \/ reporter'.pc = "enqueue" /\ reporter'.batch.taken = n
                      \/ \E c \in Taken' : c.taken = n
    BY DEF ReportsAccounted
  <2>3. \/ reporter.pc = "enqueue" /\ reporter.batch.taken = n
        \/ \E c \in Taken : c.taken = n
    BY DEF ReportsAccounted
  <2> QED
    BY <2>1, <2>2, <2>3
<1> QED
  BY <1>5, <1>7, <1>8, <1>9

LEMMA ReceiveFlow ==
  ASSUME AgentInv, NEW w \in workers, Receive(w)
  PROVE  FlowInv'
<1> USE DEF AgentInv, FlowInv
<1> DEFINE b == Head(jobs)
<1>1. /\ jobs # <<>> /\ jobs' = Tail(jobs) /\ worker[w] = Idle
      /\ UNCHANGED <<workers, reporter, reports, server, adrift>>
      /\ \/ worker' = worker /\ givenUp' = givenUp \cup Reports({b})
         \/ worker' = [worker EXCEPT ![w] = b] /\ givenUp' = givenUp
  BY DEF Receive, tickVars
<1>2. /\ b \in Batches
      /\ jobs' \in Seq(Batches)
      /\ Len(jobs') <= Len(jobs)
      /\ Range(jobs) = Range(jobs') \cup {b}
      /\ InOrder(jobs')
      /\ IsReport(b) => \A c \in Queued' : b.taken < c.taken
  BY <1>1, DequeueFacts DEF FlowTypes, QueueOrder, Queued
<1> HIDE DEF b
<1>3. Queued = Queued' \cup Reports({b}) /\ Capacity' = Capacity
  BY <1>1, <1>2 DEF Queued, Reports, Capacity
<1>4. /\ worker' \in [workers -> Batches \cup {Idle}]
      /\ givenUp' \subseteq RuntimeReports
  BY <1>1, <1>2, BatchFacts DEF FlowTypes, Reports
<1>5. ASSUME worker' = [worker EXCEPT ![w] = b]
      PROVE  /\ InHand' = InHand \cup Reports({b})
             /\ \A v \in workers : worker'[v] = IF v = w THEN b ELSE worker[v]
  <2>1. \A v \in workers : worker'[v] = IF v = w THEN b ELSE worker[v]
    BY <1>5 DEF FlowTypes
  <2>2. DOMAIN worker = workers /\ DOMAIN worker' = workers
    BY <1>4 DEF FlowTypes
  <2> QED
    BY <1>1, <2>1, <2>2, BatchFacts DEF InHand, Reports, Range
<1>6. \/ worker' = worker /\ InHand' = InHand /\ givenUp' = givenUp \cup Reports({b})
      \/ /\ \A v \in workers : worker'[v] = IF v = w THEN b ELSE worker[v]
         /\ InHand' = InHand \cup Reports({b})
         /\ givenUp' = givenUp
  BY <1>1, <1>5 DEF InHand
<1>7. /\ \A c \in Queued' : c \in Queued
      /\ \A c \in Ahead' : c \in Ahead \/ (c = b /\ IsReport(b))
      /\ \A c \in InHand' : c \in InHand \/ (c = b /\ IsReport(b))
      /\ IsReport(b) => b \in Queued
  BY <1>1, <1>3, <1>6 DEF Ahead, Reports
<1>8. IsReport(b) => \A c \in Ahead : c.taken < b.taken /\ c # b
  <2>1. IsReport(b) => \A c \in Ahead : c.taken < b.taken
    BY <1>7 DEF QueueOrder
  <2>2. IsReport(b) => b.taken \in Nat
    BY <1>2, BatchFacts
  <2>3. \A n \in Nat : ~(n < n)
    OBVIOUS
  <2> QED
    BY <2>1, <2>2, <2>3
<1>9. FlowTypes'
  BY <1>1, <1>2, <1>4 DEF FlowTypes
<1>10. Newest'
  BY <1>1, <1>7 DEF Newest
<1>11. QueueOrder'
  <2>1. Len(jobs') <= Capacity'
    <3>1. Len(jobs) \in Nat /\ Len(jobs') \in Nat /\ Capacity \in Nat
      BY <1>2, CapacityType, LenProperties DEF FlowTypes, AgentTypes
    <3> QED
      BY <1>2, <1>3, <3>1 DEF QueueOrder
  <2> QED
    BY <1>2, <1>7, <2>1 DEF QueueOrder
<1>12. HandsAreApart'
  <2>1. ASSUME NEW v \in workers, NEW u \in workers, v # u, worker'[v] = worker'[u]
        PROVE  ~IsReport(worker'[v])
    <3>1. \A x \in workers : worker[x] = b /\ IsReport(b) => b \in Ahead
      BY DEF Ahead, InHand, Reports, Range, FlowTypes
    <3> QED
      BY <1>6, <1>8, <2>1, <3>1 DEF HandsAreApart
  <2>2. \A c \in InHand' : c \notin Range(server) \cup adrift
    BY <1>7, <1>8 DEF HandsAreApart, Ahead
  <2>3. Cardinality(workers) = 1 => \A c \in InHand', d \in Range(server) \cup adrift : d.taken < c.taken
    BY <1>7, <1>8 DEF HandsAreApart, Ahead
  <2> QED
    BY <1>1, <2>1, <2>2, <2>3 DEF HandsAreApart
<1>13. ServerOrder'
  BY <1>1 DEF ServerOrder
<1>14. ReportsAccounted'
  <2>1. Taken \subseteq Taken'
    BY <1>1, <1>3, <1>6 DEF Taken
  <2> QED
    BY <1>1, <2>1 DEF ReportsAccounted
<1> QED
  BY <1>9, <1>10, <1>11, <1>12, <1>13, <1>14

\* The server accepts what a worker has in its hands, or does not; what becomes of
\* the post is not known when the worker has turned away.
LEMMA SentFlow ==
  ASSUME AgentInv, NEW w \in workers, Sent(w)
  PROVE  FlowInv'
<1> USE DEF AgentInv, FlowInv
<1> DEFINE b == worker[w]
<1>1. /\ b # Idle /\ worker' = [worker EXCEPT ![w] = Idle]
      /\ UNCHANGED <<workers, reporter, reports, jobs>>
      /\ \/ server' = (IF IsReport(b) THEN Append(server, b) ELSE server) /\ givenUp' = givenUp
         \/ server' = server /\ givenUp' = givenUp \cup Reports({b})
      /\ adrift' = adrift \/ adrift' = adrift \cup Reports({b})
  BY DEF Sent, Accepts, tickVars
<1>2. b \in Batches /\ (IsReport(b) => b \in RuntimeReports)
  BY <1>1, BatchFacts DEF FlowTypes
<1>3. /\ \A v \in workers : worker'[v] = IF v = w THEN Idle ELSE worker[v]
      /\ DOMAIN worker = workers /\ DOMAIN worker' = workers
      /\ worker' \in [workers -> Batches \cup {Idle}]
  BY <1>1 DEF FlowTypes
<1>4. InHand' \subseteq InHand /\ InHand \subseteq InHand' \cup Reports({b})
  BY <1>1, <1>3, BatchFacts DEF InHand, Reports, Range
<1>5. IsReport(b) => b \in InHand /\ b \notin InHand'
  <2>1. IsReport(b) => b \in InHand
    BY <1>3 DEF InHand, Reports, Range
  <2>2. ASSUME IsReport(b), b \in InHand' PROVE FALSE
    <3>1. PICK v \in workers : worker'[v] = b
      BY <1>1, <1>3, <2>2 DEF InHand, Reports, Range
    <3>2. v # w /\ worker[v] = b
      BY <1>1, <1>3, <3>1
    <3> QED
      BY <2>2, <3>2 DEF HandsAreApart
  <2> QED
    BY <2>1, <2>2
<1>6. Queued' = Queued /\ Capacity' = Capacity
  BY <1>1 DEF Queued, Capacity
<1> HIDE DEF b
<1>7. /\ server' \in Seq(RuntimeReports)
      /\ Range(server') \subseteq Range(server) \cup Reports({b})
      /\ Range(server) \subseteq Range(server')
      /\ OnceOrAdrift(server, adrift) /\ (IsReport(b) => b \notin Range(server)) =>
           OnceOrAdrift(server', adrift)
      /\ Forward(server, adrift) /\ (IsReport(b) => \A c \in Range(server) : c.taken < b.taken) =>
           Forward(server', adrift)
  <2>1. CASE server' = server
    BY <2>1 DEF FlowTypes
  <2>2. CASE server' # server
    <3>1. IsReport(b) /\ server' = Append(server, b)
      BY <1>1, <2>2
    <3>2. server \in Seq(RuntimeReports) /\ b \in RuntimeReports
      BY <1>2, <3>1 DEF FlowTypes
    <3>3. /\ Append(server, b) \in Seq(RuntimeReports)
          /\ Range(Append(server, b)) = Range(server) \cup {b}
          /\ OnceOrAdrift(server, adrift) /\ (b \in Range(server) => b \in adrift) =>
               OnceOrAdrift(Append(server, b), adrift)
          /\ Forward(server, adrift)
             /\ (b \in adrift \/ \A c \in Range(server) : c.taken < b.taken) =>
               Forward(Append(server, b), adrift)
      BY <3>2, StoreFacts
    <3>4. Reports({b}) = {b}
      BY <3>1 DEF Reports
    <3> QED
      BY <3>1, <3>3, <3>4
  <2> QED
    BY <2>1, <2>2
<1>8. adrift \subseteq adrift' /\ adrift' \subseteq adrift \cup Reports({b})
  BY <1>1
<1>9. /\ \A c \in Ahead' : c \in Ahead
      /\ \A c \in Range(server') \cup adrift' : c \in Range(server) \cup adrift \/ (c = b /\ IsReport(b))
  BY <1>4, <1>5, <1>7, <1>8 DEF Ahead, Reports
<1>10. FlowTypes'
  BY <1>1, <1>2, <1>3, <1>7 DEF FlowTypes, Reports
<1>11. Newest'
  BY <1>1, <1>6, <1>9 DEF Newest
<1>12. QueueOrder'
  BY <1>1, <1>6, <1>9 DEF QueueOrder
<1>13. HandsAreApart'
  <2>1. \A v, u \in workers : v # u /\ worker'[v] = worker'[u] => ~IsReport(worker'[v])
    BY <1>3, BatchFacts DEF HandsAreApart
  <2>2. \A c \in InHand' : c \notin Range(server') \cup adrift'
    BY <1>4, <1>5, <1>9 DEF HandsAreApart
  <2>3. Cardinality(workers) = 1 => InHand' = {}
    <3> SUFFICES ASSUME Cardinality(workers) = 1 PROVE InHand' = {}
      OBVIOUS
    <3>1. PICK x : workers = {x}
      BY AgentAssumption, FS_Singleton DEF AgentTypes
    <3> QED
      BY <1>3, <3>1, BatchFacts DEF InHand, Reports, Range
  <2> QED
    BY <1>1, <2>1, <2>2, <2>3 DEF HandsAreApart
<1>14. ServerOrder'
  <2>1. OnceOrAdrift(server', adrift)
    BY <1>5, <1>7 DEF HandsAreApart, ServerOrder
  <2>2. Cardinality(workers) = 1 => Forward(server', adrift)
    BY <1>5, <1>7 DEF HandsAreApart, ServerOrder
  <2> QED
    BY <1>1, <1>8, <2>1, <2>2 DEF ServerOrder, OnceOrAdrift, Forward
<1>15. ReportsAccounted'
  <2>1. Reports({b}) \subseteq Range(server') \cup givenUp' /\ givenUp \subseteq givenUp'
    <3>1. IsReport(b) => b \in RuntimeReports /\ Range(Append(server, b)) = Range(server) \cup {b}
      BY <1>2, StoreFacts DEF FlowTypes
    <3> QED
      BY <1>1, <3>1 DEF Reports
  <2>2. Taken \subseteq Taken'
    BY <1>4, <1>6, <1>7, <2>1 DEF Taken
  <2> QED
    BY <1>1, <2>2 DEF ReportsAccounted
<1> QED
  BY <1>10, <1>11, <1>12, <1>13, <1>14, <1>15

LEMMA LandFlow ==
  ASSUME AgentInv, NEW b \in adrift, Land(b)
  PROVE  FlowInv'
<1> USE DEF AgentInv, FlowInv
<1>1. b \in RuntimeReports /\ IsReport(b)
  BY BatchFacts DEF FlowTypes
<1>2. /\ UNCHANGED <<workers, reporter, reports, jobs, worker, adrift, givenUp>>
      /\ server' = Append(server, b)
  BY <1>1 DEF Land, Accepts, tickVars
<1>3. /\ server' \in Seq(RuntimeReports)
      /\ Range(server') = Range(server) \cup {b}
      /\ OnceOrAdrift(server, adrift) => OnceOrAdrift(server', adrift)
      /\ Forward(server, adrift) => Forward(server', adrift)
  BY <1>1, <1>2, StoreFacts DEF FlowTypes
<1>4. /\ Queued' = Queued /\ InHand' = InHand /\ Capacity' = Capacity /\ Ahead' = Ahead
      /\ Range(server') \cup adrift' = Range(server) \cup adrift
      /\ Taken \subseteq Taken'
  BY <1>2, <1>3 DEF Queued, InHand, Capacity, Ahead, Taken
<1>5. FlowTypes' /\ Newest' /\ QueueOrder'
  BY <1>2, <1>3, <1>4 DEF FlowTypes, Newest, QueueOrder
<1>6. HandsAreApart'
  BY <1>2, <1>4 DEF HandsAreApart
<1>7. ServerOrder'
  BY <1>2, <1>3 DEF ServerOrder
<1>8. ReportsAccounted'
  BY <1>2, <1>4 DEF ReportsAccounted
<1> QED
  BY <1>5, <1>6, <1>7, <1>8
-----------------------------------------------------------------------------
(***************************************************************************)
(* Everything together.                                                    *)
(***************************************************************************)
LEMMA AgentStep == AgentInv /\ [AgentNext]_agentVars => AgentInv'
<1> SUFFICES ASSUME AgentInv, [AgentNext]_agentVars PROVE AgentInv'
  OBVIOUS
<1>1. CASE UNCHANGED agentVars
  <2>1. AgentTypes'
    BY <1>1 DEF AgentInv, AgentTypes, Goroutines, agentVars, tickVars, netVars
  <2>2. FlowInv'
    BY <1>1, FlowFrame DEF AgentInv, agentVars, tickVars, netVars
  <2> QED
    BY <2>1, <2>2 DEF AgentInv
<1>2. CASE AgentNext
  <2>1. AgentTypes'
    BY <1>2, AgentTypesStep DEF AgentInv
  <2>2. FlowInv'
    <3>1. CASE PollLoad \/ PollStore \/ ReportReset \/ SystemCollect \/ Stop
               \/ \E g \in Goroutines : End(g)
      <4>1. /\ UNCHANGED <<workers, jobs, worker, server, adrift, givenUp, reports>>
            /\ reporter'.pc = "enqueue" <=> reporter.pc = "enqueue"
            /\ reporter.pc = "enqueue" => reporter'.batch = reporter.batch
        BY <3>1 DEF PollLoad, PollStore, ReportReset, SystemCollect, Stop, End, tickVars, netVars
      <4> QED
        BY <4>1, FlowFrame DEF AgentInv
    <3>2. CASE Quiet
      BY <3>2, FlowFrame DEF Quiet, AgentInv, agentVars, tickVars, netVars
    <3>3. CASE ReportRead
      BY <3>3, ReportReadFlow
    <3>4. CASE ReportEnqueue
      <4>1. reporter.batch \in Batches /\ IsReport(reporter.batch) /\ reporter'.pc = "reset"
        BY <3>4, BatchFacts DEF ReportEnqueue, AgentInv, AgentTypes
      <4> QED
        BY <3>4, <4>1, QueuedFlow DEF ReportEnqueue, tickVars, netVars
    <3>5. CASE SystemEnqueue
      BY <3>5, BatchFacts, QueuedFlow DEF SystemEnqueue, tickVars, netVars
    <3>6. ASSUME NEW w \in workers, Receive(w) \/ Sent(w) PROVE FlowInv'
      BY <3>6, ReceiveFlow, SentFlow
    <3>7. ASSUME NEW b \in adrift, Land(b) PROVE FlowInv'
      BY <3>7, LandFlow
    <3> QED
      BY <1>2, <3>1, <3>2, <3>3, <3>4, <3>5, <3>6, <3>7 DEF AgentNext
  <2> QED
    BY <2>1, <2>2 DEF AgentInv
<1> QED
  BY <1>1, <1>2

\* AgentInv is inductive, and so it is an invariant.
LEMMA AgentCorrect == AgentSpec => []AgentInv
<1>1. AgentInit => AgentInv
  BY AgentInitTypes, FlowInit DEF AgentInv
<1> QED
  BY <1>1, AgentStep, PTL DEF AgentSpec

\* The collectors put batches into a.jobs and the workers take them out, in any
\* interleaving (Agent.Start, worker in cmd/agent/main.go): the queue keeps its
\* bound and the order in which the reports were read, a report is never in two
\* hands, and the server has a report twice only if the agent had turned away
\* from one of its posts.
THEOREM QueueCorrect == AgentSpec => []QueueInv
<1>1. AgentInv => QueueInv
  <2> SUFFICES ASSUME AgentInv PROVE QueueInv
    OBVIOUS
  <2> USE DEF AgentInv, FlowInv
  <2>1. AgentTypeOK
    <3>1. Range(server) \subseteq RuntimeReports
      BY LenProperties, ElementOfSeq DEF FlowTypes, Range
    <3>2. RuntimeReports \subseteq Reports(Batches)
      BY BatchFacts DEF Reports
    <3>3. reporter.batch # Idle => reporter.batch \in Batches
      BY BatchFacts DEF AgentTypes
    <3> QED
      BY <3>1, <3>2, <3>3 DEF AgentTypeOK, AgentTypes, FlowTypes
  <2>2. QueueKeepsOrder
    BY DEF QueueKeepsOrder, QueueOrder, InOrder, ServerOrder, OnceOrAdrift, Ahead
  <2> QED
    BY <2>1, <2>2 DEF QueueInv
<1> QED
  BY <1>1, AgentCorrect, PTL

\* With RateLimit 1, the default, the gauges that the server handles only ever get
\* newer, but for a post that the agent had turned away from.
THEOREM GaugesCorrect == AgentSpec => []GaugesMoveForward
<1>1. AgentInv => GaugesMoveForward
  BY DEF AgentInv, FlowInv, ServerOrder, Forward, GaugesMoveForward
<1> QED
  BY <1>1, AgentCorrect, PTL

\* No report is lost on its way from the reporter to the server, also while the
\* agent shuts down (main.go:349, 375).
THEOREM ReportsCorrect == AgentSpec => []ReportsAccounted
<1>1. AgentInv => ReportsAccounted
  BY DEF AgentInv, FlowInv
<1> QED
  BY <1>1, AgentCorrect, PTL
==============================================================================
