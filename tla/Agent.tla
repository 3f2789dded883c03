-------------------------------- MODULE Agent --------------------------------
(***************************************************************************)
(* The goroutines of the agent (Agent.Start in cmd/agent/main.go): the     *)
(* poller counts polls, the reporter takes the count and queues a batch,   *)
(* the system collector queues batches of its own, and RateLimit workers   *)
(* send what is queued.                                                    *)
(*                                                                         *)
(* pollCount is shared by poller and reporter without synchronization.     *)
(* "pollCount++" is a load and a store; the reporter reads pollCount,      *)
(* blocks in the channel send for as long as the queue is full, and then   *)
(* sets pollCount to 0.  The runtime gauges of a batch are one number, the *)
(* moment they were read.                                                  *)
(*                                                                         *)
(* What MetricsSender (see there) makes of a batch is one step: the server *)
(* accepts it or it is given up, and if the answer to one of its posts was *)
(* not waited for the server may come to that post later.  What the server *)
(* makes of a batch is UpdateMetrics: here only that it came to it, and    *)
(* when; which metrics of it a database drops (Pipeline) and how many of a *)
(* batch that is given up were posted one by one (MetricsSender) is left   *)
(* to the modules of those parts.                                          *)
(***************************************************************************)
EXTENDS Integers, FiniteSetsExt, SequencesExt

CONSTANTS Teams,       \* the sets of sending goroutines to start with
          MaxPolls,    \* bound: how often the poll ticker ticks
          MaxReports,  \* bound: how often the report ticker ticks
          MaxSystem,   \* bound: how often the system ticker ticks
          MaxStored    \* bound: up to how many reports at the server posts land late

ASSUME AgentAssumption ==
  /\ \A team \in Teams : IsFiniteSet(team) /\ team # {}
  /\ {MaxPolls, MaxReports, MaxSystem, MaxStored} \subseteq Nat

VARIABLES
  workers,    \* the sending goroutines: RateLimit of them
  pollCount,  \* MetricsCollector.pollCount
  poller,     \* [pc, loaded]: the poller's "++" under way
  reporter,   \* [pc, batch]: the reporter's batch under way
  system,     \* the system collector: "idle" or "enqueue"
  jobs,       \* the channel a.jobs
  worker,     \* the batch each worker is sending, or Idle
  stopped,    \* ctx is done
  ended,      \* the goroutines that have returned
  polls,      \* how often the poll ticker has ticked
  reports,    \* how often the report ticker has ticked
  systems,    \* how often the system ticker has ticked
  server,     \* the reports the server has accepted, in the order it handled them
  adrift,     \* the reports of which a post nobody waits for is under way, or was
  givenUp     \* history: the reports the sender returned an error for

tickVars  == <<polls, reports, systems>>
netVars   == <<server, adrift, givenUp>>
agentVars == <<workers, pollCount, poller, reporter, system, jobs, worker, stopped, ended,
               tickVars, netVars>>

Capacity == 2 * Cardinality(workers)   \* make(chan []Metrics, rateLimit*2)

Goroutines == {"poller", "reporter", "system"} \cup workers

Idle        == [kind |-> "none"]
SystemBatch == [kind |-> "system"]
IsReport(b) == b.kind = "runtime"
Reports(batches) == {b \in batches : IsReport(b)}
Report(taken, delta) == [kind |-> "runtime", taken |-> taken, delta |-> delta]

AgentInit ==
  /\ workers \in Teams
  /\ pollCount = 0
  /\ poller = [pc |-> "idle", loaded |-> 0]
  /\ reporter = [pc |-> "idle", batch |-> Idle]
  /\ system = "idle"
  /\ jobs = <<>>
  /\ worker = [w \in workers |-> Idle]
  /\ stopped = FALSE
  /\ ended = {}
  /\ polls = 0
  /\ reports = 0
  /\ systems = 0
  /\ server = <<>>
  /\ adrift = {}
  /\ givenUp = {}

Room == Len(jobs) < Capacity

(***************************************************************************)
(* (1) The poller.                                                         *)
(***************************************************************************)
PollLoad ==
  /\ "poller" \notin ended
  /\ poller.pc = "idle"
  /\ polls < MaxPolls
  /\ polls' = polls + 1
  /\ poller' = [pc |-> "store", loaded |-> pollCount]
  /\ UNCHANGED <<workers, pollCount, reporter, system, jobs, worker, stopped, ended,
                 reports, systems, netVars>>

PollStore ==
  /\ poller.pc = "store"
  /\ pollCount' = poller.loaded + 1
  /\ poller' = [pc |-> "idle", loaded |-> 0]
  /\ UNCHANGED <<workers, reporter, system, jobs, worker, stopped, ended, tickVars, netVars>>

(***************************************************************************)
(* (2) The reporter.                                                       *)
(***************************************************************************)
ReportRead ==
  /\ "reporter" \notin ended
  /\ reporter.pc = "idle"
  /\ reports < MaxReports
  /\ reports' = reports + 1
  /\ reporter' = [pc |-> "enqueue", batch |-> Report(reports', pollCount)]
  /\ UNCHANGED <<workers, pollCount, poller, system, jobs, worker, stopped, ended, polls,
                 systems, netVars>>

\* Faulty variant: a full queue does not block, the report is dropped.
ReportEnqueueOrDrop ==
  /\ reporter.pc = "enqueue"
  /\ jobs' = IF Room THEN Append(jobs, reporter.batch) ELSE jobs
  /\ reporter' = [reporter EXCEPT !.pc = "reset"]
  /\ UNCHANGED <<workers, pollCount, poller, system, worker, stopped, ended, tickVars, netVars>>

ReportEnqueue ==
  /\ reporter.pc = "enqueue"
  /\ Room
  /\ jobs' = Append(jobs, reporter.batch)
  /\ reporter' = [reporter EXCEPT !.pc = "reset"]
  /\ UNCHANGED <<workers, pollCount, poller, system, worker, stopped, ended, tickVars, netVars>>

ReportReset ==
  /\ reporter.pc = "reset"
  /\ pollCount' = 0
  /\ reporter' = [pc |-> "idle", batch |-> Idle]
  /\ UNCHANGED <<workers, poller, system, jobs, worker, stopped, ended, tickVars, netVars>>

(***************************************************************************)
(* (3) The system collector.                                               *)
(***************************************************************************)
\* (If nothing could be measured there is no batch, and nothing changes.)
SystemCollect ==
  /\ "system" \notin ended
  /\ system = "idle"
  /\ systems < MaxSystem
  /\ systems' = systems + 1
  /\ system' = "enqueue"
  /\ UNCHANGED <<workers, pollCount, poller, reporter, jobs, worker, stopped, ended, polls,
                 reports, netVars>>

SystemEnqueue ==
  /\ system = "enqueue"
  /\ Room
  /\ jobs' = Append(jobs, SystemBatch)
  /\ system' = "idle"
  /\ UNCHANGED <<workers, pollCount, poller, reporter, worker, stopped, ended, tickVars, netVars>>

(***************************************************************************)
(* (4) The workers.                                                        *)
(***************************************************************************)
\* UpdateMetrics handles the batch and answers 200.
Accepts(b) == server' = IF IsReport(b) THEN Append(server, b) ELSE server

\* Faulty variant: a batch stays in the queue for the other workers.
ReceiveKeeps(w) ==
  /\ w \notin ended
  /\ worker[w] = Idle
  /\ jobs # <<>>
  /\ worker' = [worker EXCEPT ![w] = Head(jobs)]
  /\ UNCHANGED <<workers, pollCount, poller, reporter, system, jobs, stopped, ended, tickVars,
                 netVars>>

\* With ctx done the sender gives the batch up without a post.
Receive(w) ==
  /\ w \notin ended
  /\ worker[w] = Idle
  /\ jobs # <<>>
  /\ jobs' = Tail(jobs)
  /\ IF stopped
     THEN givenUp' = givenUp \cup Reports({Head(jobs)}) /\ UNCHANGED worker
     ELSE worker' = [worker EXCEPT ![w] = Head(jobs)] /\ UNCHANGED givenUp
  /\ UNCHANGED <<workers, pollCount, poller, reporter, system, stopped, ended, tickVars,
                 server, adrift>>

\* Faulty variant: a batch that was given up is queued again.
SentOrRequeued(w) ==
  /\ worker[w] # Idle
  /\ worker' = [worker EXCEPT ![w] = Idle]
  /\ \/ Accepts(worker[w]) /\ UNCHANGED jobs
     \/ jobs' = Append(jobs, worker[w]) /\ UNCHANGED server
  /\ UNCHANGED <<workers, pollCount, poller, reporter, system, stopped, ended, tickVars,
                 adrift, givenUp>>

\* Faulty variant: a worker ends with the first failed send.
SentOrQuits(w) ==
  /\ worker[w] # Idle
  /\ worker' = [worker EXCEPT ![w] = Idle]
  /\ \/ Accepts(worker[w]) /\ UNCHANGED <<ended, givenUp>>
     \/ /\ ended' = ended \cup {w}
        /\ givenUp' = givenUp \cup Reports({worker[w]})
        /\ UNCHANGED server
  /\ UNCHANGED <<workers, pollCount, poller, reporter, system, jobs, stopped, tickVars,
                 adrift>>

\* The server accepts the batch, or it is given up; its error is dropped.  In
\* both cases it may have turned its back on a post the server has yet to see.
Sent(w) ==
  /\ worker[w] # Idle
  /\ worker' = [worker EXCEPT ![w] = Idle]
  /\ \/ Accepts(worker[w]) /\ UNCHANGED givenUp
     \/ givenUp' = givenUp \cup Reports({worker[w]}) /\ UNCHANGED server
  /\ \/ UNCHANGED adrift
     \/ adrift' = adrift \cup Reports({worker[w]})
  /\ UNCHANGED <<workers, pollCount, poller, reporter, system, jobs, stopped, ended, tickVars>>

\* The server comes to such a post.
Land(b) ==
  /\ Len(server) < MaxStored
  /\ Accepts(b)
  /\ UNCHANGED <<workers, pollCount, poller, reporter, system, jobs, worker, stopped, ended,
                 tickVars, adrift, givenUp>>

(***************************************************************************)
(* Shutdown.  A goroutine sees ctx.Done only between two rounds of its     *)
(* loop, and select may still prefer a tick or a job; a blocked channel    *)
(* send sees nothing.                                                      *)
(***************************************************************************)
Stop ==
  /\ ~stopped
  /\ stopped' = TRUE
  /\ UNCHANGED <<workers, pollCount, poller, reporter, system, jobs, worker, ended, tickVars, netVars>>

BetweenRounds(g) ==
  \/ g = "poller" /\ poller.pc = "idle"
  \/ g = "reporter" /\ reporter.pc = "idle"
  \/ g = "system" /\ system = "idle"
  \/ g \in workers /\ worker[g] = Idle

End(g) ==
  /\ stopped
  /\ g \notin ended
  /\ BetweenRounds(g)
  /\ ended' = ended \cup {g}
  /\ UNCHANGED <<workers, pollCount, poller, reporter, system, jobs, worker, stopped, tickVars, netVars>>

\* Start has returned, and the process is gone, or the instance has no ticks
\* left.
Quiet ==
  /\ \/ stopped
     \/ polls = MaxPolls /\ reports = MaxReports /\ systems = MaxSystem
  /\ UNCHANGED agentVars

AgentNext ==
  \/ PollLoad
  \/ PollStore
  \/ ReportRead
  \/ ReportEnqueue
  \/ ReportReset
  \/ SystemCollect
  \/ SystemEnqueue
  \/ \E w \in workers : Receive(w) \/ Sent(w)
  \/ \E b \in adrift : Land(b)
  \/ Stop
  \/ \E g \in Goroutines : End(g)
  \/ Quiet

AgentSpec == AgentInit /\ [][AgentNext]_agentVars

Fairness ==
  /\ WF_agentVars(PollStore)
  /\ SF_agentVars(ReportEnqueue)
  /\ WF_agentVars(ReportReset)
  /\ SF_agentVars(SystemEnqueue)
  /\ \A w \in UNION Teams : WF_agentVars(w \in workers /\ (Receive(w) \/ Sent(w)))

FairAgentSpec == AgentSpec /\ Fairness
-----------------------------------------------------------------------------
Batches == {SystemBatch} \cup [kind : {"runtime"}, taken : 1 .. MaxReports, delta : Nat]

AgentTypeOK ==
  /\ pollCount \in Nat
  /\ poller \in [pc : {"idle", "store"}, loaded : Nat]
  /\ reporter.pc \in {"idle", "enqueue", "reset"}
  /\ reporter.pc = "idle" <=> reporter.batch = Idle
  /\ reporter.batch # Idle => reporter.batch \in Batches
  /\ system \in {"idle", "enqueue"}
  /\ jobs \in Seq(Batches)
  /\ worker \in [workers -> Batches \cup {Idle}]
  /\ ended \subseteq Goroutines
  /\ ended # {} => stopped
  /\ Range(server) \cup adrift \cup givenUp \subseteq Reports(Batches)

\* The reports that left the reporter, wherever they are now.
Queued == Reports(Range(jobs))
InHand == Reports(Range(worker))
Taken  == Queued \cup InHand \cup Range(server) \cup givenUp

\* No report is duplicated by the queue and the workers, only by posts that were
\* left to themselves; the queue never holds more than its capacity, and it
\* keeps the order in which the reports were taken: whatever is in a worker's
\* hands, at the server or under way is older than everything that still waits.
QueueKeepsOrder ==
  /\ Len(jobs) <= Capacity
  /\ \A i, j \in DOMAIN jobs :
       i < j /\ IsReport(jobs[i]) /\ IsReport(jobs[j]) => jobs[i].taken < jobs[j].taken
  /\ \A b \in Queued, c \in InHand \cup Range(server) \cup adrift : c.taken < b.taken
  /\ \A i, j \in DOMAIN server : i # j /\ server[i] = server[j] => server[i] \in adrift

\* The goroutines' states fit together, and the queue keeps its order.
QueueInv == AgentTypeOK /\ QueueKeepsOrder

\* With one worker an older gauge replaces a newer one at the server only if
\* the agent had left one of the older one's posts to itself: the server handles
\* everything else in the order it was read.  (With more workers nothing keeps
\* the order; see README.)
GaugesMoveForward ==
  Cardinality(workers) = 1 =>
    \A i, j \in DOMAIN server :
      i < j => server[i].taken < server[j].taken \/ server[j] \in adrift

\* Every report that was taken is somewhere, also while the agent shuts down
\* (main.go:349, 375): it waits for the queue or in it, a worker has it, the
\* server has accepted it, or the sender has returned an error for it.
ReportsAccounted ==
  \A n \in 1 .. reports :
    \/ reporter.pc = "enqueue" /\ reporter.batch.taken = n
    \/ \E b \in Taken : b.taken = n

\* A report that waits in the queue is taken out of it by a worker, unless the
\* agent shuts down: then whatever waits is dropped with the process.
ReportsAreTried ==
  \A n \in 1 .. MaxReports :
    (\E b \in Queued : b.taken = n) ~> stopped \/ \A b \in Queued : b.taken # n

\* A full queue stops the collectors only for a while: workers outlive every
\* failed send, so whoever is blocked in the channel send gets through, unless
\* the agent shuts down.
CollectorsGoOn ==
  /\ reporter.pc = "enqueue" ~> reporter.pc # "enqueue" \/ stopped
  /\ system = "enqueue" ~> system = "idle" \/ stopped

\* Neither the collectors nor the queue stand still while the agent runs.
AgentGoesOn == CollectorsGoOn /\ ReportsAreTried

\* Neither poller nor reporter is in the middle of something.
AtRest == poller.pc = "idle" /\ reporter.pc = "idle"

\* main.go:350-351 resets the counter "only AFTER the batch is queued": every
\* poll is in pollCount or in a queued report, and only once.
PollsCountedOnce ==
  AtRest => MapThenSumSet(LAMBDA b : b.delta, Taken) + pollCount = polls
==============================================================================
