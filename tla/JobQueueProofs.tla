--------------------------- MODULE JobQueueProofs ---------------------------
(***************************************************************************)
(* Proofs about JobQueue for any numbers of workers, windows, jobs, keys   *)
(* and any attempt limits: of the queue as it is, leases expiring under    *)
(* their workers; then of one whose leases outlast silence (TimelySpec).   *)
(***************************************************************************)
EXTENDS JobQueue, TLAPS

\* The steps of the queue by the sub-action that takes them.
LEMMA NextSplit ==
    ASSUME Next
    PROVE  \/ \E j \in JobId, r \in Request : Enqueue(j, r)
           \/ \E j \in JobId : CancelJob(j)
           \/ \E w \in Workers, j \in JobId : Claim(w, j)
           \/ \E w \in Workers : StartRun(w)
           \/ \E w \in Workers : AppendLog(w)
           \/ \E w \in Workers : Heartbeat(w)
           \/ \E w \in Workers, verdict \in {"produced", "hard_stop"} : FinishRun(w, verdict)
           \/ \E w \in Workers : FailRun(w)
           \/ \E w \in Workers : FinishJob(w)
           \/ \E w \in Workers : Crash(w)
           \/ \E j \in JobId : ExpireLease(j)
           \/ ReclaimExpired
  BY DEF Next, WorkerStep

\* Job ids are positive: 0 stands for no job.
LEMMA JobIdFacts == /\ 0 \notin JobId
                    /\ \A j \in JobId : j \in Nat
  BY ConstantsAssumption DEF JobId

\* Every request asks for at least one attempt.
LEMMA RequestFacts ==
    \A r \in Request : r.maxAttempts \in Nat /\ r.maxAttempts >= 1
<1> SUFFICES ASSUME NEW r \in Request
             PROVE  r.maxAttempts \in Nat /\ r.maxAttempts >= 1
  OBVIOUS
<1>1. r.maxAttempts \in AttemptLimits
  BY DEF Request
<1>2. r.maxAttempts \in Nat \ {0}
  BY <1>1, ConstantsAssumption
<1>3. QED
  BY <1>2

\* The empty tables satisfy the invariant.
LEMMA InitQueueInv == Init => QueueInv
<1> SUFFICES ASSUME Init PROVE QueueInv
  OBVIOUS
<1> USE JobIdFacts, ConstantsAssumption DEF Init
<1>1. TypeOK
  BY DEF TypeOK, JobStates, ActiveStates, TerminalStates, RunStates, Phases
<1>2. WellFormed
  BY DEF WellFormed, Executing
<1>3. OneActivePerWindow
  BY DEF OneActivePerWindow, Active, ActiveStates
<1>4. AttemptsWithinBudget
  BY DEF AttemptsWithinBudget
<1>5. AttemptsFence
  BY DEF AttemptsFence, Executing
<1>6. QED
  BY <1>1, <1>2, <1>3, <1>4, <1>5 DEF QueueInv

\* An enqueue preserves the invariant of the queue; then each other kind of step.
LEMMA EnqueueQueueInv ==
    ASSUME QueueInv, NEW j \in JobId, NEW r \in Request, Enqueue(j, r)
    PROVE  QueueInv'
<1> USE JobIdFacts, ConstantsAssumption DEF QueueInv, TypeOK, WellFormed
<1>0. /\ state[j] = "none"
      /\ state' = [state EXCEPT ![j] = "queued"]
      /\ request' = [request EXCEPT ![j] = r]
      /\ UNCHANGED <<attempts, leasedBy, expired, run, lines, phase, held, attempt>>
  BY DEF Enqueue, NextRow, runVars, workerVars
<1>1. TypeOK'
  BY <1>0 DEF JobStates, ActiveStates
<1>2. WellFormed'
  BY <1>0 DEF Executing
<1>3. OneActivePerWindow'
  BY <1>0 DEF OneActivePerWindow, Enqueue, WindowActive, Active, ActiveStates
<1>4. AttemptsWithinBudget'
  BY <1>0, RequestFacts DEF AttemptsWithinBudget
<1>5. AttemptsFence'
  BY <1>0 DEF AttemptsFence, Executing
<1>6. QED
  BY <1>1, <1>2, <1>3, <1>4, <1>5

\* A cancellation preserves the invariant of the queue.
LEMMA CancelJobQueueInv ==
    ASSUME QueueInv, NEW j \in JobId, CancelJob(j)
    PROVE  QueueInv'
<1> USE JobIdFacts, ConstantsAssumption DEF QueueInv, TypeOK, WellFormed
<1>0. /\ state[j] = "queued"
      /\ state' = [state EXCEPT ![j] = "cancelled"]
      /\ UNCHANGED <<request, attempts, leasedBy, expired, run, lines, phase, held, attempt>>
  BY DEF CancelJob, runVars, workerVars
<1>1. TypeOK'
  BY <1>0 DEF JobStates, ActiveStates, TerminalStates, RunStates, Phases
<1>2. WellFormed'
  BY <1>0 DEF Executing
<1>3. OneActivePerWindow'
  BY <1>0 DEF OneActivePerWindow, Active, ActiveStates
<1>4. AttemptsWithinBudget'
  BY <1>0, RequestFacts DEF AttemptsWithinBudget
<1>5. AttemptsFence'
  BY <1>0 DEF AttemptsFence, Executing
<1>6. QED
  BY <1>1, <1>2, <1>3, <1>4, <1>5

\* A claim preserves the invariant of the queue.
LEMMA ClaimQueueInv ==
    ASSUME QueueInv, NEW w \in Workers, NEW j \in JobId, Claim(w, j)
    PROVE  QueueInv'
<1> USE JobIdFacts, ConstantsAssumption DEF QueueInv, TypeOK, WellFormed
<1>0. /\ phase[w] = "idle"
      /\ state[j] = "queued"
      /\ state' = [state EXCEPT ![j] = "leased"]
      /\ attempts' = [attempts EXCEPT ![j] = @ + 1]
      /\ leasedBy' = [leasedBy EXCEPT ![j] = w]
      /\ expired' = expired \ {j}
      /\ phase' = [phase EXCEPT ![w] = "claimed"]
      /\ held' = [held EXCEPT ![w] = j]
      /\ attempt' = [attempt EXCEPT ![w] = attempts[j] + 1]
      /\ UNCHANGED <<request, run, lines>>
  BY DEF Claim, QueueHead, runVars
<1>1. TypeOK'
  BY <1>0 DEF JobStates, ActiveStates, TerminalStates, RunStates, Phases
<1>2. WellFormed'
  BY <1>0 DEF Executing
<1>3. OneActivePerWindow'
  BY <1>0 DEF OneActivePerWindow, Active, ActiveStates
<1>4. AttemptsWithinBudget'
  BY <1>0, RequestFacts DEF AttemptsWithinBudget
<1>5. AttemptsFence'
  BY <1>0 DEF AttemptsFence, Executing
<1>6. QED
  BY <1>1, <1>2, <1>3, <1>4, <1>5

\* start_run preserves the invariant of the queue.
LEMMA StartRunQueueInv ==
    ASSUME QueueInv, NEW w \in Workers, StartRun(w)
    PROVE  QueueInv'
<1> USE JobIdFacts, ConstantsAssumption DEF QueueInv, TypeOK, WellFormed
<1>0. /\ phase[w] = "claimed"
      /\ run' = [run EXCEPT ![held[w]] = "open"]
      /\ lines' = [lines EXCEPT ![held[w]] = {}]
      /\ phase' = [phase EXCEPT ![w] = "running"]
      /\ UNCHANGED <<state, request, attempts, leasedBy, expired, held, attempt>>
  BY DEF StartRun, jobVars
<1>1. TypeOK'
  BY <1>0 DEF JobStates, ActiveStates, TerminalStates, RunStates, Phases
<1>2. WellFormed'
  BY <1>0 DEF Executing
<1>3. OneActivePerWindow'
  BY <1>0 DEF OneActivePerWindow, Active, ActiveStates
<1>4. AttemptsWithinBudget'
  BY <1>0, RequestFacts DEF AttemptsWithinBudget
<1>5. AttemptsFence'
  BY <1>0 DEF AttemptsFence, Executing
<1>6. QED
  BY <1>1, <1>2, <1>3, <1>4, <1>5

\* append_log preserves the invariant of the queue.
LEMMA AppendLogQueueInv ==
    ASSUME QueueInv, NEW w \in Workers, AppendLog(w)
    PROVE  QueueInv'
<1> USE JobIdFacts, ConstantsAssumption DEF QueueInv, TypeOK, WellFormed
<1>0. /\ phase[w] = "running"
      /\ lines' = [lines EXCEPT ![held[w]] = @ \cup {attempt[w]}]
      /\ phase' = [phase EXCEPT ![w] = "flushed"]
      /\ UNCHANGED <<state, request, attempts, leasedBy, expired, held, attempt>>
      /\ UNCHANGED run
  BY DEF AppendLog, jobVars
<1>1. TypeOK'
  BY <1>0 DEF JobStates, ActiveStates, TerminalStates, RunStates, Phases
<1>2. WellFormed'
  BY <1>0 DEF Executing
<1>3. OneActivePerWindow'
  BY <1>0 DEF OneActivePerWindow, Active, ActiveStates
<1>4. AttemptsWithinBudget'
  BY <1>0, RequestFacts DEF AttemptsWithinBudget
<1>5. AttemptsFence'
  BY <1>0 DEF AttemptsFence, Executing
<1>6. QED
  BY <1>1, <1>2, <1>3, <1>4, <1>5

\* A heartbeat preserves the invariant of the queue.
LEMMA HeartbeatQueueInv ==
    ASSUME QueueInv, NEW w \in Workers, Heartbeat(w)
    PROVE  QueueInv'
<1> USE JobIdFacts, ConstantsAssumption DEF QueueInv, TypeOK, WellFormed
<1>0. /\ phase[w] = "flushed"
      /\ expired' \subseteq expired
      /\ phase' = [phase EXCEPT ![w] = "running"]
      /\ UNCHANGED <<state, request, attempts, leasedBy, run, lines, held, attempt>>
  BY DEF Heartbeat, runVars
<1>1. TypeOK'
  BY <1>0 DEF JobStates, ActiveStates, TerminalStates, RunStates, Phases
<1>2. WellFormed'
  BY <1>0 DEF Executing
<1>3. OneActivePerWindow'
  BY <1>0 DEF OneActivePerWindow, Active, ActiveStates
<1>4. AttemptsWithinBudget'
  BY <1>0, RequestFacts DEF AttemptsWithinBudget
<1>5. AttemptsFence'
  BY <1>0 DEF AttemptsFence, Executing
<1>6. QED
  BY <1>1, <1>2, <1>3, <1>4, <1>5

\* finish_run preserves the invariant of the queue.
LEMMA FinishRunQueueInv ==
    ASSUME QueueInv, NEW w \in Workers, NEW verdict \in {"produced", "hard_stop"}, FinishRun(w, verdict)
    PROVE  QueueInv'
<1> USE JobIdFacts, ConstantsAssumption DEF QueueInv, TypeOK, WellFormed
<1>0. /\ phase[w] = "running"
      /\ run' = [run EXCEPT ![held[w]] = verdict]
      /\ phase' = [phase EXCEPT ![w] = "concluded"]
      /\ UNCHANGED <<state, request, attempts, leasedBy, expired, held, attempt>>
      /\ UNCHANGED lines
  BY DEF FinishRun, jobVars
<1>1. TypeOK'
  BY <1>0 DEF JobStates, ActiveStates, TerminalStates, RunStates, Phases
<1>2. WellFormed'
  BY <1>0 DEF Executing
<1>3. OneActivePerWindow'
  BY <1>0 DEF OneActivePerWindow, Active, ActiveStates
<1>4. AttemptsWithinBudget'
  BY <1>0, RequestFacts DEF AttemptsWithinBudget
<1>5. AttemptsFence'
  BY <1>0 DEF AttemptsFence, Executing
<1>6. QED
  BY <1>1, <1>2, <1>3, <1>4, <1>5

\* The exception handler's finish_run preserves the invariant of the queue.
LEMMA FailRunQueueInv ==
    ASSUME QueueInv, NEW w \in Workers, FailRun(w)
    PROVE  QueueInv'
<1> USE JobIdFacts, ConstantsAssumption DEF QueueInv, TypeOK, WellFormed
<1>0. /\ phase[w] \in {"running", "concluded"}
      /\ run' = [run EXCEPT ![held[w]] = "hard_stop"]
      /\ phase' = [phase EXCEPT ![w] = "failing"]
      /\ UNCHANGED <<state, request, attempts, leasedBy, expired, held, attempt>>
      /\ UNCHANGED lines
  BY DEF FailRun, jobVars
<1>1. TypeOK'
  BY <1>0 DEF JobStates, ActiveStates, TerminalStates, RunStates, Phases
<1>2. WellFormed'
  BY <1>0 DEF Executing
<1>3. OneActivePerWindow'
  BY <1>0 DEF OneActivePerWindow, Active, ActiveStates
<1>4. AttemptsWithinBudget'
  BY <1>0, RequestFacts DEF AttemptsWithinBudget
<1>5. AttemptsFence'
  BY <1>0 DEF AttemptsFence, Executing
<1>6. QED
  BY <1>1, <1>2, <1>3, <1>4, <1>5

\* finish_job preserves the invariant of the queue.
LEMMA FinishJobQueueInv ==
    ASSUME QueueInv, NEW w \in Workers, FinishJob(w)
    PROVE  QueueInv'
<1> USE JobIdFacts, ConstantsAssumption DEF QueueInv, TypeOK, WellFormed
<1>0. /\ phase[w] \in {"concluded", "failing"}
      /\ \E s \in {"done", "error"} : state' = [state EXCEPT ![held[w]] = s]
      /\ leasedBy' = [leasedBy EXCEPT ![held[w]] = NoWorker]
      /\ expired' = expired \ {held[w]}
      /\ phase' = [phase EXCEPT ![w] = "idle"]
      /\ held' = [held EXCEPT ![w] = 0]
      /\ attempt' = [attempt EXCEPT ![w] = 0]
      /\ UNCHANGED <<request, attempts, run, lines>>
  BY DEF FinishJob, BackToLoop, runVars
<1>1. TypeOK'
  BY <1>0 DEF JobStates, ActiveStates, TerminalStates, RunStates, Phases
<1>2. WellFormed'
  BY <1>0 DEF Executing
<1>3. OneActivePerWindow'
  BY <1>0 DEF OneActivePerWindow, Active, ActiveStates
<1>4. AttemptsWithinBudget'
  BY <1>0, RequestFacts DEF AttemptsWithinBudget, Executing
<1>5. AttemptsFence'
  BY <1>0 DEF AttemptsFence, Executing
<1>6. QED
  BY <1>1, <1>2, <1>3, <1>4, <1>5

\* A crash preserves the invariant of the queue.
LEMMA CrashQueueInv ==
    ASSUME QueueInv, NEW w \in Workers, Crash(w)
    PROVE  QueueInv'
<1> USE JobIdFacts, ConstantsAssumption DEF QueueInv, TypeOK, WellFormed
<1>0. /\ phase[w] # "idle"
      /\ phase' = [phase EXCEPT ![w] = "idle"]
      /\ held' = [held EXCEPT ![w] = 0]
      /\ attempt' = [attempt EXCEPT ![w] = 0]
      /\ UNCHANGED <<state, request, attempts, leasedBy, expired, run, lines>>
  BY DEF Crash, BackToLoop, jobVars, runVars
<1>1. TypeOK'
  BY <1>0 DEF JobStates, ActiveStates, TerminalStates, RunStates, Phases
<1>2. WellFormed'
  BY <1>0 DEF Executing
<1>3. OneActivePerWindow'
  BY <1>0 DEF OneActivePerWindow, Active, ActiveStates
<1>4. AttemptsWithinBudget'
  BY <1>0, RequestFacts DEF AttemptsWithinBudget
<1>5. AttemptsFence'
  BY <1>0 DEF AttemptsFence, Executing
<1>6. QED
  BY <1>1, <1>2, <1>3, <1>4, <1>5

\* The passing of a lease preserves the invariant of the queue.
LEMMA ExpireLeaseQueueInv ==
    ASSUME QueueInv, NEW j \in JobId, ExpireLease(j)
    PROVE  QueueInv'
<1> USE JobIdFacts, ConstantsAssumption DEF QueueInv, TypeOK, WellFormed
<1>0. /\ state[j] = "leased"
      /\ expired' = expired \cup {j}
      /\ UNCHANGED <<state, request, attempts, leasedBy, run, lines, phase, held, attempt>>
  BY DEF ExpireLease, runVars, workerVars
<1>1. TypeOK'
  BY <1>0
<1>2. WellFormed'
  BY <1>0 DEF Executing
<1>3. OneActivePerWindow'
  BY <1>0 DEF OneActivePerWindow, Active, ActiveStates
<1>4. AttemptsWithinBudget'
  BY <1>0, RequestFacts DEF AttemptsWithinBudget
<1>5. AttemptsFence'
  BY <1>0 DEF AttemptsFence, Executing
<1>6. QED
  BY <1>1, <1>2, <1>3, <1>4, <1>5

\* The sweep preserves the invariant of the queue.
LEMMA ReclaimExpiredQueueInv ==
    ASSUME QueueInv, ReclaimExpired
    PROVE  QueueInv'
<1> USE JobIdFacts, ConstantsAssumption DEF QueueInv, TypeOK, WellFormed
<1>0. /\ state' = [j \in JobId |-> IF j \in Lost THEN AfterLoss(j) ELSE state[j]]
      /\ leasedBy' = [j \in JobId |-> IF j \in Lost THEN NoWorker ELSE leasedBy[j]]
      /\ run' = [j \in JobId |-> IF j \in Lost /\ run[j] = "open"
                                   THEN "hard_stop" ELSE run[j]]
      /\ expired' = expired \ Lost
      /\ UNCHANGED <<request, attempts, lines, phase, held, attempt>>
      /\ \A j \in Lost : state[j] = "leased"
  BY DEF ReclaimExpired, Lost, workerVars
<1>1. TypeOK'
  BY <1>0 DEF JobStates, ActiveStates, TerminalStates, RunStates, Phases, AfterLoss
<1>2. WellFormed'
  BY <1>0 DEF Executing, AfterLoss
<1>3. OneActivePerWindow'
  BY <1>0 DEF OneActivePerWindow, Active, ActiveStates, AfterLoss
<1>4. AttemptsWithinBudget'
  <2>1. SUFFICES ASSUME NEW j \in JobId
        PROVE  /\ state'[j] # "none" => attempts[j] <= request[j].maxAttempts
               /\ state'[j] = "queued" => attempts[j] < request[j].maxAttempts
    BY <1>0 DEF AttemptsWithinBudget
  <2>2. CASE j \in Lost
    BY <1>0, <2>2 DEF AttemptsWithinBudget, AfterLoss
  <2>3. CASE j \notin Lost
    BY <1>0, <2>3 DEF AttemptsWithinBudget
  <2>4. QED
    BY <2>2, <2>3
<1>5. AttemptsFence'
  BY <1>0 DEF AttemptsFence, Executing
<1>6. QED
  BY <1>1, <1>2, <1>3, <1>4, <1>5

\* Every step of the queue, slow workers included, preserves the invariant.
LEMMA NextQueueInv == QueueInv /\ [Next]_vars => QueueInv'
<1> SUFFICES ASSUME QueueInv, [Next]_vars PROVE QueueInv'
  OBVIOUS
<1>1. CASE Next
  BY <1>1, NextSplit, EnqueueQueueInv, CancelJobQueueInv, ClaimQueueInv,
     StartRunQueueInv, AppendLogQueueInv, HeartbeatQueueInv, FinishRunQueueInv,
     FailRunQueueInv, FinishJobQueueInv, CrashQueueInv, ExpireLeaseQueueInv,
     ReclaimExpiredQueueInv
<1>2. CASE UNCHANGED vars
  BY <1>2 DEF QueueInv, TypeOK, WellFormed, OneActivePerWindow, AttemptsWithinBudget,
     AttemptsFence, Executing, Active, vars, jobVars, runVars, workerVars
<1>3. QED
  BY <1>1, <1>2

-----------------------------------------------------------------------------
\* The queue's variables keep their types in every behaviour.
THEOREM TypeCorrect == Spec => []TypeOK
<1>1. QueueInv => TypeOK
  BY DEF QueueInv
<1>2. QED
  BY <1>1, InitQueueInv, NextQueueInv, PTL DEF Spec

\* At most one live job per window, held exactly while it is leased, whatever
\* the sweep and late finishers do (jobs_one_active_per_window, D33).
THEOREM OneActive == Spec => []OneActivePerWindow
<1>1. QueueInv => OneActivePerWindow
  BY DEF QueueInv
<1>2. QED
  BY <1>1, InitQueueInv, NextQueueInv, PTL DEF Spec

\* No job is leased more often than its request allows (D30).
THEOREM Budget == Spec => []AttemptsWithinBudget
<1>1. QueueInv => AttemptsWithinBudget
  BY DEF QueueInv
<1>2. QED
  BY <1>1, InitQueueInv, NextQueueInv, PTL DEF Spec

\* Two executors of one job are told apart by the attempt they claimed, and none of them
\* claimed one above the row's count, however leases lapse.
THEOREM Fence == Spec => []AttemptsFence
<1>1. QueueInv => AttemptsFence
  BY DEF QueueInv
<1>2. QED
  BY <1>1, InitQueueInv, NextQueueInv, PTL DEF Spec

\* A job with the default max_attempts of 1 never has two executors, even when
\* a lease passes under a worker that is still running it.
THEOREM SingleAttempt == Spec => []SingleAttemptRunsOnce
<1>1. QueueInv => SingleAttemptRunsOnce
  <2>1. SUFFICES ASSUME QueueInv,
                        NEW v \in Workers, NEW w \in Workers, NEW j \in JobId,
                        Executing(v, j), Executing(w, j), request[j].maxAttempts = 1,
                        v # w
                 PROVE  FALSE
    BY DEF SingleAttemptRunsOnce
  <2>2. attempts[j] <= 1
    BY <2>1 DEF QueueInv, WellFormed, AttemptsWithinBudget
  <2>3. attempt[v] = 1 /\ attempt[w] = 1
    BY <2>1, <2>2 DEF QueueInv, TypeOK, WellFormed, AttemptsFence
  <2>4. QED
    BY <2>1, <2>3 DEF QueueInv, AttemptsFence
<1>2. QED
  BY <1>1, InitQueueInv, NextQueueInv, PTL DEF Spec

-----------------------------------------------------------------------------
(***************************************************************************)
(* When leases outlast silence (TimelySpec): one worker per window, no run *)
(* left in flight, settled jobs final, and the refinement of WindowRuns.   *)
(***************************************************************************)

\* The empty tables satisfy the invariant of timely leases.
LEMMA InitTimelyInv == Init => TimelyInv
<1> SUFFICES ASSUME Init PROVE TimelyInv
  OBVIOUS
<1>1. QueueInv
  BY InitQueueInv
<1>2. /\ HoldsLease
      /\ ConcludedFirst
      /\ InFlightIsLeased
      /\ OneAttemptPerLog
      /\ DoneMeansConcluded
  BY JobIdFacts DEF Init, HoldsLease, ConcludedFirst, InFlightIsLeased,
     OneAttemptPerLog, DoneMeansConcluded, Executing
<1>3. QED
  BY <1>1, <1>2 DEF TimelyInv

\* An enqueue preserves the invariant of timely leases.
LEMMA EnqueueTimelyInv ==
    ASSUME TimelyInv, NEW j \in JobId, NEW r \in Request, Enqueue(j, r)
    PROVE  TimelyInv'
<1> USE JobIdFacts DEF TimelyInv, QueueInv, TypeOK, WellFormed, Executing
<1>0. /\ state[j] = "none"
      /\ state' = [state EXCEPT ![j] = "queued"]
      /\ UNCHANGED <<attempts, leasedBy, expired, run, lines, phase, held, attempt>>
  BY DEF Enqueue, NextRow, runVars, workerVars
<1>1. QueueInv'
  BY EnqueueQueueInv DEF TimelyInv
<1>2. HoldsLease'
  BY <1>0 DEF HoldsLease
<1>3. ConcludedFirst'
  BY <1>0 DEF ConcludedFirst
<1>4. InFlightIsLeased'
  BY <1>0 DEF InFlightIsLeased
<1>5. OneAttemptPerLog'
  BY <1>0 DEF OneAttemptPerLog
<1>6. DoneMeansConcluded'
  BY <1>0 DEF DoneMeansConcluded
<1>7. QED
  BY <1>1, <1>2, <1>3, <1>4, <1>5, <1>6

\* A cancellation preserves the invariant of timely leases.
LEMMA CancelJobTimelyInv ==
    ASSUME TimelyInv, NEW j \in JobId, CancelJob(j)
    PROVE  TimelyInv'
<1> USE JobIdFacts DEF TimelyInv, QueueInv, TypeOK, WellFormed, Executing
<1>0. /\ state[j] = "queued"
      /\ state' = [state EXCEPT ![j] = "cancelled"]
      /\ UNCHANGED <<request, attempts, leasedBy, expired, run, lines, phase, held, attempt>>
  BY DEF CancelJob, runVars, workerVars
<1>1. QueueInv'
  BY CancelJobQueueInv DEF TimelyInv
<1>2. HoldsLease'
  BY <1>0 DEF HoldsLease
<1>3. ConcludedFirst'
  BY <1>0 DEF ConcludedFirst
<1>4. InFlightIsLeased'
  BY <1>0 DEF InFlightIsLeased
<1>5. OneAttemptPerLog'
  BY <1>0 DEF OneAttemptPerLog
<1>6. DoneMeansConcluded'
  BY <1>0 DEF DoneMeansConcluded
<1>7. QED
  BY <1>1, <1>2, <1>3, <1>4, <1>5, <1>6

\* A claim preserves the invariant of timely leases.
LEMMA ClaimTimelyInv ==
    ASSUME TimelyInv, NEW w \in Workers, NEW j \in JobId, Claim(w, j)
    PROVE  TimelyInv'
<1> USE JobIdFacts DEF TimelyInv, QueueInv, TypeOK, WellFormed, Executing
<1>0. /\ phase[w] = "idle"
      /\ state[j] = "queued"
      /\ state' = [state EXCEPT ![j] = "leased"]
      /\ attempts' = [attempts EXCEPT ![j] = @ + 1]
      /\ leasedBy' = [leasedBy EXCEPT ![j] = w]
      /\ expired' = expired \ {j}
      /\ phase' = [phase EXCEPT ![w] = "claimed"]
      /\ held' = [held EXCEPT ![w] = j]
      /\ attempt' = [attempt EXCEPT ![w] = attempts[j] + 1]
      /\ UNCHANGED <<request, run, lines>>
  BY DEF Claim, QueueHead, runVars
<1>1. QueueInv'
  BY ClaimQueueInv DEF TimelyInv
<1>2. HoldsLease'
  BY <1>0 DEF HoldsLease
<1>3. ConcludedFirst'
  BY <1>0 DEF ConcludedFirst
<1>4. InFlightIsLeased'
  BY <1>0 DEF InFlightIsLeased
<1>5. OneAttemptPerLog'
  BY <1>0 DEF OneAttemptPerLog
<1>6. DoneMeansConcluded'
  BY <1>0 DEF DoneMeansConcluded
<1>7. QED
  BY <1>1, <1>2, <1>3, <1>4, <1>5, <1>6

\* start_run preserves the invariant of timely leases.
LEMMA StartRunTimelyInv ==
    ASSUME TimelyInv, NEW w \in Workers, StartRun(w)
    PROVE  TimelyInv'
<1> USE JobIdFacts DEF TimelyInv, QueueInv, TypeOK, WellFormed, Executing
<1>0. /\ phase[w] = "claimed"
      /\ run' = [run EXCEPT ![held[w]] = "open"]
      /\ lines' = [lines EXCEPT ![held[w]] = {}]
      /\ phase' = [phase EXCEPT ![w] = "running"]
      /\ UNCHANGED <<state, request, attempts, leasedBy, expired, held, attempt>>
  BY DEF StartRun, jobVars
<1>1. QueueInv'
  BY StartRunQueueInv DEF TimelyInv
<1>2. HoldsLease'
  BY <1>0 DEF HoldsLease
<1>3. ConcludedFirst'
  BY <1>0 DEF ConcludedFirst, HoldsLease
<1>4. InFlightIsLeased'
  BY <1>0 DEF InFlightIsLeased, HoldsLease
<1>5. OneAttemptPerLog'
  BY <1>0 DEF OneAttemptPerLog, HoldsLease
<1>6. DoneMeansConcluded'
  BY <1>0 DEF DoneMeansConcluded, HoldsLease
<1>7. QED
  BY <1>1, <1>2, <1>3, <1>4, <1>5, <1>6

\* append_log preserves the invariant of timely leases.
LEMMA AppendLogTimelyInv ==
    ASSUME TimelyInv, NEW w \in Workers, AppendLog(w)
    PROVE  TimelyInv'
<1> USE JobIdFacts DEF TimelyInv, QueueInv, TypeOK, WellFormed, Executing
<1>0. /\ phase[w] = "running"
      /\ lines' = [lines EXCEPT ![held[w]] = @ \cup {attempt[w]}]
      /\ phase' = [phase EXCEPT ![w] = "flushed"]
      /\ UNCHANGED <<state, request, attempts, leasedBy, expired, held, attempt>>
      /\ UNCHANGED run
  BY DEF AppendLog, jobVars
<1>1. QueueInv'
  BY AppendLogQueueInv DEF TimelyInv
<1>2. HoldsLease'
  BY <1>0 DEF HoldsLease
<1>3. ConcludedFirst'
  BY <1>0 DEF ConcludedFirst, HoldsLease
<1>4. InFlightIsLeased'
  BY <1>0 DEF InFlightIsLeased, HoldsLease
<1>5. OneAttemptPerLog'
  BY <1>0 DEF OneAttemptPerLog, HoldsLease
<1>6. DoneMeansConcluded'
  BY <1>0 DEF DoneMeansConcluded, HoldsLease
<1>7. QED
  BY <1>1, <1>2, <1>3, <1>4, <1>5, <1>6

\* A heartbeat preserves the invariant of timely leases.
LEMMA HeartbeatTimelyInv ==
    ASSUME TimelyInv, NEW w \in Workers, Heartbeat(w)
    PROVE  TimelyInv'
<1> USE JobIdFacts DEF TimelyInv, QueueInv, TypeOK, WellFormed, Executing
<1>0. /\ phase[w] = "flushed"
      /\ expired' \subseteq expired
      /\ phase' = [phase EXCEPT ![w] = "running"]
      /\ UNCHANGED <<state, request, attempts, leasedBy, run, lines, held, attempt>>
  BY DEF Heartbeat, runVars
<1>1. QueueInv'
  BY HeartbeatQueueInv DEF TimelyInv
<1>2. HoldsLease'
  BY <1>0 DEF HoldsLease
<1>3. ConcludedFirst'
  BY <1>0 DEF ConcludedFirst
<1>4. InFlightIsLeased'
  BY <1>0 DEF InFlightIsLeased
<1>5. OneAttemptPerLog'
  BY <1>0 DEF OneAttemptPerLog
<1>6. DoneMeansConcluded'
  BY <1>0 DEF DoneMeansConcluded
<1>7. QED
  BY <1>1, <1>2, <1>3, <1>4, <1>5, <1>6

\* finish_run preserves the invariant of timely leases.
LEMMA FinishRunTimelyInv ==
    ASSUME TimelyInv, NEW w \in Workers, NEW verdict \in {"produced", "hard_stop"}, FinishRun(w, verdict)
    PROVE  TimelyInv'
<1> USE JobIdFacts DEF TimelyInv, QueueInv, TypeOK, WellFormed, Executing
<1>0. /\ phase[w] = "running"
      /\ run' = [run EXCEPT ![held[w]] = verdict]
      /\ phase' = [phase EXCEPT ![w] = "concluded"]
      /\ UNCHANGED <<state, request, attempts, leasedBy, expired, held, attempt>>
      /\ UNCHANGED lines
  BY DEF FinishRun, jobVars
<1>1. QueueInv'
  BY FinishRunQueueInv DEF TimelyInv
<1>2. HoldsLease'
  BY <1>0 DEF HoldsLease
<1>3. ConcludedFirst'
  BY <1>0 DEF ConcludedFirst, HoldsLease
<1>4. InFlightIsLeased'
  BY <1>0 DEF InFlightIsLeased, HoldsLease
<1>5. OneAttemptPerLog'
  BY <1>0 DEF OneAttemptPerLog, HoldsLease
<1>6. DoneMeansConcluded'
  BY <1>0 DEF DoneMeansConcluded, HoldsLease
<1>7. QED
  BY <1>1, <1>2, <1>3, <1>4, <1>5, <1>6

\* The exception handler's finish_run preserves the invariant of timely leases.
LEMMA FailRunTimelyInv ==
    ASSUME TimelyInv, NEW w \in Workers, FailRun(w)
    PROVE  TimelyInv'
<1> USE JobIdFacts DEF TimelyInv, QueueInv, TypeOK, WellFormed, Executing
<1>0. /\ phase[w] \in {"running", "concluded"}
      /\ run' = [run EXCEPT ![held[w]] = "hard_stop"]
      /\ phase' = [phase EXCEPT ![w] = "failing"]
      /\ UNCHANGED <<state, request, attempts, leasedBy, expired, held, attempt>>
      /\ UNCHANGED lines
  BY DEF FailRun, jobVars
<1>1. QueueInv'
  BY FailRunQueueInv DEF TimelyInv
<1>2. HoldsLease'
  BY <1>0 DEF HoldsLease
<1>3. ConcludedFirst'
  BY <1>0 DEF ConcludedFirst, HoldsLease
<1>4. InFlightIsLeased'
  BY <1>0 DEF InFlightIsLeased, HoldsLease
<1>5. OneAttemptPerLog'
  BY <1>0 DEF OneAttemptPerLog, HoldsLease
<1>6. DoneMeansConcluded'
  BY <1>0 DEF DoneMeansConcluded, HoldsLease
<1>7. QED
  BY <1>1, <1>2, <1>3, <1>4, <1>5, <1>6

\* finish_job preserves the invariant of timely leases.
LEMMA FinishJobTimelyInv ==
    ASSUME TimelyInv, NEW w \in Workers, FinishJob(w)
    PROVE  TimelyInv'
<1> USE JobIdFacts DEF TimelyInv, QueueInv, TypeOK, WellFormed, Executing
<1>0. /\ phase[w] \in {"concluded", "failing"}
      /\ \E s \in {"done", "error"} : state' = [state EXCEPT ![held[w]] = s]
      /\ leasedBy' = [leasedBy EXCEPT ![held[w]] = NoWorker]
      /\ expired' = expired \ {held[w]}
      /\ phase' = [phase EXCEPT ![w] = "idle"]
      /\ held' = [held EXCEPT ![w] = 0]
      /\ attempt' = [attempt EXCEPT ![w] = 0]
      /\ UNCHANGED <<request, attempts, run, lines>>
  BY DEF FinishJob, BackToLoop, runVars
<1>1. QueueInv'
  BY FinishJobQueueInv DEF TimelyInv
<1>2. HoldsLease'
  BY <1>0 DEF HoldsLease
<1>3. ConcludedFirst'
  BY <1>0 DEF ConcludedFirst, HoldsLease
<1>4. InFlightIsLeased'
  BY <1>0 DEF InFlightIsLeased, ConcludedFirst
<1>5. OneAttemptPerLog'
  BY <1>0 DEF OneAttemptPerLog, HoldsLease
<1>6. DoneMeansConcluded'
  BY <1>0 DEF DoneMeansConcluded, ConcludedFirst
<1>7. QED
  BY <1>1, <1>2, <1>3, <1>4, <1>5, <1>6

\* A crash preserves the invariant of timely leases.
LEMMA CrashTimelyInv ==
    ASSUME TimelyInv, NEW w \in Workers, Crash(w)
    PROVE  TimelyInv'
<1> USE JobIdFacts DEF TimelyInv, QueueInv, TypeOK, WellFormed, Executing
<1>0. /\ phase[w] # "idle"
      /\ phase' = [phase EXCEPT ![w] = "idle"]
      /\ held' = [held EXCEPT ![w] = 0]
      /\ attempt' = [attempt EXCEPT ![w] = 0]
      /\ UNCHANGED <<state, request, attempts, leasedBy, expired, run, lines>>
  BY DEF Crash, BackToLoop, jobVars, runVars
<1>1. QueueInv'
  BY CrashQueueInv DEF TimelyInv
<1>2. HoldsLease'
  BY <1>0 DEF HoldsLease
<1>3. ConcludedFirst'
  BY <1>0 DEF ConcludedFirst
<1>4. InFlightIsLeased'
  BY <1>0 DEF InFlightIsLeased
<1>5. OneAttemptPerLog'
  BY <1>0 DEF OneAttemptPerLog
<1>6. DoneMeansConcluded'
  BY <1>0 DEF DoneMeansConcluded
<1>7. QED
  BY <1>1, <1>2, <1>3, <1>4, <1>5, <1>6

\* The passing of a lease preserves the invariant of timely leases.
LEMMA ExpireLeaseTimelyInv ==
    ASSUME TimelyInv, NEW j \in JobId, LeaseOutlastsSilence(j), ExpireLease(j)
    PROVE  TimelyInv'
<1> USE JobIdFacts DEF TimelyInv, QueueInv, TypeOK, WellFormed, Executing
<1>0. /\ \A w \in Workers : ~(phase[w] # "idle" /\ held[w] = j)
      /\ expired' = expired \cup {j}
      /\ UNCHANGED <<state, request, attempts, leasedBy, run, lines, phase, held, attempt>>
  BY DEF ExpireLease, LeaseOutlastsSilence, runVars, workerVars
<1>1. QueueInv'
  BY ExpireLeaseQueueInv DEF TimelyInv
<1>2. HoldsLease'
  BY <1>0 DEF HoldsLease
<1>3. ConcludedFirst'
  BY <1>0 DEF ConcludedFirst
<1>4. InFlightIsLeased'
  BY <1>0 DEF InFlightIsLeased
<1>5. OneAttemptPerLog'
  BY <1>0 DEF OneAttemptPerLog
<1>6. DoneMeansConcluded'
  BY <1>0 DEF DoneMeansConcluded
<1>7. QED
  BY <1>1, <1>2, <1>3, <1>4, <1>5, <1>6

\* The sweep preserves the invariant of timely leases.
LEMMA ReclaimExpiredTimelyInv ==
    ASSUME TimelyInv, ReclaimExpired
    PROVE  TimelyInv'
<1> USE JobIdFacts DEF TimelyInv, QueueInv, TypeOK, WellFormed, Executing
<1>0. /\ state' = [j \in JobId |-> IF j \in Lost THEN AfterLoss(j) ELSE state[j]]
      /\ leasedBy' = [j \in JobId |-> IF j \in Lost THEN NoWorker ELSE leasedBy[j]]
      /\ run' = [j \in JobId |-> IF j \in Lost /\ run[j] = "open"
                                   THEN "hard_stop" ELSE run[j]]
      /\ expired' = expired \ Lost
      /\ UNCHANGED <<request, attempts, lines, phase, held, attempt>>
      /\ \A j \in Lost : j \in expired /\ state[j] = "leased"
      /\ \A j \in JobId : AfterLoss(j) \in {"queued", "error"}
  BY DEF ReclaimExpired, Lost, AfterLoss, workerVars
<1>1. QueueInv'
  BY ReclaimExpiredQueueInv DEF TimelyInv
<1>2. HoldsLease'
  BY <1>0 DEF HoldsLease
<1>3. ConcludedFirst'
  BY <1>0 DEF ConcludedFirst, RunStates, HoldsLease
<1>4. InFlightIsLeased'
  BY <1>0 DEF InFlightIsLeased
<1>5. OneAttemptPerLog'
  BY <1>0 DEF OneAttemptPerLog, HoldsLease
<1>6. DoneMeansConcluded'
  BY <1>0 DEF DoneMeansConcluded
<1>7. QED
  BY <1>1, <1>2, <1>3, <1>4, <1>5, <1>6

\* The steps of the queue when leases outlast silence.
LEMMA TimelySplit ==
    ASSUME TimelyNext
    PROVE  \/ \E j \in JobId, r \in Request : Enqueue(j, r)
           \/ \E j \in JobId : CancelJob(j)
           \/ \E w \in Workers, j \in JobId : Claim(w, j)
           \/ \E w \in Workers : StartRun(w)
           \/ \E w \in Workers : AppendLog(w)
           \/ \E w \in Workers : Heartbeat(w)
           \/ \E w \in Workers, verdict \in {"produced", "hard_stop"} : FinishRun(w, verdict)
           \/ \E w \in Workers : FailRun(w)
           \/ \E w \in Workers : FinishJob(w)
           \/ \E w \in Workers : Crash(w)
           \/ \E j \in JobId : LeaseOutlastsSilence(j) /\ ExpireLease(j)
           \/ ReclaimExpired
  BY DEF TimelyNext, WorkerStep

\* Every step preserves the invariant while leases outlast silence.
LEMMA NextTimelyInv == TimelyInv /\ [TimelyNext]_vars => TimelyInv'
<1> SUFFICES ASSUME TimelyInv, [TimelyNext]_vars PROVE TimelyInv'
  OBVIOUS
<1>1. CASE TimelyNext
  BY <1>1, TimelySplit, EnqueueTimelyInv, CancelJobTimelyInv, ClaimTimelyInv,
     StartRunTimelyInv, AppendLogTimelyInv, HeartbeatTimelyInv, FinishRunTimelyInv,
     FailRunTimelyInv, FinishJobTimelyInv, CrashTimelyInv, ExpireLeaseTimelyInv,
     ReclaimExpiredTimelyInv
<1>2. CASE UNCHANGED vars
  <2>1. QueueInv'
    BY <1>2, NextQueueInv DEF TimelyInv
  <2>2. QED
    BY <1>2, <2>1 DEF TimelyInv, HoldsLease, ConcludedFirst, InFlightIsLeased,
       OneAttemptPerLog, DoneMeansConcluded, Executing,
       vars, jobVars, runVars, workerVars
<1>3. QED
  BY <1>1, <1>2

-----------------------------------------------------------------------------
\* Two workers on one window would hold two live jobs, or one lease twice.
LEMMA ExclusiveByLease == TimelyInv => NoConcurrentRuns
<1> SUFFICES ASSUME TimelyInv,
                    NEW v \in Workers, NEW w \in Workers,
                    NEW i \in JobId, NEW j \in JobId,
                    Executing(v, i), Executing(w, j),
                    request[i].window = request[j].window
             PROVE  v = w
  BY DEF NoConcurrentRuns
<1>1. /\ state[i] = "leased" /\ leasedBy[i] = v
      /\ state[j] = "leased" /\ leasedBy[j] = w
  BY DEF TimelyInv, HoldsLease
<1>2. i = j
  BY <1>1 DEF TimelyInv, QueueInv, OneActivePerWindow, Active, ActiveStates
<1>3. QED
  BY <1>1, <1>2

\* "Two concurrent runs of one window is the double-invoicing shape": with
\* leases that outlast silence they never happen, through any crashes, sweeps
\* and retries.
THEOREM Exclusive == TimelySpec => []NoConcurrentRuns
  BY InitTimelyInv, NextTimelyInv, ExclusiveByLease, PTL DEF TimelySpec

\* A run in flight belongs to a leased job, so the sweep can still close it.
THEOREM InFlight == TimelySpec => []InFlightIsLeased
<1>1. TimelyInv => InFlightIsLeased
  BY DEF TimelyInv
<1>2. QED
  BY <1>1, InitTimelyInv, NextTimelyInv, PTL DEF TimelySpec

\* No run log mixes the lines of two attempts.
THEOREM UnmixedLog == TimelySpec => []OneAttemptPerLog
<1>1. TimelyInv => OneAttemptPerLog
  BY DEF TimelyInv
<1>2. QED
  BY <1>1, InitTimelyInv, NextTimelyInv, PTL DEF TimelySpec

\* As long as leases outlast silence, a job that is done has a concluded run.
THEOREM DoneConcluded == TimelySpec => []DoneMeansConcluded
<1>1. TimelyInv => DoneMeansConcluded
  BY DEF TimelyInv
<1>2. QED
  BY <1>1, InitTimelyInv, NextTimelyInv, PTL DEF TimelySpec

-----------------------------------------------------------------------------
\* A settled job and its run are never written again.
LEMMA SettledStep ==
    ASSUME TimelyInv, [TimelyNext]_vars, NEW j \in JobId, Terminal(j)
    PROVE  state'[j] = state[j] /\ run'[j] = run[j]
<1> USE JobIdFacts DEF TimelyInv, QueueInv, TypeOK, WellFormed, Terminal, TerminalStates
<1>0. \A w \in Workers : phase[w] # "idle" => held[w] \in JobId /\ held[w] # j
  BY DEF HoldsLease, Executing
<1>1. CASE \E i \in JobId, r \in Request : Enqueue(i, r)
  BY <1>1 DEF Enqueue, NextRow, runVars
<1>2. CASE \E i \in JobId : CancelJob(i)
  BY <1>2 DEF CancelJob, runVars
<1>3. CASE \E w \in Workers, i \in JobId : Claim(w, i)
  BY <1>3 DEF Claim, QueueHead, runVars
<1>4. CASE \E w \in Workers : StartRun(w) \/ FailRun(w)
  BY <1>0, <1>4 DEF StartRun, FailRun, jobVars
<1>5. CASE \E w \in Workers : AppendLog(w) \/ Heartbeat(w) \/ Crash(w)
  BY <1>5 DEF AppendLog, Heartbeat, Crash, jobVars, runVars
<1>6. CASE \E w \in Workers, verdict \in {"produced", "hard_stop"} : FinishRun(w, verdict)
  BY <1>0, <1>6 DEF FinishRun, jobVars
<1>7. CASE \E w \in Workers : FinishJob(w)
  BY <1>0, <1>7 DEF FinishJob, runVars
<1>8. CASE \E i \in JobId : ExpireLease(i)
  BY <1>8 DEF ExpireLease, runVars
<1>9. CASE ReclaimExpired
  BY <1>9 DEF ReclaimExpired, Lost
<1>10. CASE UNCHANGED vars
  BY <1>10 DEF vars, jobVars, runVars
<1>11. QED
  BY <1>1, <1>2, <1>3, <1>4, <1>5, <1>6, <1>7, <1>8, <1>9, <1>10, TimelySplit

\* As long as leases outlast silence, a settled job stays settled, and its run keeps its
\* verdict.
THEOREM SettledFinal == TimelySpec => SettledIsFinal
<1>1. TimelyInv /\ [TimelyNext]_vars =>
        [\A j \in JobId : Terminal(j) => state'[j] = state[j] /\ run'[j] = run[j]]_vars
  BY SettledStep
<1>2. QED
  BY <1>1, InitTimelyInv, NextTimelyInv, PTL DEF TimelySpec, SettledIsFinal

-----------------------------------------------------------------------------
(* The refinement of WindowRuns.                                           *)

OutstandingMap == [win \in Windows |-> OutstandingOf(win)]
RunningMap == [win \in Windows |-> RunningOn(win)]

\* A live job is the whole of what is outstanding for its window, and whoever
\* executes it is the whole of who is running there.
LEMMA LiveJob ==
    ASSUME TimelyInv, NEW j \in JobId, Active(j)
    PROVE  /\ request[j].window \in Windows
           /\ OutstandingOf(request[j].window) = {j}
           /\ \A w \in Workers : w \in RunningOn(request[j].window) <=> Executing(w, j)
<1>1. request[j] \in Request
  BY DEF TimelyInv, QueueInv, WellFormed, Active, ActiveStates
<1>2. request[j].window \in Windows
  BY <1>1 DEF Request
<1>3. \A i \in JobId : Active(i) /\ request[i].window = request[j].window => i = j
  BY DEF TimelyInv, QueueInv, OneActivePerWindow
<1>4. OutstandingOf(request[j].window) = {j}
  BY <1>3 DEF OutstandingOf
<1>5. \A w \in Workers, i \in JobId : Executing(w, i) => Active(i)
  BY DEF TimelyInv, HoldsLease, Active, ActiveStates
<1>6. QED
  BY <1>2, <1>3, <1>4, <1>5 DEF RunningOn

\* An enqueue is the acceptance of a request for its window.
LEMMA EnqueueAccepts ==
    ASSUME TimelyInv, NEW j \in JobId, NEW r \in Request, Enqueue(j, r)
    PROVE  Promise!Accept(r.window, j) /\ r.window \in Windows
<1> USE JobIdFacts DEF TimelyInv, QueueInv, TypeOK, WellFormed
<1>0. /\ state[j] = "none"
      /\ ~WindowActive(r.window)
      /\ state' = [state EXCEPT ![j] = "queued"]
      /\ request' = [request EXCEPT ![j] = r]
      /\ UNCHANGED <<phase, held>>
  BY DEF Enqueue, NextRow, workerVars
<1>1. r.window \in Windows
  BY DEF Request
<1>2. OutstandingOf(r.window) = {}
  BY <1>0 DEF WindowActive, OutstandingOf
<1>3. \A win \in Windows :
        OutstandingOf(win)' = IF win = r.window THEN {j} ELSE OutstandingOf(win)
  <2> SUFFICES ASSUME NEW win \in Windows
               PROVE  OutstandingOf(win)' = IF win = r.window THEN {j} ELSE OutstandingOf(win)
    OBVIOUS
  <2>1. Active(j)' /\ request'[j] = r /\ ~Active(j)
    BY <1>0 DEF Active, ActiveStates
  <2>2. \A i \in JobId \ {j} : Active(i)' = Active(i) /\ request'[i] = request[i]
    BY <1>0 DEF Active
  <2>3. QED
    BY <2>1, <2>2, <1>2 DEF OutstandingOf
<1>4. \A win \in Windows : RunningOn(win)' = RunningOn(win)
  BY <1>0 DEF RunningOn, Executing
<1>5. QED
  BY <1>1, <1>2, <1>3, <1>4 DEF Promise!Accept

\* A cancellation gives up the request of its window.
LEMMA CancelGivesUp ==
    ASSUME TimelyInv, NEW j \in JobId, CancelJob(j)
    PROVE  Promise!GiveUp({request[j].window}) /\ request[j].window \in Windows
<1>0. /\ state[j] = "queued"
      /\ state' = [state EXCEPT ![j] = "cancelled"]
      /\ UNCHANGED <<request, phase, held>>
  BY DEF CancelJob, workerVars
<1>1. Active(j)
  BY <1>0 DEF Active, ActiveStates
<1>2. RunningOn(request[j].window) = {}
  BY <1>0, <1>1, LiveJob DEF TimelyInv, HoldsLease, RunningOn
<1>3. \A i \in JobId : Active(i)' <=> (Active(i) /\ i # j)
  BY <1>0 DEF Active, ActiveStates, TimelyInv, QueueInv, TypeOK
<1>4. \A win \in Windows : OutstandingOf(win)' =
        IF win \in {request[j].window} THEN {} ELSE OutstandingOf(win)
  BY <1>0, <1>1, <1>3, LiveJob DEF OutstandingOf
<1>5. \A win \in Windows : RunningOn(win)' = RunningOn(win)
  BY <1>0 DEF RunningOn, Executing
<1>6. QED
  BY <1>1, <1>2, <1>4, <1>5, LiveJob DEF Promise!GiveUp

\* A claim begins the outstanding request of its window.
LEMMA ClaimBegins ==
    ASSUME TimelyInv, NEW w \in Workers, NEW j \in JobId, Claim(w, j)
    PROVE  Promise!Begin(request[j].window, w) /\ request[j].window \in Windows
<1> USE JobIdFacts DEF TimelyInv, QueueInv, TypeOK, WellFormed
<1>0. /\ phase[w] = "idle"
      /\ state[j] = "queued"
      /\ state' = [state EXCEPT ![j] = "leased"]
      /\ phase' = [phase EXCEPT ![w] = "claimed"]
      /\ held' = [held EXCEPT ![w] = j]
      /\ UNCHANGED request
  BY DEF Claim, QueueHead
<1>1. Active(j)
  BY <1>0 DEF Active, ActiveStates
<1>2. RunningOn(request[j].window) = {}
  BY <1>0, <1>1, LiveJob DEF HoldsLease, RunningOn
<1>3. \A win \in Windows : OutstandingOf(win)' = OutstandingOf(win)
  BY <1>0 DEF OutstandingOf, Active, ActiveStates
<1>4. \A v \in Workers, i \in JobId :
        Executing(v, i)' <=> (Executing(v, i) \/ (v = w /\ i = j))
  BY <1>0 DEF Executing
<1>5. \A win \in Windows :
        RunningOn(win)' = IF win = request[j].window THEN {w} ELSE RunningOn(win)
  BY <1>0, <1>2, <1>4 DEF RunningOn
<1>6. QED
  BY <1>1, <1>2, <1>3, <1>5, LiveJob DEF Promise!Begin

\* finish_job settles the request and frees the window.
LEMMA FinishSettles ==
    ASSUME TimelyInv, NEW w \in Workers, FinishJob(w)
    PROVE  \E win \in Windows : Promise!Settle(win, w)
<1> USE JobIdFacts DEF TimelyInv, QueueInv, TypeOK, WellFormed
<1> DEFINE j == held[w]
<1>0. /\ phase[w] # "idle"
      /\ \E s \in {"done", "error"} : state' = [state EXCEPT ![j] = s]
      /\ phase' = [phase EXCEPT ![w] = "idle"]
      /\ held' = [held EXCEPT ![w] = 0]
      /\ UNCHANGED request
  BY DEF FinishJob, BackToLoop
<1>1. j \in JobId /\ Executing(w, j)
  BY <1>0 DEF Executing
<1> HIDE DEF j
<1>2. Active(j)
  BY <1>1 DEF HoldsLease, Active, ActiveStates
<1>3. RunningOn(request[j].window) = {w}
  BY <1>1, <1>2, LiveJob DEF HoldsLease, RunningOn
<1>4. \A i \in JobId : Active(i)' <=> (Active(i) /\ i # j)
  BY <1>0, <1>1 DEF Active, ActiveStates
<1>5. \A v \in Workers, i \in JobId : Executing(v, i)' <=> (Executing(v, i) /\ v # w)
  BY <1>0 DEF Executing
<1>6. \A win \in Windows :
        OutstandingOf(win)' = IF win = request[j].window THEN {} ELSE OutstandingOf(win)
  BY <1>0, <1>1, <1>2, <1>4, LiveJob DEF OutstandingOf
<1>7. \A v \in Workers, i \in JobId : v = w /\ Executing(v, i) => i = j
  BY <1>1 DEF Executing
<1>8. \A win \in Windows :
        RunningOn(win)' = IF win = request[j].window THEN {} ELSE RunningOn(win)
  BY <1>0, <1>3, <1>5, <1>7 DEF RunningOn
<1> DEFINE win == request[j].window
<1>9. win \in Windows
  BY <1>1, <1>2, LiveJob
<1> HIDE DEF win
<1>10. Promise!Settle(win, w)
  BY <1>3, <1>6, <1>8, <1>9 DEF Promise!Settle, win
<1>11. QED
  BY <1>9, <1>10

\* A crash leaves the request outstanding and nobody running.
LEMMA CrashAbandons ==
    ASSUME TimelyInv, NEW w \in Workers, Crash(w)
    PROVE  \E win \in Windows : Promise!Abandon(win, w)
<1> USE JobIdFacts DEF TimelyInv, QueueInv, TypeOK, WellFormed
<1> DEFINE j == held[w]
<1>0. /\ phase[w] # "idle"
      /\ phase' = [phase EXCEPT ![w] = "idle"]
      /\ held' = [held EXCEPT ![w] = 0]
      /\ UNCHANGED <<state, request>>
  BY DEF Crash, BackToLoop, jobVars
<1>1. j \in JobId /\ Executing(w, j)
  BY <1>0 DEF Executing
<1> HIDE DEF j
<1>2. Active(j)
  BY <1>1 DEF HoldsLease, Active, ActiveStates
<1>3. RunningOn(request[j].window) = {w}
  BY <1>1, <1>2, LiveJob DEF HoldsLease, RunningOn
<1>4. \A v \in Workers, i \in JobId : Executing(v, i)' <=> (Executing(v, i) /\ v # w)
  BY <1>0 DEF Executing
<1>5. \A v \in Workers, i \in JobId : v = w /\ Executing(v, i) => i = j
  BY <1>1 DEF Executing
<1>6. \A win \in Windows :
        RunningOn(win)' = IF win = request[j].window THEN {} ELSE RunningOn(win)
  BY <1>0, <1>3, <1>4, <1>5 DEF RunningOn
<1>7. \A win \in Windows : OutstandingOf(win)' = OutstandingOf(win)
  BY <1>0 DEF OutstandingOf, Active
<1>8. QED
  BY <1>1, <1>2, <1>3, <1>6, <1>7, LiveJob DEF Promise!Abandon

\* The sweep gives up the requests with no attempt left, and only those.
LEMMA SweepGivesUp ==
    ASSUME TimelyInv, ReclaimExpired
    PROVE  \E wins \in SUBSET Windows : Promise!GiveUp(wins)
<1> DEFINE dead == {j \in Lost : AfterLoss(j) = "error"}
           wins == {request[j].window : j \in dead}
<1>0. /\ state' = [j \in JobId |-> IF j \in Lost THEN AfterLoss(j) ELSE state[j]]
      /\ UNCHANGED <<request, phase, held>>
  BY DEF ReclaimExpired, workerVars
<1>1. \A j \in Lost : j \in JobId /\ j \in expired /\ state[j] = "leased"
                     /\ AfterLoss(j) \in {"queued", "error"}
  BY DEF Lost, AfterLoss, TimelyInv, QueueInv, TypeOK
<1>2. \A j \in dead : j \in JobId /\ Active(j) /\ RunningOn(request[j].window) = {}
  BY <1>1, LiveJob DEF Active, ActiveStates, TimelyInv, HoldsLease, RunningOn
<1>3. \A i \in JobId : Active(i)' <=> (Active(i) /\ i \notin dead)
  BY <1>0, <1>1 DEF Active, ActiveStates
<1> HIDE DEF dead
<1>4. wins \in SUBSET Windows
  BY <1>2, LiveJob
<1>5. \A win \in Windows :
        OutstandingOf(win)' = IF win \in wins THEN {} ELSE OutstandingOf(win)
  <2> SUFFICES ASSUME NEW win \in Windows
               PROVE  OutstandingOf(win)' = IF win \in wins THEN {} ELSE OutstandingOf(win)
    OBVIOUS
  <2>1. CASE win \in wins
    <3>1. PICK j \in dead : win = request[j].window
      BY <2>1
    <3>2. OutstandingOf(win) = {j}
      BY <3>1, <1>2, LiveJob
    <3>3. QED
      BY <2>1, <3>1, <3>2, <1>0, <1>3 DEF OutstandingOf
  <2>2. CASE win \notin wins
    BY <2>2, <1>0, <1>3 DEF OutstandingOf
  <2>3. QED
    BY <2>1, <2>2
<1>6. \A win \in Windows : RunningOn(win)' = RunningOn(win)
  BY <1>0 DEF RunningOn, Executing
<1>7. \A win \in wins : RunningOn(win) = {}
  BY <1>2
<1> HIDE DEF wins
<1>8. QED
  BY <1>4, <1>5, <1>6, <1>7 DEF Promise!GiveUp

\* start_run changes nothing the promise sees.
LEMMA StartRunKeeps ==
    ASSUME TimelyInv, NEW w \in Workers, StartRun(w)
    PROVE  UNCHANGED <<OutstandingMap, RunningMap>>
  BY JobIdFacts DEF OutstandingMap, RunningMap, OutstandingOf, RunningOn, Executing, Active,
     TimelyInv, QueueInv, TypeOK, WellFormed, StartRun, jobVars

\* append_log changes nothing the promise sees.
LEMMA AppendLogKeeps ==
    ASSUME TimelyInv, NEW w \in Workers, AppendLog(w)
    PROVE  UNCHANGED <<OutstandingMap, RunningMap>>
  BY JobIdFacts DEF OutstandingMap, RunningMap, OutstandingOf, RunningOn, Executing, Active,
     TimelyInv, QueueInv, TypeOK, WellFormed, AppendLog, jobVars

\* A heartbeat changes nothing the promise sees.
LEMMA HeartbeatKeeps ==
    ASSUME TimelyInv, NEW w \in Workers, Heartbeat(w)
    PROVE  UNCHANGED <<OutstandingMap, RunningMap>>
  BY JobIdFacts DEF OutstandingMap, RunningMap, OutstandingOf, RunningOn, Executing, Active,
     TimelyInv, QueueInv, TypeOK, WellFormed, Heartbeat

\* finish_run changes nothing the promise sees.
LEMMA FinishRunKeeps ==
    ASSUME TimelyInv, NEW w \in Workers, NEW verdict \in {"produced", "hard_stop"}, FinishRun(w, verdict)
    PROVE  UNCHANGED <<OutstandingMap, RunningMap>>
  BY JobIdFacts DEF OutstandingMap, RunningMap, OutstandingOf, RunningOn, Executing, Active,
     TimelyInv, QueueInv, TypeOK, WellFormed, FinishRun, jobVars

\* The exception handler's finish_run changes nothing the promise sees.
LEMMA FailRunKeeps ==
    ASSUME TimelyInv, NEW w \in Workers, FailRun(w)
    PROVE  UNCHANGED <<OutstandingMap, RunningMap>>
  BY JobIdFacts DEF OutstandingMap, RunningMap, OutstandingOf, RunningOn, Executing, Active,
     TimelyInv, QueueInv, TypeOK, WellFormed, FailRun, jobVars

\* The passing of a lease changes nothing the promise sees.
LEMMA ExpireLeaseKeeps ==
    ASSUME TimelyInv, NEW j \in JobId, ExpireLease(j)
    PROVE  UNCHANGED <<OutstandingMap, RunningMap>>
  BY JobIdFacts DEF OutstandingMap, RunningMap, OutstandingOf, RunningOn, Executing, Active,
     TimelyInv, QueueInv, TypeOK, WellFormed, ExpireLease, workerVars

\* A stuttering step changes nothing the promise sees.
LEMMA StutterKeeps ==
    ASSUME UNCHANGED vars
    PROVE  UNCHANGED <<OutstandingMap, RunningMap>>
  BY DEF OutstandingMap, RunningMap, OutstandingOf, RunningOn, Executing, Active,
     vars, jobVars, workerVars

\* Empty tables are a queue nothing was asked of.
LEMMA PromiseInit == Init => Promise!Init
  BY DEF Init, Promise!Init, OutstandingOf, RunningOn, Active, ActiveStates, Executing

\* Every step is a step of the promise or changes nothing it sees.
LEMMA PromiseStep == TimelyInv /\ [TimelyNext]_vars => [Promise!Next]_(Promise!vars)
<1> SUFFICES ASSUME TimelyInv, [TimelyNext]_vars
             PROVE  [Promise!Next]_(Promise!vars)
  OBVIOUS
<1>1. CASE \E j \in JobId, r \in Request : Enqueue(j, r)
  BY <1>1, EnqueueAccepts DEF Promise!Next
<1>2. CASE \E j \in JobId : CancelJob(j)
  <2>1. PICK j \in JobId : CancelJob(j)
    BY <1>2
  <2>2. {request[j].window} \in SUBSET Windows /\ Promise!GiveUp({request[j].window})
    BY <2>1, CancelGivesUp
  <2>3. QED
    BY <2>2 DEF Promise!Next
<1>3. CASE \E w \in Workers, j \in JobId : Claim(w, j)
  BY <1>3, ClaimBegins DEF Promise!Next
<1>4. CASE \E w \in Workers : FinishJob(w)
  BY <1>4, FinishSettles DEF Promise!Next
<1>5. CASE \E w \in Workers : Crash(w)
  BY <1>5, CrashAbandons DEF Promise!Next
<1>6. CASE ReclaimExpired
  BY <1>6, SweepGivesUp DEF Promise!Next
<1>7. CASE UNCHANGED <<OutstandingMap, RunningMap>>
  BY <1>7 DEF Promise!vars, OutstandingMap, RunningMap
<1>8. QED
  BY <1>1, <1>2, <1>3, <1>4, <1>5, <1>6, <1>7, TimelySplit, StartRunKeeps,
     AppendLogKeeps, HeartbeatKeeps, FinishRunKeeps, FailRunKeeps, ExpireLeaseKeeps,
     StutterKeeps

\* The queue, with its leases, sweep, crashes and retries, implements "at most
\* one outstanding request and at most one worker per window" (WindowRuns).
THEOREM ImplementsPromise == TimelySpec => KeepsPromise
  BY InitTimelyInv, NextTimelyInv, PromiseInit, PromiseStep, PTL
     DEF TimelySpec, KeepsPromise, Promise!Spec

=============================================================================
