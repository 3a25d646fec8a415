------------------------------ MODULE JobQueue ------------------------------
(***************************************************************************)
(* The settlement job queue: the jobs and runs tables of                   *)
(* service/repository.py, and the workers of service/worker.py that claim, *)
(* execute and finish them.                                                *)
(*                                                                         *)
(* One action is one database transaction (or one purely local step of a   *)
(* worker), because that is the granularity at which two workers, the      *)
(* reclaim sweep and the HTTP API interleave.  A worker may lose its       *)
(* process at any point (Crash) and may be so slow that its lease passes   *)
(* while it is still executing (ExpireLease); what it then goes on to      *)
(* write is written by the same actions as before, since nothing in        *)
(* finish_job, finish_run, start_run or append_log asks who holds the job. *)
(*                                                                         *)
(* A definition marked "Variant" is a plausible mistake in the one after   *)
(* it, kept to show that a property notices; nothing in Spec uses it.      *)
(***************************************************************************)
EXTENDS Integers, FiniteSets

CONSTANTS
    Workers,        \* worker processes, by their worker_id
    Windows,        \* (platform, period) pairs
    Keys,           \* idempotency keys a client may send
    NoKey,          \* a POST without a key (SQL null: equal to no other)
    NoWorker,       \* leased_by is null
    Priorities,     \* the priorities requests are made with
    AttemptLimits,  \* the max_attempts requests are made with
    MaxJobs         \* bound on the number of jobs ever inserted

ASSUME ConstantsAssumption ==
    /\ NoWorker \notin Workers
    /\ NoKey \notin Keys
    /\ Priorities \subseteq Int
    /\ AttemptLimits \subseteq Nat \ {0}
    /\ MaxJobs \in Nat

JobId == 1..MaxJobs

\* The values of jobs.state; "none" is a row that has not been inserted.
ActiveStates == {"queued", "leased"}
TerminalStates == {"done", "error", "cancelled"}
JobStates == {"none"} \cup ActiveStates \cup TerminalStates

\* runs.status, with NULL ("open": in flight) and the absent row ("none").
\* "produced" stands for ok, variance and unverified, which the queue treats alike.
RunStates == {"none", "open", "produced", "hard_stop"}

\* Where a worker is in serve()/execute(): between jobs; claimed, before the
\* run row is opened; executing; between append_log and the heartbeat of one
\* flush; between finish_run and finish_job, on the normal path (concluded)
\* and on the exception path (failing).
Phases == {"idle", "claimed", "running", "flushed", "concluded", "failing"}

VARIABLES
    state,       \* jobs.state
    request,     \* the columns an insert fixes: window, key, priority, maxAttempts
    attempts,    \* jobs.attempts
    leasedBy,    \* jobs.leased_by
    expired,     \* the jobs whose lease_expires_at has passed
    run,         \* the run of each job (runs.job_id is unique)
    lines,       \* the attempts that have lines in a job's run log
    phase,       \* what each worker is doing
    held,        \* the job it is doing it for: the Job row claim() returned
    attempt      \* that row's attempts column, as claimed

jobVars == <<state, request, attempts, leasedBy, expired>>
runVars == <<run, lines>>
workerVars == <<phase, held, attempt>>
vars == <<jobVars, runVars, workerVars>>

Request == [window: Windows, key: Keys \cup {NoKey},
            priority: Priorities, maxAttempts: AttemptLimits]

Absent == [window |-> NoKey]      \* the request of a row not inserted

Active(j) == state[j] \in ActiveStates
Terminal(j) == state[j] \in TerminalStates
Executing(w, j) == phase[w] # "idle" /\ held[w] = j

-----------------------------------------------------------------------------
Init ==
    /\ state = [j \in JobId |-> "none"]
    /\ request = [j \in JobId |-> Absent]
    /\ attempts = [j \in JobId |-> 0]
    /\ leasedBy = [j \in JobId |-> NoWorker]
    /\ expired = {}
    /\ run = [j \in JobId |-> "none"]
    /\ lines = [j \in JobId |-> {}]
    /\ phase = [w \in Workers |-> "idle"]
    /\ held = [w \in Workers |-> 0]
    /\ attempt = [w \in Workers |-> 0]

\* The row the next insert fills: ids are handed out in order.
NextRow(j) ==
    /\ state[j] = "none"
    /\ \A i \in JobId : i < j => state[i] # "none"

KeyTaken(k) == \E i \in JobId : state[i] # "none" /\ request[i].key = k

\* Variants: an active-window index that forgets one of the two active states.
WindowLeased(win) == \E i \in JobId : state[i] = "leased" /\ request[i].window = win
WindowQueued(win) == \E i \in JobId : state[i] = "queued" /\ request[i].window = win

WindowActive(win) == \E i \in JobId : Active(i) /\ request[i].window = win

\* enqueue: a known key answers with the job it already made, an active window
\* answers ActiveJobExists; only otherwise is a row inserted.
Enqueue(j, r) ==
    /\ NextRow(j)
    /\ r.key = NoKey \/ ~KeyTaken(r.key)
    /\ ~WindowActive(r.window)
    /\ state' = [state EXCEPT ![j] = "queued"]
    /\ request' = [request EXCEPT ![j] = r]
    /\ UNCHANGED <<attempts, leasedBy, expired, runVars, workerVars>>

\* cancel_job: only a queued job.
CancelJob(j) ==
    /\ state[j] = "queued"
    /\ state' = [state EXCEPT ![j] = "cancelled"]
    /\ UNCHANGED <<request, attempts, leasedBy, expired, runVars, workerVars>>

\* order by priority desc, id
Before(i, j) ==
    \/ request[i].priority > request[j].priority
    \/ request[i].priority = request[j].priority /\ i < j

\* Variant: a claim that takes a leased job too.
UnfinishedHead(j) ==
    /\ Active(j)
    /\ \A i \in JobId \ {j} : state[i] = "queued" => Before(j, i)

QueueHead(j) ==
    /\ state[j] = "queued"
    /\ \A i \in JobId \ {j} : state[i] = "queued" => Before(j, i)

\* Variant: a claim that sets attempts instead of counting it.
ClaimUncounted(w, j) ==
    /\ phase[w] = "idle"
    /\ QueueHead(j)
    /\ state' = [state EXCEPT ![j] = "leased"]
    /\ attempts' = [attempts EXCEPT ![j] = 1]
    /\ leasedBy' = [leasedBy EXCEPT ![j] = w]
    /\ expired' = expired \ {j}
    /\ phase' = [phase EXCEPT ![w] = "claimed"]
    /\ held' = [held EXCEPT ![w] = j]
    /\ attempt' = [attempt EXCEPT ![w] = 1]
    /\ UNCHANGED <<request, runVars>>

\* claim: lease the head of the queue.
Claim(w, j) ==
    /\ phase[w] = "idle"
    /\ QueueHead(j)
    /\ state' = [state EXCEPT ![j] = "leased"]
    /\ attempts' = [attempts EXCEPT ![j] = @ + 1]
    /\ leasedBy' = [leasedBy EXCEPT ![j] = w]
    /\ expired' = expired \ {j}
    /\ phase' = [phase EXCEPT ![w] = "claimed"]
    /\ held' = [held EXCEPT ![w] = j]
    /\ attempt' = [attempt EXCEPT ![w] = attempts[j] + 1]
    /\ UNCHANGED <<request, runVars>>

\* Variant: a start_run that keeps the log of the attempt before.
StartRunKeepingLog(w) ==
    /\ phase[w] = "claimed"
    /\ run' = [run EXCEPT ![held[w]] = "open"]
    /\ phase' = [phase EXCEPT ![w] = "running"]
    /\ UNCHANGED <<jobVars, lines, held, attempt>>

\* start_run: open the run row, or reopen the one an earlier attempt left,
\* with an empty log.
StartRun(w) ==
    /\ phase[w] = "claimed"
    /\ run' = [run EXCEPT ![held[w]] = "open"]
    /\ lines' = [lines EXCEPT ![held[w]] = {}]
    /\ phase' = [phase EXCEPT ![w] = "running"]
    /\ UNCHANGED <<jobVars, held, attempt>>

\* One flush of the run log, first transaction: append_log.
AppendLog(w) ==
    /\ phase[w] = "running"
    /\ lines' = [lines EXCEPT ![held[w]] = @ \cup {attempt[w]}]
    /\ phase' = [phase EXCEPT ![w] = "flushed"]
    /\ UNCHANGED <<jobVars, run, held, attempt>>

\* Second transaction: heartbeat, whose False is dropped by the log sink.
Heartbeat(w) ==
    /\ phase[w] = "flushed"
    /\ expired' = IF leasedBy[held[w]] = w /\ state[held[w]] = "leased"
                  THEN expired \ {held[w]} ELSE expired
    /\ phase' = [phase EXCEPT ![w] = "running"]
    /\ UNCHANGED <<state, request, attempts, leasedBy, runVars, held, attempt>>

\* finish_run on the normal path, with the run's own verdict.
FinishRun(w, verdict) ==
    /\ phase[w] = "running"
    /\ run' = [run EXCEPT ![held[w]] = verdict]
    /\ phase' = [phase EXCEPT ![w] = "concluded"]
    /\ UNCHANGED <<jobVars, lines, held, attempt>>

\* An exception inside execute()'s try (a finish_job that fails after
\* finish_run included): the handler's finish_run(HARD_STOP).
FailRun(w) ==
    /\ phase[w] \in {"running", "concluded"}
    /\ run' = [run EXCEPT ![held[w]] = "hard_stop"]
    /\ phase' = [phase EXCEPT ![w] = "failing"]
    /\ UNCHANGED <<jobVars, lines, held, attempt>>

BackToLoop(w) ==
    /\ phase' = [phase EXCEPT ![w] = "idle"]
    /\ held' = [held EXCEPT ![w] = 0]
    /\ attempt' = [attempt EXCEPT ![w] = 0]

\* Variant: the job is finished before its run is.
FinishJobFirst(w) ==
    /\ phase[w] \in {"running", "concluded", "failing"}
    /\ state' = [state EXCEPT ![held[w]] =
                    IF phase[w] = "failing" THEN "error" ELSE "done"]
    /\ leasedBy' = [leasedBy EXCEPT ![held[w]] = NoWorker]
    /\ expired' = expired \ {held[w]}
    /\ BackToLoop(w)
    /\ UNCHANGED <<request, attempts, runVars>>

\* finish_job, DONE or ERROR: by job id alone.  The worker returns to its loop.
FinishJob(w) ==
    /\ phase[w] \in {"concluded", "failing"}
    /\ state' = [state EXCEPT ![held[w]] =
                    IF phase[w] = "concluded" THEN "done" ELSE "error"]
    /\ leasedBy' = [leasedBy EXCEPT ![held[w]] = NoWorker]
    /\ expired' = expired \ {held[w]}
    /\ BackToLoop(w)
    /\ UNCHANGED <<request, attempts, runVars>>

\* The process dies mid-job and is restarted under the same worker_id.
Crash(w) ==
    /\ phase[w] # "idle"
    /\ BackToLoop(w)
    /\ UNCHANGED <<jobVars, runVars>>

\* now() passes lease_expires_at.
ExpireLease(j) ==
    /\ state[j] = "leased"
    /\ expired' = expired \cup {j}
    /\ UNCHANGED <<state, request, attempts, leasedBy, runVars, workerVars>>

\* Variants of the sweep: only jobs with no attempt left; one attempt too many.
LostSpent ==
    {j \in expired : state[j] = "leased" /\ attempts[j] >= request[j].maxAttempts}
AfterLossOnceMore(j) ==
    IF attempts[j] <= request[j].maxAttempts THEN "queued" ELSE "error"

\* The leases the sweep acts on, and what becomes of their jobs.
Lost == {j \in expired : state[j] = "leased"}
AfterLoss(j) ==
    IF attempts[j] < request[j].maxAttempts THEN "queued" ELSE "error"

\* Variant: a sweep of jobs that forgets their runs.
ReclaimJobsOnly ==
    /\ Lost # {}
    /\ state' = [j \in JobId |-> IF j \in Lost THEN AfterLoss(j) ELSE state[j]]
    /\ leasedBy' = [j \in JobId |-> IF j \in Lost THEN NoWorker ELSE leasedBy[j]]
    /\ expired' = expired \ Lost
    /\ UNCHANGED <<request, attempts, runVars, workerVars>>

\* reclaim_expired: from a worker's loop, POST /jobs/reclaim or the CLI.
ReclaimExpired ==
    /\ Lost # {}
    /\ state' = [j \in JobId |-> IF j \in Lost THEN AfterLoss(j) ELSE state[j]]
    /\ leasedBy' = [j \in JobId |-> IF j \in Lost THEN NoWorker ELSE leasedBy[j]]
    /\ run' = [j \in JobId |-> IF j \in Lost /\ run[j] = "open"
                               THEN "hard_stop" ELSE run[j]]
    /\ expired' = expired \ Lost
    /\ UNCHANGED <<request, attempts, lines, workerVars>>

WorkerStep(w) ==
    \/ \E j \in JobId : Claim(w, j)
    \/ StartRun(w)
    \/ AppendLog(w)
    \/ Heartbeat(w)
    \/ \E verdict \in {"produced", "hard_stop"} : FinishRun(w, verdict)
    \/ FailRun(w)
    \/ FinishJob(w)

Next ==
    \/ \E j \in JobId, r \in Request : Enqueue(j, r)
    \/ \E j \in JobId : CancelJob(j)
    \/ \E w \in Workers : WorkerStep(w)
    \/ \E w \in Workers : Crash(w)
    \/ \E j \in JobId : ExpireLease(j)
    \/ ReclaimExpired

Spec == Init /\ [][Next]_vars

-----------------------------------------------------------------------------
(***************************************************************************)
(* The deployment's assumption on RECON_LEASE_SECONDS: a lease outlasts    *)
(* the longest silent stretch of a run, so it only passes once its holder  *)
(* is no longer executing the job.                                         *)
(***************************************************************************)
LeaseOutlastsSilence(j) == \A w \in Workers : ~Executing(w, j)

TimelyNext ==
    \/ \E j \in JobId, r \in Request : Enqueue(j, r)
    \/ \E j \in JobId : CancelJob(j)
    \/ \E w \in Workers : WorkerStep(w)
    \/ \E w \in Workers : Crash(w)
    \/ \E j \in JobId : LeaseOutlastsSilence(j) /\ ExpireLease(j)
    \/ ReclaimExpired

TimelySpec == Init /\ [][TimelyNext]_vars

(***************************************************************************)
(* What the deployment keeps doing: workers poll, a run logs finitely many *)
(* lines before it concludes, the clock advances, somebody sweeps.         *)
(***************************************************************************)
Fairness ==
    /\ \A w \in Workers :
        /\ WF_vars(\E j \in JobId : Claim(w, j))
        /\ WF_vars(StartRun(w))
        /\ WF_vars(Heartbeat(w))
        /\ SF_vars(\E verdict \in {"produced", "hard_stop"} : FinishRun(w, verdict))
        /\ WF_vars(FinishJob(w))
    /\ \A j \in JobId : WF_vars(LeaseOutlastsSilence(j) /\ ExpireLease(j))
    /\ WF_vars(ReclaimExpired)

FairTimelySpec == TimelySpec /\ Fairness

-----------------------------------------------------------------------------
(* Properties of every behaviour, slow workers included.                   *)

TypeOK ==
    /\ state \in [JobId -> JobStates]
    /\ request \in [JobId -> Request \cup {Absent}]
    /\ attempts \in [JobId -> Nat]
    /\ leasedBy \in [JobId -> Workers \cup {NoWorker}]
    /\ expired \subseteq JobId
    /\ run \in [JobId -> RunStates]
    /\ lines \in [JobId -> SUBSET Nat]
    /\ phase \in [Workers -> Phases]
    /\ held \in [Workers -> JobId \cup {0}]
    /\ attempt \in [Workers -> Nat]

\* jobs_one_active_per_window and jobs_lease_is_complete: no sequence of
\* claims, sweeps and late finishes leaves two live jobs for one window, and a
\* job names a holder exactly while it is leased.
OneActivePerWindow ==
    /\ \A i, j \in JobId :
        Active(i) /\ Active(j) /\ request[i].window = request[j].window => i = j
    /\ \A j \in JobId : state[j] = "leased" <=> leasedBy[j] # NoWorker

\* D30: only as many leases as the request allowed.  claim() does not look at
\* max_attempts; it is enough that no exhausted job is ever put back in the queue.
AttemptsWithinBudget ==
    \A j \in JobId :
        /\ state[j] # "none" => attempts[j] <= request[j].maxAttempts
        /\ state[j] = "queued" => attempts[j] < request[j].maxAttempts

\* claim counts an attempt each time it hands a job out: no two executors of one job
\* ever claimed it under the same number, and none under one above the row's.  Whether
\* the later one still holds the lease is not said: the sweep may have taken it.
AttemptsFence ==
    \A w \in Workers, j \in JobId : Executing(w, j) =>
        /\ attempt[w] <= attempts[j]
        /\ \A v \in Workers \ {w} : Executing(v, j) => attempt[v] # attempt[w]

\* D30, the default max_attempts of 1: no job ever has two executors, however
\* slow a worker and however often the sweep runs.
SingleAttemptRunsOnce ==
    \A v, w \in Workers, j \in JobId :
        Executing(v, j) /\ Executing(w, j) /\ request[j].maxAttempts = 1 => v = w

\* Every job somebody asked for is eventually done, failed or withdrawn.
EveryJobSettles == \A j \in JobId : state[j] = "queued" ~> Terminal(j)

-----------------------------------------------------------------------------
(* Properties of behaviours in which leases outlast silence.               *)

\* "Two concurrent runs of one window is the double-invoicing shape": no two
\* workers are ever executing jobs of the same window.
NoConcurrentRuns ==
    \A v, w \in Workers, i, j \in JobId :
        /\ Executing(v, i)
        /\ Executing(w, j)
        /\ request[i].window = request[j].window
        => v = w

\* finished_at is null keeps meaning "actually running": a run in flight belongs
\* to a leased job, the only kind the sweep can still close.
InFlightIsLeased ==
    \A j \in JobId : run[j] = "open" => state[j] = "leased"

\* A retried attempt restarts the log: no run log holds lines of two attempts,
\* and what an executing worker finds there is its own.
OneAttemptPerLog ==
    /\ \A j \in JobId : \A a, b \in lines[j] : a = b
    /\ \A w \in Workers :
        phase[w] \in {"running", "flushed"} => lines[held[w]] \subseteq {attempt[w]}

\* A job that is done has a concluded run: the window's board card never says
\* finished while its run says running.
DoneMeansConcluded ==
    \A j \in JobId : state[j] = "done" => run[j] \in {"produced", "hard_stop"}

\* A settled job stays settled and its run keeps the verdict it settled with.
SettledIsFinal ==
    [][\A j \in JobId : Terminal(j) => state'[j] = state[j] /\ run'[j] = run[j]]_vars

\* Every run that was opened is eventually concluded.
EveryRunConcludes == \A j \in JobId : run[j] = "open" ~> run[j] # "open"

-----------------------------------------------------------------------------
(* What the properties rest on: the inductive invariants of the proofs.    *)

\* Rows and workers agree on what exists.
WellFormed ==
    /\ \A j \in JobId :
        IF state[j] = "none" THEN attempts[j] = 0 ELSE request[j] \in Request
    /\ \A w \in Workers : phase[w] = "idle" <=> held[w] = 0
    /\ \A w \in Workers, j \in JobId :
        Executing(w, j) => state[j] # "none" /\ attempt[w] >= 1

QueueInv ==
    TypeOK /\ WellFormed /\ OneActivePerWindow /\ AttemptsWithinBudget /\ AttemptsFence

\* While leases outlast silence, who executes a job holds its lease, under the
\* attempt the row is on.
HoldsLease ==
    \A w \in Workers, j \in JobId : Executing(w, j) =>
        state[j] = "leased" /\ leasedBy[j] = w /\ j \notin expired /\ attempt[w] = attempts[j]

\* A worker about to finish its job has concluded the run.
ConcludedFirst ==
    \A w \in Workers : phase[w] \in {"concluded", "failing"} =>
        run[held[w]] \in {"produced", "hard_stop"}

TimelyInv ==
    /\ QueueInv
    /\ HoldsLease
    /\ ConcludedFirst
    /\ InFlightIsLeased
    /\ OneAttemptPerLog
    /\ DoneMeansConcluded

-----------------------------------------------------------------------------
(***************************************************************************)
(* The queue, its leases and its sweep implement one worker at a time per  *)
(* window (WindowRuns), as long as leases outlast silence.                 *)
(***************************************************************************)
OutstandingOf(win) == {j \in JobId : Active(j) /\ request[j].window = win}
RunningOn(win) ==
    {w \in Workers : \E j \in JobId : Executing(w, j) /\ request[j].window = win}

Promise == INSTANCE WindowRuns WITH
    Requests <- JobId,
    outstanding <- [win \in Windows |-> OutstandingOf(win)],
    running <- [win \in Windows |-> RunningOn(win)]

\* The queue keeps the promise of WindowRuns.
KeepsPromise == Promise!Spec

=============================================================================
