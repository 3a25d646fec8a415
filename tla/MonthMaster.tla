---------------------------- MODULE MonthMaster ----------------------------
(***************************************************************************)
(* The month-end master of one month: the chain a finished window run      *)
(* starts (worker._chain_month_master), the windows it reads               *)
(* (repository_m5.month_windows, month_master.plan_month and collect) and  *)
(* the run that builds it (worker._execute_month_master).                  *)
(*                                                                         *)
(* The queue is taken at the level JobQueue proves it implements: at most  *)
(* one live job per window and one live master per month, each with one    *)
(* worker at a time.  What matters here is the order in which a window run *)
(* stores its files, chains and concludes, against the order in which a    *)
(* master on another worker plans, fetches and concludes.                  *)
(*                                                                         *)
(* A definition marked "Variant" is a plausible mistake in the one after   *)
(* it, kept to show that a property notices; nothing in Spec uses it.      *)
(***************************************************************************)
EXTENDS Integers, FiniteSets

CONSTANTS
    Windows,        \* the month's windows, all of them declared
    NumWorkers,     \* worker processes in the deployment
    MaxRuns         \* bound on the runs of one window

ASSUME ConstantsAssumption ==
    /\ IsFiniteSet(Windows)
    /\ NumWorkers \in Nat \ {0}
    /\ MaxRuns \in Nat

\* The live job of a window: none; executing; files stored; chained, with
\* finish_run to come; run concluded, with finish_job to come; leased to a
\* worker that died.
Executing == {"running", "stored", "chained", "concluded"}
Phases == {"idle", "lost"} \cup Executing

\* The latest master job: never made; queued; claimed; has read month_windows;
\* has fetched the finance files; leased to a worker that died; and its ends:
\* built, stopped because no window had a file, failed.
Building == {"leased", "planned", "collected"}
LiveMaster == {"queued", "lost"} \cup Building
MasterStates == {"none", "done", "empty", "error"} \cup LiveMaster

\* build_artifact_store: a directory, or a bucket where RECON_S3_ENDPOINT is set, as it
\* is in deploy/docker-compose.yml.
Stores == {"directory", "bucket"}

VARIABLES
    store,      \* the artifact store of the deployment, which never changes
    phase,      \* the live job of each window
    latest,     \* the id of each window's latest run, 0 for none
    status,     \* that run's status, "open" for NULL
    files,      \* the <<window, run>> whose finance file is recorded and stored
    chained,    \* what the chain of that run answered (runs.chained)
    master,     \* the state of the latest master job
    plan,       \* the run the executing master plans to use per window, 0 for missing
    fetched,    \* of those, the runs whose finance file it could read
    content,    \* the runs the last master built consolidates, 0 for missing
    verdict,    \* its status: "ok", "unverified", or "none" before there is one
    raced       \* the windows whose run chained while a master read the month
                \* (history only)

windowVars == <<store, phase, latest, status, files, chained, raced>>
masterVars == <<master, plan, fetched, content, verdict>>
vars == <<windowVars, masterVars>>

Nothing == [win \in Windows |-> 0]

\* A worker is waiting at the queue: the others each execute one job.
WorkerFree ==
    Cardinality({win \in Windows : phase[win] \in Executing})
        + Cardinality({master} \cap Building) < NumWorkers

Produced(win) == status[win] = "produced"

Init ==
    /\ store \in Stores
    /\ phase = [win \in Windows |-> "idle"]
    /\ latest = Nothing
    /\ status = [win \in Windows |-> "none"]
    /\ files = {}
    /\ chained = [win \in Windows |-> "none"]
    /\ master = "none"
    /\ plan = Nothing
    /\ fetched = Nothing
    /\ content = Nothing
    /\ verdict = "none"
    /\ raced = {}

-----------------------------------------------------------------------------
(* A window run.                                                           *)

\* claim and start_run of a new job: a new run row, in flight.
StartRun(win) ==
    /\ phase[win] = "idle"
    /\ WorkerFree
    /\ latest[win] < MaxRuns
    /\ phase' = [phase EXCEPT ![win] = "running"]
    /\ latest' = [latest EXCEPT ![win] = @ + 1]
    /\ status' = [status EXCEPT ![win] = "open"]
    /\ chained' = [chained EXCEPT ![win] = "none"]
    /\ raced' = raced \ {win}
    /\ UNCHANGED <<store, files, masterVars>>

\* write_artifacts and _store_artifacts of a run that produced a workbook.
StoreArtifacts(win) ==
    /\ phase[win] = "running"
    /\ files' = files \cup {<<win, latest[win]>>}
    /\ phase' = [phase EXCEPT ![win] = "stored"]
    /\ UNCHANGED <<store, latest, status, chained, raced, masterVars>>

\* Variant: one master per month, whatever became of it.
EnqueueMasterOnce ==
    IF master # "none"
    THEN UNCHANGED masterVars
    ELSE /\ master' = "queued"
         /\ UNCHANGED <<plan, fetched, content, verdict>>

\* The enqueue of _chain_month_master: a new master, unless one is live.
EnqueueMaster ==
    IF master \in LiveMaster
    THEN UNCHANGED masterVars
    ELSE /\ master' = "queued"
         /\ UNCHANGED <<plan, fetched, content, verdict>>

\* _chain_month_master: best effort, so the enqueue may also simply fail.
ChainMaster(win) ==
    /\ phase[win] = "stored"
    /\ phase' = [phase EXCEPT ![win] = "chained"]
    /\ \/ /\ EnqueueMaster
          /\ chained' = [chained EXCEPT ![win] = IF master \in LiveMaster THEN "already" ELSE "queued"]
       \/ /\ chained' = [chained EXCEPT ![win] = "failed"]
          /\ UNCHANGED masterVars
    /\ raced' = IF master \in {"planned", "collected"} THEN raced \cup {win} ELSE raced
    /\ UNCHANGED <<store, latest, status, files>>

\* Variant: the run is concluded before its artifacts are stored.
ConcludeRunFirst(win) ==
    /\ phase[win] \in {"running", "chained"}
    /\ status' = [status EXCEPT ![win] = "produced"]
    /\ phase' = [phase EXCEPT ![win] = "concluded"]
    /\ UNCHANGED <<store, latest, files, chained, raced, masterVars>>

\* finish_run of a run that produced a workbook.
ConcludeRun(win) ==
    /\ phase[win] = "chained"
    /\ status' = [status EXCEPT ![win] = "produced"]
    /\ phase' = [phase EXCEPT ![win] = "concluded"]
    /\ UNCHANGED <<store, latest, files, chained, raced, masterVars>>

\* finish_run of a run that hard-stops, and of an exception anywhere in execute().
StopRun(win) ==
    /\ phase[win] \in Executing
    /\ status' = [status EXCEPT ![win] = "hard_stop"]
    /\ phase' = [phase EXCEPT ![win] = "concluded"]
    /\ chained' = [chained EXCEPT ![win] = "none"]
    /\ UNCHANGED <<store, latest, files, raced, masterVars>>

\* finish_job.
FinishJob(win) ==
    /\ phase[win] = "concluded"
    /\ phase' = [phase EXCEPT ![win] = "idle"]
    /\ UNCHANGED <<store, latest, status, files, chained, raced, masterVars>>

\* The worker dies; the run row is as it left it until its lease expires.
LoseWorker(win) ==
    /\ phase[win] \in Executing
    /\ phase' = [phase EXCEPT ![win] = "lost"]
    /\ UNCHANGED <<store, latest, status, files, chained, raced, masterVars>>

\* reclaim_expired with no attempts left: a run still in flight is closed.
ReclaimRun(win) ==
    /\ phase[win] = "lost"
    /\ status' = [status EXCEPT ![win] = IF @ = "open" THEN "hard_stop" ELSE @]
    /\ phase' = [phase EXCEPT ![win] = "idle"]
    /\ UNCHANGED <<store, latest, files, chained, raced, masterVars>>

\* reclaim_expired with attempts left, then the next claim and start_run: the
\* same run row, reopened and without its artifacts.
RetryRun(win) ==
    /\ phase[win] = "lost"
    /\ WorkerFree
    /\ status' = [status EXCEPT ![win] = "open"]
    /\ files' = files \ {<<win, latest[win]>>}
    /\ phase' = [phase EXCEPT ![win] = "running"]
    /\ chained' = [chained EXCEPT ![win] = "none"]
    /\ raced' = raced \ {win}
    /\ UNCHANGED <<store, latest, masterVars>>

-----------------------------------------------------------------------------
(* The master.                                                             *)

\* POST /months/{month}/master.
QueueMaster ==
    /\ master \notin LiveMaster
    /\ EnqueueMaster
    /\ UNCHANGED windowVars

ClaimMaster ==
    /\ master = "queued"
    /\ WorkerFree
    /\ master' = "leased"
    /\ UNCHANGED <<windowVars, plan, fetched, content, verdict>>

\* plan_month: the latest run of each window, if it concluded with a workbook.
PlanMonth ==
    /\ master = "leased"
    /\ plan' = [win \in Windows |-> IF Produced(win) THEN latest[win] ELSE 0]
    /\ master' = "planned"
    /\ raced' = raced \cup {win \in Windows : phase[win] = "chained"}
    /\ UNCHANGED <<store, phase, latest, status, files, chained, fetched, content, verdict>>

\* Variant: the file is looked up by window instead of by the planned run.
ReadableNow(win, r) == store = "directory" /\ r = latest[win] /\ <<win, r>> \in files

\* _fetch: the file is read through ArtifactStore.open, which answers None on a bucket
\* whatever is in it.
Readable(win, r) == store = "directory" /\ <<win, r>> \in files

\* collect: a planned window whose file cannot be fetched joins the missing; with
\* none left the run hard-stops.
Collect ==
    /\ master = "planned"
    /\ fetched' = [win \in Windows |->
                    IF plan[win] # 0 /\ Readable(win, plan[win]) THEN plan[win] ELSE 0]
    /\ master' = IF fetched' = Nothing THEN "empty" ELSE "collected"
    /\ plan' = Nothing
    /\ UNCHANGED <<windowVars, content, verdict>>

\* What a worker had read is gone with the job.
Forget == plan' = Nothing /\ fetched' = Nothing

\* Variant: a window is only missing if it has a finished run to miss.
CompleteOfProduced == \A win \in Windows : Produced(win) => fetched[win] # 0

\* Coverage.complete
Complete == \A win \in Windows : fetched[win] # 0

\* build, write and store the master, finish_run and finish_job.
ConcludeMaster ==
    /\ master = "collected"
    /\ content' = fetched
    /\ verdict' = IF Complete THEN "ok" ELSE "unverified"
    /\ master' = "done"
    /\ Forget
    /\ UNCHANGED windowVars

\* An exception in _execute_month_master.
FailMaster ==
    /\ master \in Building
    /\ master' = "error"
    /\ Forget
    /\ UNCHANGED <<windowVars, content, verdict>>

\* The master's worker dies: the job is live until its lease expires, and with
\* a max_attempts of 1 it ends there.
LoseMaster ==
    /\ master \in Building
    /\ master' = "lost"
    /\ Forget
    /\ UNCHANGED <<windowVars, content, verdict>>

ReclaimMaster ==
    /\ master = "lost"
    /\ master' = "error"
    /\ UNCHANGED <<windowVars, plan, fetched, content, verdict>>

WindowStep(win) ==
    \/ StartRun(win)
    \/ StoreArtifacts(win)
    \/ ChainMaster(win)
    \/ ConcludeRun(win)
    \/ StopRun(win)
    \/ FinishJob(win)
    \/ LoseWorker(win)
    \/ ReclaimRun(win)
    \/ RetryRun(win)

MasterStep ==
    \/ QueueMaster
    \/ ClaimMaster
    \/ PlanMonth
    \/ Collect
    \/ ConcludeMaster
    \/ FailMaster
    \/ LoseMaster
    \/ ReclaimMaster

Next == MasterStep \/ \E win \in Windows : WindowStep(win)

Spec == Init /\ [][Next]_vars

-----------------------------------------------------------------------------
TypeOK ==
    /\ store \in Stores
    /\ phase \in [Windows -> Phases]
    /\ latest \in [Windows -> 0..MaxRuns]
    /\ status \in [Windows -> {"none", "open", "produced", "hard_stop"}]
    /\ files \subseteq Windows \X (1..MaxRuns)
    /\ chained \in [Windows -> {"none", "queued", "already", "failed"}]
    /\ master \in MasterStates
    /\ plan \in [Windows -> 0..MaxRuns]
    /\ fetched \in [Windows -> 0..MaxRuns]
    /\ content \in [Windows -> 0..MaxRuns]
    /\ verdict \in {"none", "ok", "unverified"}
    /\ raced \subseteq Windows

\* Nothing is executing, queued or waiting for a lease to expire.
Quiet ==
    /\ \A win \in Windows : phase[win] = "idle"
    /\ master \notin LiveMaster

\* The last master built has the latest run of every window that produced one and whose
\* chain was answered.  What can go by it is only a window that chained while a master
\* was reading the month, or had chained and not yet concluded when one did: with one
\* worker there is none.
Consolidated ==
    \A win \in Windows \ raced :
        Produced(win) /\ chained[win] \in {"queued", "already"} => content[win] = latest[win]

\* D56, once everything is quiet and the last master was built, or stopped for want of
\* windows on a store that opens its files: the month is consolidated.  On a bucket no
\* master is ever built.
CatchesUp ==
    Quiet /\ (master = "done" \/ (master = "empty" /\ store = "directory")) => Consolidated

\* "A master is rebuilt whenever a window finishes" (month_master.py) is said of any
\* deployment.  On a bucket none is ever built: every window it planned is excluded, and
\* its run stops for want of windows.
BucketBuildsNone ==
    store = "bucket" =>
        /\ master \notin {"collected", "done"}
        /\ content = Nothing /\ verdict = "none"

\* A run is never concluded as having a workbook before the store and the
\* artifacts table have it: what plan_month selects can be fetched.
ProducedHasFile ==
    \A win \in Windows : Produced(win) => <<win, latest[win]>> \in files

\* A master marked ok covers every window of the month with a run the month has
\* seen, also when a window was retried under it while it was fetching.
OkCoversMonth ==
    verdict = "ok" => \A win \in Windows : content[win] \in 1..latest[win]

\* "The run finished but its finance file is not in the artifact store": on a store that
\* opens its files a planned window is left out of the master, or the master stopped for
\* want of windows, only when that is so, and then the window was retried under the
\* master: what it planned no longer reads as produced.
ExcludedForCause ==
    [][master = "planned" /\ master' \in {"collected", "empty"} =>
        \A win \in Windows : plan[win] # 0 /\ fetched'[win] = 0 =>
            \/ store = "bucket"
            \/ /\ <<win, plan[win]>> \notin files
               /\ latest[win] = plan[win] => ~Produced(win)]_vars

-----------------------------------------------------------------------------
(* What they rest on.                                                      *)

\* A run that has stored its files and not yet concluded still has them.
StoredHasFile ==
    \A win \in Windows : phase[win] \in {"stored", "chained"} => <<win, latest[win]>> \in files

\* A live job has a run, and what a master plans, fetches and consolidates are runs
\* the month has had.
RunsArePast ==
    \A win \in Windows :
        /\ phase[win] # "idle" => latest[win] # 0
        /\ plan[win] <= latest[win] /\ fetched[win] <= latest[win] /\ content[win] <= latest[win]

\* The answer of a chain is kept while the run concludes, and until the next one.
ChainedHasChained ==
    \A win \in Windows : chained[win] \in {"queued", "already"} =>
        phase[win] \in {"chained", "concluded", "lost", "idle"}

\* A run whose chain was answered and did not race.
Counted(win) == win \notin raced /\ chained[win] \in {"queued", "already"}

\* The runs of the month as the master has them: those it plans to read, those it
\* fetched, those it was built from.
Has(runs) == \A win \in Windows : Counted(win) =>
    /\ phase[win] # "chained"
    /\ Produced(win) => runs[win] = latest[win]

\* From the moment it reads the month, the master has every run that counts; one that
\* stopped for want of windows had none to have, unless its store opens no file.
MasterHas ==
    /\ master = "planned" => Has(plan)
    /\ master = "empty" /\ store = "directory" => Has(Nothing)
    /\ master = "collected" => Has(fetched)
    /\ master = "done" => Has(content)

MonthInv ==
    /\ TypeOK
    /\ ProducedHasFile
    /\ StoredHasFile
    /\ RunsArePast
    /\ OkCoversMonth
    /\ ChainedHasChained
    /\ MasterHas
    /\ BucketBuildsNone

=============================================================================
