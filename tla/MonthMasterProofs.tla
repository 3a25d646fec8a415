------------------------- MODULE MonthMasterProofs -------------------------
(***************************************************************************)
(* Proofs about MonthMaster, for any windows of a month, workers and runs: *)
(* what a month's master consolidates, once everything is quiet, is what   *)
(* its windows last produced.                                              *)
(***************************************************************************)
EXTENDS MonthMaster, TLAPS

\* Before anything has run.
LEMMA InitMonthInv == Init => MonthInv
<1> SUFFICES ASSUME Init PROVE MonthInv
  OBVIOUS
<1> USE ConstantsAssumption DEF Init, Nothing
<1>1. TypeOK
  BY DEF TypeOK, Phases, MasterStates
<1>2. ProducedHasFile /\ StoredHasFile /\ RunsArePast /\ OkCoversMonth
  BY DEF ProducedHasFile, StoredHasFile, RunsArePast, OkCoversMonth, Produced
<1>3. ChainedHasChained /\ MasterHas /\ BucketBuildsNone
  BY DEF ChainedHasChained, MasterHas, BucketBuildsNone
<1>4. QED
  BY <1>1, <1>2, <1>3 DEF MonthInv

\* What a step of a window that leaves the master alone must respect: other windows
\* stay as they are, its new state claims no file it has not, and it does not come to
\* count by itself.
Respects(win) ==
    /\ UNCHANGED <<store, masterVars>>
    /\ \A w \in Windows \ {win} :
        /\ phase'[w] = phase[w] /\ latest'[w] = latest[w] /\ status'[w] = status[w]
        /\ chained'[w] = chained[w]
        /\ w \in raced <=> w \in raced'
        /\ \A r \in 1..MaxRuns : <<w, r>> \in files => <<w, r>> \in files'
    /\ latest[win] <= latest'[win]
    /\ phase'[win] # "idle" => latest'[win] # 0
    /\ status'[win] = "produced" => <<win, latest'[win]>> \in files'
    /\ phase'[win] \in {"stored", "chained"} => <<win, latest'[win]>> \in files'
    /\ chained'[win] \in {"queued", "already"} =>
        /\ phase'[win] \in {"chained", "concluded", "lost", "idle"}
        /\ chained'[win] = chained[win] /\ latest'[win] = latest[win]
        /\ win \in raced <=> win \in raced'
        /\ \/ phase[win] = "chained"
           \/ phase'[win] # "chained" /\ status'[win] \in {status[win], "hard_stop"}

LEMMA RespectsMonthInv ==
    ASSUME MonthInv, NEW win \in Windows, TypeOK', Respects(win)
    PROVE  MonthInv'
<1> USE ConstantsAssumption DEF MonthInv, masterVars, Respects
<1>1. ProducedHasFile'
  <2> SUFFICES ASSUME NEW w \in Windows, Produced(w)' PROVE <<w, latest'[w]>> \in files'
    BY DEF ProducedHasFile, Produced
  <2>1. CASE w = win
    BY <2>1 DEF Produced
  <2>2. CASE w # win
    <3>1. <<w, latest[w]>> \in files
      BY <2>2 DEF ProducedHasFile, Produced
    <3>2. latest[w] \in 1..MaxRuns
      BY <3>1 DEF TypeOK
    <3>3. QED
      BY <2>2, <3>1, <3>2
  <2>3. QED
    BY <2>1, <2>2
<1>2. StoredHasFile'
  <2> SUFFICES ASSUME NEW w \in Windows, phase'[w] \in {"stored", "chained"}
               PROVE  <<w, latest'[w]>> \in files'
    BY DEF StoredHasFile
  <2>1. CASE w = win
    BY <2>1
  <2>2. CASE w # win
    <3>1. <<w, latest[w]>> \in files
      BY <2>2 DEF StoredHasFile
    <3>2. latest[w] \in 1..MaxRuns
      BY <3>1 DEF TypeOK
    <3>3. QED
      BY <2>2, <3>1, <3>2
  <2>3. QED
    BY <2>1, <2>2
<1>3. \A w \in Windows : latest[w] \in Nat /\ latest'[w] \in Nat /\ latest[w] <= latest'[w]
  BY DEF TypeOK
<1>4. RunsArePast'
  BY <1>3 DEF RunsArePast, TypeOK
<1>5. OkCoversMonth'
  BY <1>3 DEF OkCoversMonth, TypeOK
<1>6. ChainedHasChained'
  BY DEF ChainedHasChained
<1>7. \A runs \in [Windows -> 0..MaxRuns] :
        Has(runs) /\ master \in {"planned", "collected", "empty", "done"} => Has(runs)'
  BY DEF Has, Counted, Produced
<1>8. MasterHas'
  BY <1>7 DEF MasterHas, TypeOK, Nothing
<1>9. BucketBuildsNone'
  BY DEF BucketBuildsNone, Nothing
<1>10. QED
  BY <1>1, <1>2, <1>4, <1>5, <1>6, <1>8, <1>9

\* The steps of a window's run, but for the chain, which may start a master.
LEMMA RunMonthInv ==
    ASSUME MonthInv, NEW win \in Windows,
           \/ StartRun(win) \/ StoreArtifacts(win) \/ ConcludeRun(win) \/ StopRun(win)
           \/ FinishJob(win) \/ LoseWorker(win) \/ ReclaimRun(win) \/ RetryRun(win)
    PROVE  MonthInv'
<1> USE ConstantsAssumption
<1>1. TypeOK /\ latest[win] \in 0..MaxRuns /\ (phase[win] # "idle" => latest[win] \in 1..MaxRuns)
  BY DEF MonthInv, TypeOK, RunsArePast
<1>2. /\ status[win] = "produced" => <<win, latest[win]>> \in files
      /\ phase[win] \in {"stored", "chained"} => <<win, latest[win]>> \in files
      /\ chained[win] \in {"queued", "already"} =>
             phase[win] \in {"chained", "concluded", "lost", "idle"}
  BY DEF MonthInv, ProducedHasFile, StoredHasFile, ChainedHasChained, Produced
<1>3. TypeOK'
  <2>1. CASE StartRun(win)
    BY <1>1, <2>1 DEF StartRun, TypeOK, Executing, Phases, masterVars
  <2>2. CASE StoreArtifacts(win)
    BY <1>1, <2>2 DEF StoreArtifacts, TypeOK, Executing, Phases, masterVars
  <2>3. CASE ConcludeRun(win)
    BY <1>1, <2>3 DEF ConcludeRun, TypeOK, Executing, Phases, masterVars
  <2>4. CASE StopRun(win)
    BY <1>1, <2>4 DEF StopRun, TypeOK, Executing, Phases, masterVars
  <2>5. CASE FinishJob(win)
    BY <1>1, <2>5 DEF FinishJob, TypeOK, Executing, Phases, masterVars
  <2>6. CASE LoseWorker(win)
    BY <1>1, <2>6 DEF LoseWorker, TypeOK, Executing, Phases, masterVars
  <2>7. CASE ReclaimRun(win)
    BY <1>1, <2>7 DEF ReclaimRun, TypeOK, Executing, Phases, masterVars
  <2>8. CASE RetryRun(win)
    BY <1>1, <2>8 DEF RetryRun, TypeOK, Executing, Phases, masterVars
  <2>9. QED
    BY <2>1, <2>2, <2>3, <2>4, <2>5, <2>6, <2>7, <2>8
<1>4. Respects(win)
  <2>1. CASE StartRun(win)
    BY <1>1, <1>2, <2>1 DEF StartRun, TypeOK, Executing, Respects
  <2>2. CASE StoreArtifacts(win)
    BY <1>1, <1>2, <2>2 DEF StoreArtifacts, TypeOK, Executing, Respects
  <2>3. CASE ConcludeRun(win)
    BY <1>1, <1>2, <2>3 DEF ConcludeRun, TypeOK, Executing, Respects
  <2>4. CASE StopRun(win)
    BY <1>1, <1>2, <2>4 DEF StopRun, TypeOK, Executing, Respects
  <2>5. CASE FinishJob(win)
    BY <1>1, <1>2, <2>5 DEF FinishJob, TypeOK, Executing, Respects
  <2>6. CASE LoseWorker(win)
    BY <1>1, <1>2, <2>6 DEF LoseWorker, TypeOK, Executing, Respects
  <2>7. CASE ReclaimRun(win)
    BY <1>1, <1>2, <2>7 DEF ReclaimRun, TypeOK, Executing, Respects
  <2>8. CASE RetryRun(win)
    BY <1>1, <1>2, <2>8 DEF RetryRun, TypeOK, Executing, Respects
  <2>9. QED
    BY <2>1, <2>2, <2>3, <2>4, <2>5, <2>6, <2>7, <2>8
<1>5. QED
  BY <1>3, <1>4, RespectsMonthInv

\* The chain: either no master is under way, and one is queued that will read the
\* month, or one is, and a master that has begun to read counts as raced.
LEMMA ChainMonthInv ==
    ASSUME MonthInv, NEW win \in Windows, ChainMaster(win)
    PROVE  MonthInv'
<1> USE ConstantsAssumption DEF MonthInv
<1>0. /\ phase[win] = "stored" /\ phase' = [phase EXCEPT ![win] = "chained"]
      /\ UNCHANGED <<store, latest, status, files, plan, fetched, content, verdict>>
      /\ raced \subseteq raced' /\ raced' \subseteq raced \cup {win}
      /\ master \in {"planned", "collected"} => win \in raced'
      /\ chained' \in [Windows -> {"none", "queued", "already", "failed"}]
      /\ \A w \in Windows \ {win} : chained'[w] = chained[w]
      /\ \/ master' = master /\ chained'[win] = "failed"
         \/ master' = master /\ master \in LiveMaster
         \/ master' = "queued"
  BY DEF ChainMaster, EnqueueMaster, masterVars, TypeOK
<1>1. TypeOK'
  BY <1>0 DEF TypeOK, Phases, Executing, MasterStates, LiveMaster
<1>2. ProducedHasFile' /\ StoredHasFile' /\ OkCoversMonth' /\ RunsArePast'
  BY <1>0 DEF ProducedHasFile, StoredHasFile, OkCoversMonth, RunsArePast, Produced, TypeOK
<1>3. ChainedHasChained'
  BY <1>0 DEF ChainedHasChained, TypeOK
<1>4. MasterHas'
  <2>1. \A w \in Windows : master' \in {"planned", "collected", "empty", "done"} /\ Counted(w)' =>
          w # win /\ Counted(w)
    BY <1>0 DEF Counted, LiveMaster, Building
  <2>2. \A runs \in [Windows -> 0..MaxRuns] :
          Has(runs) /\ master' \in {"planned", "collected", "empty", "done"} => Has(runs)'
    BY <1>0, <2>1 DEF Has, Produced, TypeOK
  <2>3. QED
    BY <1>0, <2>2 DEF MasterHas, TypeOK, Nothing
<1>5. BucketBuildsNone'
  BY <1>0 DEF BucketBuildsNone, Nothing
<1>6. QED
  BY <1>1, <1>2, <1>3, <1>4, <1>5

\* The steps of the master.
LEMMA MasterMonthInv ==
    ASSUME MonthInv, MasterStep
    PROVE  MonthInv'
<1> USE ConstantsAssumption DEF MonthInv, windowVars
<1>0. /\ UNCHANGED <<store, phase, latest, status, files, chained>>
      /\ raced \subseteq raced'
  BY DEF MasterStep, QueueMaster, ClaimMaster, PlanMonth, Collect, ConcludeMaster, FailMaster,
         LoseMaster, ReclaimMaster
<1>1. ProducedHasFile' /\ StoredHasFile' /\ ChainedHasChained'
  BY <1>0 DEF ProducedHasFile, StoredHasFile, ChainedHasChained, Produced
<1>2. CASE PlanMonth
  <2>1. TypeOK'
    BY <1>2 DEF PlanMonth, TypeOK, MasterStates, LiveMaster, Building
  <2>2. RunsArePast' /\ OkCoversMonth'
    BY <1>2 DEF PlanMonth, RunsArePast, OkCoversMonth, TypeOK
  <2>3. MasterHas'
    BY <1>2 DEF PlanMonth, MasterHas, Has, Counted, Produced, TypeOK
  <2>4. BucketBuildsNone'
    BY <1>2 DEF PlanMonth, BucketBuildsNone, Nothing
  <2>5. QED
    BY <1>1, <2>1, <2>2, <2>3, <2>4
<1>3. CASE Collect
  <2>0. /\ master = "planned" /\ plan' = Nothing
        /\ fetched' = [win \in Windows |->
               IF plan[win] # 0 /\ Readable(win, plan[win]) THEN plan[win] ELSE 0]
        /\ UNCHANGED <<content, verdict, raced>>
        /\ \/ master' = "empty"
           \/ master' = "collected" /\ fetched' # Nothing
    BY <1>3 DEF Collect
  <2>1. TypeOK'
    BY <1>0, <2>0 DEF TypeOK, MasterStates, LiveMaster, Building, Nothing
  <2>2. RunsArePast' /\ OkCoversMonth'
    BY <1>0, <2>0 DEF RunsArePast, OkCoversMonth, TypeOK, Nothing
  <2>3. master' = "collected" => store = "directory"
    BY <2>0 DEF Readable, Nothing
  <2>4. ASSUME store = "directory", NEW win \in Windows, Counted(win)'
        PROVE  phase'[win] # "chained" /\ (Produced(win)' => fetched'[win] = latest'[win])
    <3>1. Counted(win)
      BY <1>0, <2>0, <2>4 DEF Counted
    <3>2. phase[win] # "chained" /\ (Produced(win) => plan[win] = latest[win])
      BY <2>0, <3>1 DEF MasterHas, Has
    <3>3. Produced(win) => <<win, latest[win]>> \in files /\ latest[win] # 0
      BY DEF ProducedHasFile, TypeOK
    <3>4. QED
      BY <1>0, <2>0, <2>4, <3>2, <3>3 DEF Readable, Produced
  <2>5. store = "directory" => Has(fetched)'
    BY <2>4 DEF Has
  <2>6. master' = "empty" => fetched' = Nothing
    BY <1>3 DEF Collect
  <2>7. MasterHas'
    BY <1>0, <2>0, <2>3, <2>5, <2>6 DEF MasterHas, Has, Nothing, Counted, Produced
  <2>8. BucketBuildsNone'
    BY <1>0, <2>0, <2>3 DEF BucketBuildsNone, Nothing
  <2>9. QED
    BY <1>1, <2>1, <2>2, <2>7, <2>8
<1>4. CASE ConcludeMaster
  <2>1. TypeOK'
    BY <1>4 DEF ConcludeMaster, Forget, TypeOK, MasterStates, Nothing
  <2>2. RunsArePast' /\ OkCoversMonth'
    BY <1>4 DEF ConcludeMaster, Forget, RunsArePast, OkCoversMonth, Complete, TypeOK, Nothing
  <2>3. MasterHas'
    BY <1>4 DEF ConcludeMaster, Forget, MasterHas, Has, Counted, Produced
  <2>4. BucketBuildsNone'
    BY <1>0, <1>4 DEF ConcludeMaster, BucketBuildsNone
  <2>5. QED
    BY <1>1, <2>1, <2>2, <2>3, <2>4
<1>5. CASE QueueMaster \/ ClaimMaster \/ FailMaster \/ LoseMaster \/ ReclaimMaster
  <2>0. /\ master' \in {"queued", "leased", "error", "lost"}
        /\ UNCHANGED <<content, verdict, raced>>
        /\ plan' \in {plan, Nothing} /\ fetched' \in {fetched, Nothing}
    BY <1>5 DEF QueueMaster, EnqueueMaster, ClaimMaster, FailMaster, LoseMaster, ReclaimMaster,
                Forget
  <2>1. TypeOK'
    BY <1>0, <2>0 DEF TypeOK, MasterStates, LiveMaster, Building, Nothing
  <2>2. RunsArePast' /\ OkCoversMonth'
    BY <1>0, <2>0 DEF RunsArePast, OkCoversMonth, TypeOK, Nothing
  <2>3. MasterHas'
    BY <2>0 DEF MasterHas
  <2>4. BucketBuildsNone'
    BY <1>0, <2>0 DEF BucketBuildsNone, Nothing
  <2>5. QED
    BY <1>1, <2>1, <2>2, <2>3, <2>4
<1>6. QED
  BY <1>2, <1>3, <1>4, <1>5 DEF MasterStep

\* Each step preserves the invariant.
LEMMA StepMonthInv == MonthInv /\ [Next]_vars => MonthInv'
<1> SUFFICES ASSUME MonthInv, [Next]_vars PROVE MonthInv'
  OBVIOUS
<1>1. CASE MasterStep
  BY <1>1, MasterMonthInv
<1>2. ASSUME NEW win \in Windows, WindowStep(win) PROVE MonthInv'
  BY <1>2, RunMonthInv, ChainMonthInv DEF WindowStep
<1>3. CASE UNCHANGED vars
  BY <1>3 DEF vars, windowVars, masterVars, MonthInv, TypeOK, ProducedHasFile, StoredHasFile,
              RunsArePast, OkCoversMonth, ChainedHasChained, MasterHas, Has, Counted, Produced,
              BucketBuildsNone, Nothing
<1>4. QED
  BY <1>1, <1>2, <1>3 DEF Next

\* The invariant holds of the month for ever.
THEOREM MonthInvariant == Spec => []MonthInv
<1>1. QED
  BY InitMonthInv, StepMonthInv, PTL DEF Spec

\* Every variable keeps its type: no run or master is ever in a state the worker has no
\* branch for.
THEOREM TypeCorrect == Spec => []TypeOK
<1>1. MonthInv => TypeOK
  BY DEF MonthInv
<1>2. QED
  BY <1>1, MonthInvariant, PTL

\* Whatever is retried, lost or reclaimed, and whichever worker plans the master: what
\* plan_month selects is stored and recorded.
THEOREM FilesKept == Spec => []ProducedHasFile
<1>1. MonthInv => ProducedHasFile
  BY DEF MonthInv
<1>2. QED
  BY <1>1, MonthInvariant, PTL

\* A master that says ok has a run of every window of the month in it.
THEOREM OkMeansWhole == Spec => []OkCoversMonth
<1>1. MonthInv => OkCoversMonth
  BY DEF MonthInv
<1>2. QED
  BY <1>1, MonthInvariant, PTL

\* D56 for any number of windows and workers: when everything is quiet the last master
\* built has the latest workbook of every window whose chain was answered and did not
\* race a master that was reading; and one that stopped on a store which opens its
\* files had no such window.
THEOREM MasterCatchesUp == Spec => []CatchesUp
<1>1. MonthInv /\ master = "done" => Consolidated
  BY DEF MonthInv, Consolidated, MasterHas, Has, Counted
<1>2. MonthInv /\ master = "empty" /\ store = "directory" => Consolidated
  <2> SUFFICES ASSUME MonthInv, master = "empty", store = "directory",
                      NEW win \in Windows, Counted(win), Produced(win)
               PROVE  FALSE
    BY DEF Consolidated, Counted
  <2>1. latest[win] = 0
    BY DEF MonthInv, MasterHas, Has, Nothing
  <2>2. <<win, latest[win]>> \in files
    BY DEF MonthInv, ProducedHasFile
  <2>3. QED
    BY <2>1, <2>2 DEF MonthInv, TypeOK
<1>3. MonthInv => CatchesUp
  BY <1>1, <1>2 DEF CatchesUp
<1>4. QED
  BY <1>3, MonthInvariant, PTL

\* Where artifacts are in a bucket, as in the deployment the repository describes, no
\* master is ever built, whatever its windows produce.
THEOREM NoMasterOnBucket == Spec => []BucketBuildsNone
<1>1. MonthInv => BucketBuildsNone
  BY DEF MonthInv
<1>2. QED
  BY <1>1, MonthInvariant, PTL

\* Where the store opens its files, a planned window is left out of a master, or the
\* master stopped, only for a file that is gone by the time it is fetched, and that is
\* one of a window retried under the master.
THEOREM ExclusionHasCause == Spec => ExcludedForCause
<1> DEFINE Cause ==
        master = "planned" /\ master' \in {"collected", "empty"} =>
            \A win \in Windows : plan[win] # 0 /\ fetched'[win] = 0 =>
                \/ store = "bucket"
                \/ /\ <<win, plan[win]>> \notin files
                   /\ latest[win] = plan[win] => ~Produced(win)
<1>1. ASSUME MonthInv, Next PROVE Cause
  <2>1. CASE Collect
    <3>1. \A win \in Windows : plan[win] # 0 /\ fetched'[win] = 0 /\ store = "directory" =>
              <<win, plan[win]>> \notin files
      BY <2>1 DEF Collect, Readable
    <3>2. QED
      BY <1>1, <3>1 DEF MonthInv, TypeOK, Stores, ProducedHasFile
  <2>2. ASSUME NEW win \in Windows, WindowStep(win) PROVE master' \in {master, "queued"}
    BY <2>2 DEF WindowStep, StartRun, StoreArtifacts, ChainMaster, EnqueueMaster, ConcludeRun,
                StopRun, FinishJob, LoseWorker, ReclaimRun, RetryRun, masterVars
  <2>3. CASE QueueMaster \/ ClaimMaster \/ PlanMonth \/ ConcludeMaster \/ FailMaster
             \/ LoseMaster \/ ReclaimMaster
    BY <2>3 DEF QueueMaster, EnqueueMaster, ClaimMaster, PlanMonth, ConcludeMaster, FailMaster,
                LoseMaster, ReclaimMaster, masterVars
  <2>4. QED
    BY <1>1, <2>1, <2>2, <2>3 DEF Next, MasterStep
<1>2. MonthInv /\ [Next]_vars => [Cause]_vars
  BY <1>1
<1>3. QED
  BY <1>2, MonthInvariant, PTL DEF Spec, ExcludedForCause

=============================================================================
