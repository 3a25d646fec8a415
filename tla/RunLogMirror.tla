---------------------------- MODULE RunLogMirror ----------------------------
(***************************************************************************)
(* The log of one run as a browser reads it: the producer (runlog.py,      *)
(* QueueRunLog), which keeps lines in a buffer and flushes them into       *)
(* run_log_lines; the worker around it (worker.py), which starts, retries  *)
(* and finishes the run; the page that polls (repository.log_lines and     *)
(* web/app/runs/[id]/log.tsx); and the retention sweep.                    *)
(*                                                                         *)
(* A flush may fail before its lines are stored, or after, in the commit's *)
(* answer or in the heartbeat that follows.  A page is two statements, the *)
(* run's finished_at and then the lines.  The run has one worker at a      *)
(* time, which is what JobQueueProofs proves of workers that flush         *)
(* before their lease ends.                                                *)
(*                                                                         *)
(* A definition marked "Variant" is a plausible mistake in the one after   *)
(* it, kept to show that a property notices; nothing in Spec uses it.      *)
(***************************************************************************)
EXTENDS Integers, FiniteSets, Sequences, SequencesExt

CONSTANTS
    MaxAttempts,    \* jobs.max_attempts
    MaxLines,       \* bound on the lines of one attempt
    FlushEvery,     \* log_flush_lines
    Limit           \* the lines of a page

ASSUME ConstantsAssumption ==
    /\ MaxAttempts \in Nat \ {0}
    /\ MaxLines \in Nat
    /\ FlushEvery \in Nat \ {0}
    /\ Limit \in Nat \ {0}

Seqs == 0..MaxLines - 1

\* The worker: none on the run; logging; final flush done; finish_run done;
\* died; and no attempt will follow.
Stages == {"waiting", "logging", "flushed", "finished", "dead", "over"}

VARIABLES
    attempt,    \* the attempt the run is on, 0 before the first
    stage,      \* what its worker is doing
    failed,     \* execute()'s except branch was entered: before the run was closed, or after
    closed,     \* runs.finished_at is not null
    nextSeq,    \* the producer's _next_seq
    buffer,     \* the sequence numbers in its _buffer
    rows,       \* run_log_lines: the attempt that wrote each line, 0 for no row
    pruned,     \* the retention sweep has been here since the run closed
    page,       \* the reader: between polls, "head" read, or "done" polling
    saw,        \* the attempt the head said had finished, 0 for one still running
    cursor,     \* its after_seq
    view        \* what it shows: <<attempt, seq>> of each line, in order

producerVars == <<attempt, stage, failed, closed, nextSeq, buffer, rows, pruned>>
readerVars == <<page, saw, cursor, view>>
vars == <<producerVars, readerVars>>

NoRows == [n \in Seqs |-> 0]
Stored == {n \in Seqs : rows[n] # 0}
Emitted == 0..nextSeq - 1

Init ==
    /\ attempt = 0
    /\ stage = "waiting"
    /\ failed = "no"
    /\ closed = FALSE
    /\ nextSeq = 0
    /\ buffer = {}
    /\ rows = NoRows
    /\ pruned = FALSE
    /\ page = "idle"
    /\ saw = 0
    /\ cursor = -1
    /\ view = <<>>

-----------------------------------------------------------------------------
(* The worker and its log.                                                 *)

\* Variant: a retry keeps the lines of the attempt before.
KeptRows == rows

\* "A retried attempt restarts the log": the run's lines are deleted.
RestartedRows == NoRows

\* start_run and a new QueueRunLog: the run opened or reopened, its lines deleted.
StartRun ==
    /\ stage = "waiting"
    /\ attempt' = attempt + 1
    /\ stage' = "logging"
    /\ failed' = "no"
    /\ closed' = FALSE
    /\ nextSeq' = 0
    /\ buffer' = {}
    /\ rows' = RestartedRows
    /\ pruned' = FALSE
    /\ UNCHANGED readerVars

\* append_log: on conflict do nothing.
Inserted(batch) == [n \in Seqs |-> IF n \in batch /\ rows[n] = 0 THEN attempt ELSE rows[n]]

\* Variant: a failed flush loses its batch.
FlushLosing(batch) ==
    \/ rows' = Inserted(batch) /\ buffer' = {}
    \/ rows' = rows /\ buffer' = {}

\* flush: stored; refused, and kept; or stored with the answer lost, and kept too.
Flush(batch) ==
    \/ rows' = Inserted(batch) /\ buffer' = {}
    \/ rows' = rows /\ buffer' = batch
    \/ rows' = Inserted(batch) /\ buffer' = batch

\* add, warn: one more line, and a flush if one is due, by count or by the clock.
Add ==
    /\ stage = "logging"
    /\ nextSeq < MaxLines
    /\ nextSeq' = nextSeq + 1
    /\ LET batch == buffer \cup {nextSeq}
       IN \/ Flush(batch)
          \/ Cardinality(batch) < FlushEvery /\ buffer' = batch /\ rows' = rows
    /\ UNCHANGED <<attempt, stage, failed, closed, pruned, readerVars>>

\* log.write in mid-run, and the flush at the end of either branch of execute().
FlushAll ==
    /\ stage = "logging"
    /\ stage' \in {"logging", "flushed"}
    /\ Flush(buffer)
    /\ UNCHANGED <<attempt, failed, closed, nextSeq, pruned, readerVars>>

\* Variant: finish_run before the log is flushed.
FinishRunFirst ==
    /\ stage \in {"logging", "flushed"}
    /\ closed' = TRUE
    /\ stage' = IF stage = "flushed" THEN "finished" ELSE stage
    /\ UNCHANGED <<attempt, failed, nextSeq, buffer, rows, pruned, readerVars>>

\* finish_run.
FinishRun ==
    /\ stage = "flushed"
    /\ closed' = TRUE
    /\ stage' = "finished"
    /\ UNCHANGED <<attempt, failed, nextSeq, buffer, rows, pruned, readerVars>>

\* The except branch: any step may raise into it, finish_run and finish_job too, and
\* it logs the failure, flushes and finishes the run, over again perhaps.
Raise ==
    /\ stage \in {"logging", "flushed", "finished"}
    /\ failed = "no"
    /\ failed' = IF closed THEN "after" ELSE "before"
    /\ stage' = "logging"
    /\ UNCHANGED <<attempt, closed, nextSeq, buffer, rows, pruned, readerVars>>

\* finish_job: nothing will run this job again.
FinishJob ==
    /\ stage = "finished"
    /\ stage' = "over"
    /\ UNCHANGED <<attempt, failed, closed, nextSeq, buffer, rows, pruned, readerVars>>

\* The worker dies, and what it had buffered with it.
Crash ==
    /\ stage \in {"logging", "flushed", "finished"}
    /\ stage' = "dead"
    /\ buffer' = {}
    /\ UNCHANGED <<attempt, failed, closed, nextSeq, rows, pruned, readerVars>>

\* attempts < max_attempts: requeued, or given up.
AfterLoss == IF attempt < MaxAttempts THEN "waiting" ELSE "over"

\* reclaim_expired: the run is closed, the job requeued or given up.
Reclaim ==
    /\ stage = "dead"
    /\ closed' = TRUE
    /\ stage' = AfterLoss
    /\ UNCHANGED <<attempt, failed, nextSeq, buffer, rows, pruned, readerVars>>

\* prune_run_log_lines, of a run that finished long ago: settled for good.
Prune ==
    /\ closed
    /\ stage = "over"
    /\ rows' = NoRows
    /\ pruned' = TRUE
    /\ UNCHANGED <<attempt, stage, failed, closed, nextSeq, buffer, readerVars>>

-----------------------------------------------------------------------------
(* The reader.                                                             *)

\* log_lines, first statement.
ReadHead ==
    /\ page = "idle"
    /\ attempt > 0
    /\ page' = "head"
    /\ saw' = IF closed THEN attempt ELSE 0
    /\ UNCHANGED <<producerVars, cursor, view>>

\* order by seq limit %s: the i-th line is the one with i at or before it.
Page ==
    LET after == {n \in Stored : n > cursor}
        Rank(n) == Cardinality({m \in after : m <= n})
    IN  [i \in 1..Min({Limit, Cardinality(after)}) |-> CHOOSE n \in after : Rank(n) = i]

\* Variant: an empty page does not say complete.
CompleteIfLines(lines) == saw # 0 /\ Len(lines) \in 1..Limit - 1

\* complete and len(lines) < limit
Complete(lines) == saw # 0 /\ Len(lines) < Limit

\* Second statement, the answer, and the page appended to the view.
ReadLines ==
    /\ page = "head"
    /\ view' = view \o [i \in DOMAIN Page |-> <<rows[Page[i]], Page[i]>>]
    /\ cursor' = IF Page = <<>> THEN cursor ELSE Last(Page)
    /\ page' = IF Complete(Page) THEN "done" ELSE "idle"
    /\ UNCHANGED <<producerVars, saw>>

\* The request fails; the page keeps polling.
PollFails ==
    /\ page = "head"
    /\ page' = "idle"
    /\ UNCHANGED <<producerVars, saw, cursor, view>>

WorkerStep == StartRun \/ Add \/ FlushAll \/ FinishRun \/ FinishJob

Next ==
    \/ WorkerStep
    \/ Raise
    \/ Crash
    \/ Reclaim
    \/ Prune
    \/ ReadHead
    \/ ReadLines
    \/ PollFails

Spec == Init /\ [][Next]_vars

\* A worker goes on, a run logs finitely many lines, somebody sweeps, and polling
\* is not refused for ever.
Fairness == WF_vars(WorkerStep) /\ WF_vars(Reclaim) /\ WF_vars(ReadHead) /\ SF_vars(ReadLines)

FairSpec == Spec /\ Fairness

-----------------------------------------------------------------------------
\* The producer's half of the state.
TypeOK ==
    /\ attempt \in 0..MaxAttempts
    /\ stage \in Stages
    /\ failed \in {"no", "before", "after"}
    /\ closed \in BOOLEAN
    /\ nextSeq \in 0..MaxLines
    /\ buffer \subseteq Seqs
    /\ rows \in [Seqs -> 0..MaxAttempts]
    /\ pruned \in BOOLEAN

\* "seq is producer-assigned and gapless": whatever flushes failed, half-failed or
\* were sent again, the stored lines are a prefix of this attempt's, and the rest
\* of what a live worker has logged is in its buffer.
StoredIsPrefix ==
    /\ \A n \in Stored : rows[n] = attempt /\ (0..n) \subseteq Stored
    /\ stage \in {"logging", "flushed"} => Stored \cup buffer = Emitted

\* The reader shows the lines numbered 0, 1, 2 and so on, each once, across pages,
\* failed polls, retries and the sweep.
ViewHasNoGap == \A i \in DOMAIN view : view[i][2] = i - 1

\* "A client can prove it lost nothing; complete says stop": a reader told that an
\* attempt's log is complete, and that had shown no other attempt, shows every line
\* that attempt stored, unless the sweep came first or the attempt failed after
\* its run was closed.
CompleteMeansAll ==
    /\ page = "done" /\ saw = attempt /\ ~pruned /\ failed # "after"
    /\ \A i \in DOMAIN view : view[i][1] = attempt
    => Len(view) = Cardinality(Stored)

\* A page that polls is eventually told to stop.
ReaderStops == attempt > 0 ~> page = "done"

-----------------------------------------------------------------------------
\* What StoredIsPrefix rests on: an attempt follows only while there is one left, a
\* worker has one, and until it is done or dead what it logged is stored or buffered.
WorkerKeepsLines ==
    /\ stage = "waiting" => attempt < MaxAttempts
    /\ stage \in {"logging", "flushed", "finished"} =>
        attempt # 0 /\ Stored \cup buffer = Emitted

\* What is stored is the lines up to some number, and none after.
StoredUpTo == \E k \in 0..MaxLines : Stored = 0..k - 1

LogInv == TypeOK /\ WorkerKeepsLines /\ StoredIsPrefix /\ StoredUpTo

\* What the reader's properties rest on: its cursor counts the lines it shows; what
\* it shows of this attempt is stored until the sweep; a head that says this attempt
\* is over says so of a closed run, whose lines are settled unless it fails after;
\* and once told to stop, nothing of the attempt is past the cursor.
ReaderTypes ==
    /\ page \in {"idle", "head", "done"}
    /\ saw \in 0..attempt
    /\ view \in Seq((1..MaxAttempts) \X Seqs)
    /\ cursor = Len(view) - 1

ShownIsStored ==
    \A i \in DOMAIN view :
        /\ view[i][1] <= attempt
        /\ view[i][1] = attempt /\ ~pruned => view[i][2] \in Stored

ClosedIsSettled ==
    /\ page # "idle" /\ saw = attempt /\ attempt # 0 => closed
    /\ closed /\ failed # "after" => stage \notin {"logging", "flushed"}

DoneIsDone ==
    /\ page = "done" => saw # 0
    /\ page = "done" /\ saw = attempt /\ ~pruned /\ failed # "after" => Stored \subseteq 0..cursor

ReaderInv == LogInv /\ ReaderTypes /\ ViewHasNoGap /\ ShownIsStored /\ ClosedIsSettled /\ DoneIsDone

=============================================================================
