--------------------------- MODULE RunLogMirrorProofs ---------------------------
(***************************************************************************)
(* Proofs about RunLogMirror, for any number of attempts and lines, any    *)
(* batch and page size and any failures of flushes and polls: what         *)
(* run_log_lines holds of a run, and what a page that polls it shows.      *)
(***************************************************************************)
EXTENDS RunLogMirror, SequenceTheorems, FiniteSetTheorems, TLAPS

\* The sequence numbers there are, and those emitted so far.
LEMMA SeqFacts ==
    ASSUME TypeOK
    PROVE  /\ \A n : n \in Seqs <=> n \in Nat /\ n < MaxLines
           /\ \A n : n \in Emitted <=> n \in Nat /\ n < nextSeq
           /\ \A n : n \in Stored <=> n \in Seqs /\ rows[n] # 0
           /\ nextSeq \in Nat /\ nextSeq <= MaxLines
BY ConstantsAssumption DEF TypeOK, Seqs, Emitted, Stored

\* Before anything has run.
LEMMA InitLogInv == Init => LogInv
<1> SUFFICES ASSUME Init PROVE LogInv
  OBVIOUS
<1>1. TypeOK
  <2>1. closed \in BOOLEAN /\ pruned \in BOOLEAN
    BY DEF Init
  <2>2. QED
    BY <2>1, ConstantsAssumption DEF Init, TypeOK, Stages, NoRows
<1>2. Stored = {}
  BY DEF Init, NoRows, Stored
<1>3. StoredIsPrefix /\ WorkerKeepsLines /\ StoredUpTo
  <2>1. Stored = 0..0 - 1
    BY <1>2
  <2>2. QED
    BY <1>2, <2>1, ConstantsAssumption DEF Init, StoredIsPrefix, WorkerKeepsLines, StoredUpTo
<1>4. QED
  BY <1>1, <1>3 DEF LogInv

\* A flush stores its batch or leaves the rows as they were, and keeps what it did not
\* see stored: if what is stored and the batch are what was emitted, they still are.
LEMMA FlushKeeps ==
    ASSUME LogInv, attempt \in 1..MaxAttempts, NEW batch \in SUBSET Seqs, NEW top \in 0..MaxLines,
           Stored \cup batch = 0..top - 1,
           \/ Flush(batch)
           \/ buffer' = batch /\ rows' = rows
    PROVE  /\ rows' \in [Seqs -> 0..MaxAttempts] /\ buffer' \subseteq Seqs
           /\ Stored' \cup buffer' = 0..top - 1
           /\ \A n \in Stored' : rows'[n] = attempt /\ (0..n) \subseteq Stored'
           /\ Stored \subseteq Stored' /\ StoredUpTo'
<1> USE ConstantsAssumption DEF LogInv, TypeOK, StoredIsPrefix
<1>1. CASE rows' = rows /\ buffer' = batch
  BY <1>1 DEF Stored, StoredUpTo
<1>2. CASE rows' = Inserted(batch) /\ buffer' \in {{}, batch}
  <2>1. rows' \in [Seqs -> 0..MaxAttempts]
    BY <1>2 DEF Inserted
  <2>2. Stored' = Stored \cup batch
    BY <1>2 DEF Inserted, Stored
  <2>3. \A n \in Stored' : rows'[n] = attempt
    BY <1>2 DEF Inserted, Stored
  <2>4. \A n \in 0..top - 1 : (0..n) \subseteq 0..top - 1
    OBVIOUS
  <2>5. StoredUpTo'
    BY <2>2 DEF StoredUpTo
  <2>6. QED
    BY <1>2, <2>1, <2>2, <2>3, <2>4, <2>5
<1>3. QED
  BY <1>1, <1>2 DEF Flush

\* Each step preserves the invariant.
LEMMA StepLogInv == LogInv /\ [Next]_vars => LogInv'
<1> SUFFICES ASSUME LogInv, [Next]_vars PROVE LogInv'
  OBVIOUS
<1> USE ConstantsAssumption
<1>0. TypeOK /\ StoredIsPrefix /\ WorkerKeepsLines /\ StoredUpTo
  BY DEF LogInv
<1>1. CASE StartRun
  <2>1. Stored' = {}
    BY <1>1 DEF StartRun, RestartedRows, NoRows, Stored
  <2>2. Emitted' = {} /\ buffer' = {}
    BY <1>1 DEF StartRun, Emitted
  <2>3. attempt' \in 1..MaxAttempts
    BY <1>0, <1>1 DEF StartRun, TypeOK, WorkerKeepsLines
  <2>4. TypeOK'
    <3>1. closed' \in BOOLEAN /\ pruned' \in BOOLEAN
      BY <1>1 DEF StartRun
    <3>2. QED
      BY <1>1, <2>3, <3>1 DEF StartRun, RestartedRows, NoRows, TypeOK, Stages
  <2>5. StoredUpTo'
    <3>1. Stored' = 0..0 - 1
      BY <2>1
    <3>2. QED
      BY <3>1 DEF StoredUpTo
  <2>6. QED
    BY <1>1, <2>1, <2>2, <2>3, <2>4, <2>5 DEF StartRun, LogInv, StoredIsPrefix, WorkerKeepsLines
<1>2. CASE Add
  <2> DEFINE batch == buffer \cup {nextSeq}
  <2>1. attempt \in 1..MaxAttempts /\ nextSeq \in 0..MaxLines - 1 /\ nextSeq' = nextSeq + 1
    BY <1>0, <1>2 DEF Add, TypeOK, WorkerKeepsLines
  <2>2. batch \in SUBSET Seqs /\ Stored \cup batch = 0..(nextSeq + 1) - 1
    BY <1>0, <1>2, <2>1 DEF Add, TypeOK, WorkerKeepsLines, Emitted, Seqs
  <2>3. Flush(batch) \/ (buffer' = batch /\ rows' = rows)
    BY <1>2 DEF Add
  <2>4. nextSeq + 1 \in 0..MaxLines
    BY <2>1
  <2> HIDE DEF batch
  <2>5. /\ rows' \in [Seqs -> 0..MaxAttempts] /\ buffer' \subseteq Seqs
        /\ Stored' \cup buffer' = 0..(nextSeq + 1) - 1
        /\ \A n \in Stored' : rows'[n] = attempt /\ (0..n) \subseteq Stored'
        /\ StoredUpTo'
    BY <2>1, <2>2, <2>3, <2>4, FlushKeeps
  <2>6. QED
    BY <1>0, <1>2, <2>1, <2>5 DEF Add, LogInv, TypeOK, StoredIsPrefix, WorkerKeepsLines, Emitted
<1>3. CASE FlushAll
  <2>1. attempt \in 1..MaxAttempts /\ nextSeq \in 0..MaxLines /\ nextSeq' = nextSeq
        /\ buffer \in SUBSET Seqs /\ Stored \cup buffer = 0..nextSeq - 1 /\ Flush(buffer)
    BY <1>0, <1>3 DEF FlushAll, TypeOK, WorkerKeepsLines, Emitted
  <2>2. /\ rows' \in [Seqs -> 0..MaxAttempts] /\ buffer' \subseteq Seqs
        /\ Stored' \cup buffer' = 0..nextSeq - 1
        /\ \A n \in Stored' : rows'[n] = attempt /\ (0..n) \subseteq Stored'
        /\ StoredUpTo'
    BY <2>1, FlushKeeps
  <2>3. QED
    BY <1>0, <1>3, <2>1, <2>2
    DEF FlushAll, LogInv, TypeOK, Stages, StoredIsPrefix, WorkerKeepsLines, Emitted
<1>4. CASE Prune
  <2>1. Stored' = {}
    BY <1>4 DEF Prune, NoRows, Stored
  <2>2. StoredUpTo'
    <3>1. Stored' = 0..0 - 1
      BY <2>1
    <3>2. QED
      BY <3>1 DEF StoredUpTo
  <2>3. QED
    BY <1>0, <1>4, <2>1, <2>2 DEF Prune, NoRows, LogInv, TypeOK, StoredIsPrefix, WorkerKeepsLines
<1>5. CASE FinishRun \/ FinishJob \/ Raise \/ Crash \/ Reclaim
  <2>1. /\ UNCHANGED <<attempt, rows, nextSeq>> /\ Stored' = Stored /\ Emitted' = Emitted
        /\ TypeOK'
    BY <1>0, <1>5 DEF FinishRun, FinishJob, Raise, Crash, Reclaim, AfterLoss, TypeOK, Stages, Stored, Emitted
  <2>2. WorkerKeepsLines'
    BY <1>0, <1>5, <2>1 DEF FinishRun, FinishJob, Raise, Crash, Reclaim, AfterLoss, TypeOK, WorkerKeepsLines
  <2>3. QED
    BY <1>0, <2>1, <2>2 DEF LogInv, StoredIsPrefix, WorkerKeepsLines, StoredUpTo
<1>6. CASE UNCHANGED producerVars
  BY <1>6 DEF producerVars, LogInv, TypeOK, StoredIsPrefix, WorkerKeepsLines, StoredUpTo, Stored, Emitted
<1>7. QED
  BY <1>1, <1>2, <1>3, <1>4, <1>5, <1>6
  DEF Next, WorkerStep, ReadHead, ReadLines, PollFails, vars

\* The invariant holds of a run's log for ever.
THEOREM LogInvariant == Spec => []LogInv
<1>1. QED
  BY InitLogInv, StepLogInv, PTL DEF Spec

\* The producer's variables keep their types.
THEOREM TypeCorrect == Spec => []TypeOK
<1>1. LogInv => TypeOK
  BY DEF LogInv
<1>2. QED
  BY <1>1, LogInvariant, PTL

\* "seq is producer-assigned and gapless", for any lines, batches, failures and retries.
THEOREM Gapless == Spec => []StoredIsPrefix
<1>1. LogInv => StoredIsPrefix
  BY DEF LogInv
<1>2. QED
  BY <1>1, LogInvariant, PTL

-----------------------------------------------------------------------------
(* The reader.                                                             *)

LEMMA MinOfTwo ==
    ASSUME NEW a \in Int, NEW b \in Int
    PROVE  Min({a, b}) = IF a < b THEN a ELSE b
<1>1. \A x \in {a, b} : (\A y \in {a, b} : x <= y) <=> x = IF a < b THEN a ELSE b
  OBVIOUS
<1>2. QED
  BY <1>1 DEF Min

\* A page goes on from the cursor without a gap, and a short one gets to the last line.
LEMMA PageFollows ==
    ASSUME LogInv, cursor \in Int, cursor >= -1
    PROVE  \E n \in Nat :
              /\ n <= Limit
              /\ Page = [i \in 1..n |-> cursor + i]
              /\ \A i \in 1..n : cursor + i \in Stored
              /\ n < Limit => \A m \in Stored : m <= cursor + n
<1> USE ConstantsAssumption
<1>1. PICK k \in 0..MaxLines : Stored = 0..k - 1
  BY DEF LogInv, StoredUpTo
<1> DEFINE after == {n \in Stored : n > cursor}
           Rank(n) == Cardinality({m \in after : m <= n})
           size == Min({Limit, Cardinality(after)})
<1>2. after = cursor + 1..k - 1 /\ k \in Nat
  BY <1>1
<1>3. Cardinality(after) = IF cursor + 1 > k - 1 THEN 0 ELSE (k - 1) - (cursor + 1) + 1
  <2>1. cursor + 1 \in Int /\ k - 1 \in Int
    BY <1>2
  <2> HIDE DEF after
  <2>2. QED
    BY <1>2, <2>1, FS_Interval
<1>4. size = IF Limit < Cardinality(after) THEN Limit ELSE Cardinality(after)
  BY <1>3, MinOfTwo
<1>5. \A n \in after : Rank(n) = n - cursor
  <2>1. SUFFICES ASSUME NEW n \in after PROVE Rank(n) = n - cursor
    OBVIOUS
  <2>2. {m \in after : m <= n} = cursor + 1..n
    BY <1>2, <2>1
  <2>3. n \in Int /\ n >= cursor + 1
    BY <1>2, <2>1
  <2>4. cursor + 1 \in Int
    OBVIOUS
  <2>5. Cardinality(cursor + 1..n) = IF cursor + 1 > n THEN 0 ELSE n - (cursor + 1) + 1
    BY <2>3, <2>4, FS_Interval
  <2>6. Rank(n) = Cardinality(cursor + 1..n)
    BY <2>2, Zenon
  <2> HIDE DEF Rank, after
  <2>7. QED
    BY <2>3, <2>5, <2>6
<1>6. \A i \in 1..size : cursor + i \in after
  BY <1>2, <1>3, <1>4
<1>7. \A i \in 1..size : (CHOOSE n \in after : Rank(n) = i) = cursor + i
  <2>1. SUFFICES ASSUME NEW i \in 1..size PROVE (CHOOSE n \in after : Rank(n) = i) = cursor + i
    OBVIOUS
  <2>2. \A n \in after : Rank(n) = i <=> n = cursor + i
    <3> HIDE DEF Rank
    <3>1. QED
      BY <1>2, <1>5, <2>1
  <2>3. cursor + i \in after
    BY <1>6
  <2> HIDE DEF Rank, after
  <2>4. QED
    BY <2>2, <2>3
<1>8. Page = [i \in 1..size |-> cursor + i]
  BY <1>7 DEF Page
<1>9. size \in Nat /\ size <= Limit /\ (size < Limit => size = Cardinality(after))
  BY <1>3, <1>4
<1>10. size < Limit => \A m \in Stored : m <= cursor + size
  BY <1>1, <1>3, <1>9
<1>11. \A i \in 1..size : cursor + i \in Stored
  BY <1>6
<1> HIDE DEF size, after
<1>12. QED
  BY <1>8, <1>9, <1>10, <1>11

\* Before anything has run the reader shows nothing.
LEMMA InitReaderInv == Init => ReaderInv
<1> SUFFICES ASSUME Init PROVE ReaderInv
  OBVIOUS
<1>1. LogInv
  BY InitLogInv
<1>2. ReaderTypes
  BY ConstantsAssumption DEF Init, ReaderTypes
<1>3. ViewHasNoGap /\ ShownIsStored
  BY DEF Init, ViewHasNoGap, ShownIsStored
<1>4. ClosedIsSettled /\ DoneIsDone
  BY DEF Init, ClosedIsSettled, DoneIsDone
<1>5. QED
  BY <1>1, <1>2, <1>3, <1>4 DEF ReaderInv

\* What a step of the worker leaves true of what the reader has: an attempt's lines
\* are added to, until it is settled, and go only with the sweep or a retry.
LEMMA ProducerStep ==
    ASSUME LogInv, ClosedIsSettled,
           WorkerStep \/ Raise \/ Crash \/ Reclaim \/ Prune
    PROVE  /\ UNCHANGED readerVars
           /\ \/ attempt' = attempt + 1 /\ ~closed' /\ attempt' \in 1..MaxAttempts /\ failed' = "no" /\ stage' = "logging"
              \/ /\ attempt' = attempt
                 /\ closed => closed'
                 /\ ~pruned' => ~pruned /\ Stored \subseteq Stored'
                 /\ closed /\ ~pruned' /\ failed' # "after" => failed # "after" /\ Stored' = Stored
                 /\ closed' /\ failed' # "after" => stage' \notin {"logging", "flushed"}
<1> USE ConstantsAssumption
<1>0. TypeOK /\ WorkerKeepsLines
  BY DEF LogInv
<1>1. CASE StartRun
  BY <1>0, <1>1 DEF StartRun, TypeOK, WorkerKeepsLines
<1>2. CASE Add
  <2> DEFINE batch == buffer \cup {nextSeq}
  <2>1. rows' = rows \/ rows' = Inserted(batch)
    BY <1>2 DEF Add, Flush
  <2>2. Stored \subseteq Stored'
    BY <1>0, <2>1 DEF Inserted, Stored, TypeOK
  <2>3. QED
    BY <1>2, <2>2 DEF Add, ClosedIsSettled
<1>3. CASE FlushAll
  <2>1. rows' = rows \/ rows' = Inserted(buffer)
    BY <1>3 DEF FlushAll, Flush
  <2>2. Stored \subseteq Stored'
    BY <1>0, <2>1 DEF Inserted, Stored, TypeOK
  <2>3. QED
    BY <1>3, <2>2 DEF FlushAll, ClosedIsSettled
<1>4. CASE Prune
  BY <1>4 DEF Prune, ClosedIsSettled
<1>5. CASE FinishRun \/ FinishJob \/ Raise \/ Crash \/ Reclaim
  <2>1. Stored' = Stored /\ pruned' = pruned
    BY <1>5 DEF FinishRun, FinishJob, Raise, Crash, Reclaim, Stored
  <2>2. QED
    BY <1>0, <1>5, <2>1
    DEF FinishRun, FinishJob, Raise, Crash, Reclaim, AfterLoss, ClosedIsSettled, TypeOK, readerVars
<1>6. QED
  BY <1>1, <1>2, <1>3, <1>4, <1>5 DEF WorkerStep

\* Each step preserves what the reader has.
LEMMA StepReaderInv == ReaderInv /\ [Next]_vars => ReaderInv'
<1> SUFFICES ASSUME ReaderInv, [Next]_vars PROVE ReaderInv'
  OBVIOUS
<1> USE ConstantsAssumption
<1>0. LogInv /\ ReaderTypes /\ ViewHasNoGap /\ ShownIsStored /\ ClosedIsSettled /\ DoneIsDone
  BY DEF ReaderInv
<1>1. LogInv' /\ attempt \in 0..MaxAttempts
  BY <1>0, StepLogInv DEF LogInv, TypeOK
<1>2. CASE WorkerStep \/ Raise \/ Crash \/ Reclaim \/ Prune
  <2>1. /\ UNCHANGED readerVars
        /\ \/ attempt' = attempt + 1 /\ ~closed' /\ attempt' \in 1..MaxAttempts /\ failed' = "no" /\ stage' = "logging"
           \/ /\ attempt' = attempt
              /\ closed => closed'
              /\ ~pruned' => ~pruned /\ Stored \subseteq Stored'
              /\ closed /\ ~pruned' /\ failed' # "after" => failed # "after" /\ Stored' = Stored
              /\ closed' /\ failed' # "after" => stage' \notin {"logging", "flushed"}
    BY <1>0, <1>2, ProducerStep
  <2>2. ReaderTypes' /\ ViewHasNoGap'
    BY <1>0, <1>1, <2>1 DEF ReaderTypes, ViewHasNoGap, readerVars
  <2>3. ShownIsStored'
    <3>1. \A i \in DOMAIN view : view[i][1] \in Int
      BY <1>0 DEF ReaderTypes
    <3>2. QED
      BY <1>0, <1>1, <2>1, <3>1 DEF ShownIsStored, readerVars
  <2>4. ClosedIsSettled' /\ DoneIsDone'
    BY <1>0, <1>1, <2>1 DEF ClosedIsSettled, DoneIsDone, ReaderTypes, readerVars
  <2>5. QED
    BY <1>1, <2>2, <2>3, <2>4 DEF ReaderInv
<1>3. CASE ReadLines
  <2>1. PICK n \in Nat : /\ n <= Limit
                         /\ Page = [i \in 1..n |-> cursor + i]
                         /\ \A i \in 1..n : cursor + i \in Stored
                         /\ n < Limit => \A m \in Stored : m <= cursor + n
    BY <1>0, PageFollows DEF ReaderTypes
  <2> DEFINE shown == [i \in 1..n |-> <<attempt, cursor + i>>]
  <2>2. UNCHANGED producerVars /\ saw' = saw /\ page = "head"
    BY <1>3 DEF ReadLines
  <2>3. \A i \in 1..n : rows[cursor + i] = attempt /\ cursor + i \in Seqs /\ attempt # 0
    BY <1>0, <2>1 DEF LogInv, StoredIsPrefix, Stored
  <2>4. [i \in DOMAIN Page |-> <<rows[Page[i]], Page[i]>>] = shown
    BY <2>1, <2>3
  <2>5. view' = view \o shown
    BY <1>3, <2>4 DEF ReadLines
  <2>6. shown \in Seq((1..MaxAttempts) \X Seqs) /\ Len(shown) = n
    BY <1>1, <2>3
  <2>7. view \in Seq((1..MaxAttempts) \X Seqs) /\ cursor = Len(view) - 1 /\ Len(view) \in Nat
    BY <1>0 DEF ReaderTypes
  <2>8. /\ view' \in Seq((1..MaxAttempts) \X Seqs)
        /\ Len(view') = Len(view) + n
        /\ \A i \in 1..Len(view) : view'[i] = view[i]
        /\ \A i \in Len(view) + 1..Len(view) + n : view'[i] = <<attempt, i - 1>>
    <3> HIDE DEF shown
    <3>1. /\ view' \in Seq((1..MaxAttempts) \X Seqs)
          /\ Len(view') = Len(view) + n
          /\ \A i \in 1..Len(view) + n :
                view'[i] = IF i <= Len(view) THEN view[i] ELSE shown[i - Len(view)]
      BY <2>5, <2>6, <2>7, ConcatProperties
    <3>2. \A i \in Len(view) + 1..Len(view) + n : shown[i - Len(view)] = <<attempt, i - 1>>
      BY <2>7 DEF shown
    <3>3. \A i \in Len(view) + 1..Len(view) + n : view'[i] = shown[i - Len(view)]
      BY <2>7, <3>1
    <3>4. \A i \in 1..Len(view) : view'[i] = view[i]
      BY <2>7, <3>1
    <3>5. QED
      BY <3>1, <3>2, <3>3, <3>4
  <2> HIDE DEF shown
  <2>9. cursor' = cursor + n
    <3>1. Len(Page) = n /\ (Page = <<>> <=> n = 0) /\ (n # 0 => Page[n] = cursor + n)
      BY <2>1
    <3>2. cursor' = IF Page = <<>> THEN cursor ELSE Page[Len(Page)]
      BY <1>3 DEF ReadLines, Last
    <3>3. QED
      BY <2>7, <3>1, <3>2
  <2>10. page' \in {"idle", "done"} /\ (page' = "done" => saw # 0 /\ n < Limit)
    BY <1>3, <2>1 DEF ReadLines, Complete
  <2>11. ReaderTypes'
    BY <1>0, <2>2, <2>7, <2>8, <2>9, <2>10 DEF ReaderTypes, producerVars
  <2>12. DOMAIN view = 1..Len(view) /\ DOMAIN view' = 1..Len(view) + n
    BY <2>7, <2>8
  <2>13. ViewHasNoGap'
    <3>1. \A i \in 1..Len(view) : view'[i][2] = i - 1
      BY <1>0, <2>8, <2>12 DEF ViewHasNoGap
    <3>2. \A i \in Len(view) + 1..Len(view) + n : view'[i][2] = i - 1
      BY <2>8
    <3>3. \A i \in 1..Len(view) + n : i \in 1..Len(view) \/ i \in Len(view) + 1..Len(view) + n
      BY <2>7
    <3>4. QED
      BY <2>12, <3>1, <3>2, <3>3 DEF ViewHasNoGap
  <2>14. Stored' = Stored
    BY <2>2 DEF Stored, producerVars
  <2>15. ShownIsStored'
    <3>1. \A i \in 1..Len(view) : /\ view'[i][1] <= attempt
                                  /\ view'[i][1] = attempt /\ ~pruned => view'[i][2] \in Stored
      BY <1>0, <2>8, <2>12 DEF ShownIsStored
    <3>2. \A i \in Len(view) + 1..Len(view) + n : view'[i][1] = attempt /\ view'[i][2] \in Stored
      <4>1. SUFFICES ASSUME NEW i \in Len(view) + 1..Len(view) + n PROVE i - 1 \in Stored
        BY <2>8
      <4>2. i - 1 - cursor \in 1..n /\ cursor + (i - 1 - cursor) = i - 1
        BY <2>7, <4>1
      <4>3. QED
        BY <2>1, <4>2
    <3>3. \A i \in 1..Len(view) + n : i \in 1..Len(view) \/ i \in Len(view) + 1..Len(view) + n
      BY <2>7
    <3>4. QED
      BY <1>1, <2>2, <2>12, <2>14, <3>1, <3>2, <3>3 DEF ShownIsStored, producerVars
  <2>16. ClosedIsSettled'
    BY <1>0, <2>2, <2>10 DEF ClosedIsSettled, producerVars
  <2>17. DoneIsDone'
    BY <2>1, <2>2, <2>7, <2>9, <2>10, <2>14 DEF DoneIsDone, producerVars, Stored, Seqs
  <2>18. QED
    BY <1>1, <2>11, <2>13, <2>15, <2>16, <2>17 DEF ReaderInv
<1>4. CASE ReadHead \/ PollFails
  <2>1. Stored' = Stored /\ UNCHANGED <<producerVars, cursor, view>>
    BY <1>4 DEF ReadHead, PollFails, producerVars, Stored
  <2>2. ReaderTypes' /\ ViewHasNoGap' /\ ShownIsStored'
    BY <1>0, <1>1, <1>4, <2>1
    DEF ReadHead, PollFails, ReaderTypes, ViewHasNoGap, ShownIsStored, producerVars
  <2>3. ClosedIsSettled' /\ DoneIsDone'
    BY <1>0, <1>4, <2>1 DEF ReadHead, PollFails, ClosedIsSettled, DoneIsDone, producerVars
  <2>4. QED
    BY <1>1, <2>2, <2>3 DEF ReaderInv
<1>5. CASE UNCHANGED vars
  <2>1. Stored' = Stored
    BY <1>5 DEF vars, producerVars, Stored
  <2>2. QED
    BY <1>0, <1>1, <1>5, <2>1
    DEF vars, producerVars, readerVars, ReaderInv, ReaderTypes, ViewHasNoGap, ShownIsStored,
        ClosedIsSettled, DoneIsDone
<1>6. QED
  BY <1>2, <1>3, <1>4, <1>5 DEF Next

\* The invariant of the run's log and of its reader.
THEOREM ReaderInvariant == Spec => []ReaderInv
<1>1. QED
  BY InitReaderInv, StepReaderInv, PTL DEF Spec

\* The reader shows the lines numbered 0, 1, 2 and so on, each once, for any pages,
\* failed polls, retries and sweeps.
THEOREM NoGapShown == Spec => []ViewHasNoGap
<1>1. ReaderInv => ViewHasNoGap
  BY DEF ReaderInv
<1>2. QED
  BY <1>1, ReaderInvariant, PTL

\* "complete says stop", and may: a reader told so of the attempt it has shown all
\* along has shown every line of it, the sweep and a late failure excepted.
THEOREM CompleteIsAll == Spec => []CompleteMeansAll
<1>1. ASSUME ReaderInv PROVE CompleteMeansAll
  <2>1. SUFFICES ASSUME page = "done", saw = attempt, ~pruned, failed # "after",
                        \A i \in DOMAIN view : view[i][1] = attempt
                 PROVE  Len(view) = Cardinality(Stored)
    BY DEF CompleteMeansAll
  <2>2. view \in Seq((1..MaxAttempts) \X Seqs) /\ cursor = Len(view) - 1
    BY <1>1 DEF ReaderInv, ReaderTypes
  <2>3. Stored \subseteq 0..Len(view) - 1
    BY <1>1, <2>1, <2>2 DEF ReaderInv, DoneIsDone
  <2>4. \A i \in 1..Len(view) : view[i][2] = i - 1 /\ view[i][2] \in Stored
    <3>1. ViewHasNoGap /\ ShownIsStored /\ DOMAIN view = 1..Len(view)
      BY <1>1, <2>2 DEF ReaderInv
    <3>2. QED
      BY <2>1, <3>1 DEF ViewHasNoGap, ShownIsStored
  <2>5. 0..Len(view) - 1 \subseteq Stored
    <3>1. SUFFICES ASSUME NEW n \in 0..Len(view) - 1 PROVE n \in Stored
      OBVIOUS
    <3>2. n + 1 \in 1..Len(view) /\ (n + 1) - 1 = n
      BY <2>2
    <3>3. QED
      BY <2>4, <3>2
  <2>6. Stored = 0..Len(view) - 1 /\ Len(view) \in Nat
    <3>1. Len(view) \in Nat
      BY <2>2
    <3>2. QED
      BY <2>3, <2>5, <3>1
  <2>7. Cardinality(0..Len(view) - 1) = Len(view)
    <3> DEFINE last == Len(view) - 1
    <3>1. 0 \in Int /\ last \in Int /\ last >= 0 - 1
      BY <2>6
    <3>2. last - 0 + 1 = Len(view) /\ (0 > last => Len(view) = 0)
      BY <2>6
    <3> HIDE DEF last
    <3>3. Cardinality(0..last) = IF 0 > last THEN 0 ELSE last - 0 + 1
      BY <3>1, FS_Interval
    <3>4. Cardinality(0..last) = Len(view)
      BY <3>1, <3>2, <3>3
    <3>5. QED
      BY <3>4 DEF last
  <2>8. QED
    BY <2>6, <2>7
<1>2. QED
  BY <1>1, ReaderInvariant, PTL

=============================================================================
