---------------------------- MODULE UploadWindow ----------------------------
(***************************************************************************)
(* The uploads of a settlement window: the upload door (POST /uploads),    *)
(* the uploads table (repository_m5.py), the object store behind it, and   *)
(* a run that assembles its input from them (materialize.py) and marks     *)
(* them consumed (worker._settle_uploads).                                 *)
(*                                                                         *)
(* An upload is two writes, the object and then the row.  A run reads its  *)
(* window's rows and downloads their bytes; then, unless the mode is       *)
(* "off", it does the same for the order files of one earlier window after *)
(* the other; then it consumes what is its own, and last comes the         *)
(* verdict.  Rejections, other uploads and the bucket's own expiry happen  *)
(* in between.                                                             *)
(*                                                                         *)
(* A definition marked "Variant" is a plausible mistake in the one after   *)
(* it, kept to show that a property notices; nothing in Spec uses it.      *)
(***************************************************************************)
EXTENDS Integers, FiniteSets

CONSTANTS
    Exports,        \* raw export files, by the sha256 of their bytes
    Windows,        \* (platform, period)
    Lends,          \* <<v, w>>: v is earlier than w, of its month and series
    Digests,        \* digests the sanitized rewrite of a file may have
    Requests,       \* the uploads that are made
    NoObject,       \* nothing is stored under a key
    MaxPosting,     \* bound on the uploads between their two writes
    MaxRuns         \* bound on the runs of one window

FileKinds == {"orders", "income"}

Upload == [export: Exports, window: Windows, kind: FileKinds, digest: Digests]

\* No window is earlier than itself.
ASSUME ConstantsAssumption ==
    /\ NoObject \notin Digests
    /\ Requests \subseteq Upload
    /\ \A v \in Windows : <<v, v>> \notin Lends
    /\ MaxPosting \in Nat
    /\ MaxRuns \in Nat

VARIABLES
    row,        \* the uploads row of each export; sha256 is unique
    object,     \* the object store: what is under the key of <<window, kind, export>>
    posting,    \* the uploads whose object is written and whose row is not
    run,        \* the latest run of each window, 0 for none
    stage,      \* how far the live run of a window has got
    status,     \* runs.status, "open" for NULL
    inputs,     \* the window's own uploads each run set out to read
    mode,       \* cross_window_order_backfill, as a run that lists lenders resolved it
    lenders,    \* the earlier windows it has still to ask
    asked,      \* the order files of the one it is downloading
    borrowed    \* the files of earlier windows each run has downloaded

storeVars == <<row, object, posting>>
lendVars == <<mode, lenders, asked, borrowed>>
runVars == <<run, stage, status, inputs, lendVars>>
vars == <<storeVars, runVars>>

RunId == 1..MaxRuns

\* None; rows read; every own file downloaded and verified; earlier windows to ask;
\* one of them answered; consumption recorded.
Stages == {"idle", "planned", "assembled", "borrowing", "fetching", "settled"}

BackfillModes == {"off", "report", "apply"}

\* A row: its columns as inserted, its state and the run that first consumed it.
Inserted(q) ==
    [state |-> "stored", window |-> q.window, kind |-> q.kind, digest |-> q.digest,
     firstRun |-> 0]
NoRow == [state |-> "none"]

Row == {NoRow} \cup [state: {"stored", "consumed", "rejected"}, window: Windows,
                     kind: FileKinds, digest: Digests, firstRun: 0..MaxRuns]

Keys == {<<q.window, q.kind, q.export>> : q \in Requests}
KeyOf(e) == <<row[e].window, row[e].kind, e>>

Init ==
    /\ row = [e \in Exports |-> NoRow]
    /\ object = [k \in Keys |-> NoObject]
    /\ posting = {}
    /\ run = [win \in Windows |-> 0]
    /\ stage = [win \in Windows |-> "idle"]
    /\ status = [win \in Windows |-> [r \in RunId |-> "none"]]
    /\ inputs = [win \in Windows |-> [r \in RunId |-> {}]]
    /\ mode = [win \in Windows |-> "off"]
    /\ lenders = [win \in Windows |-> {}]
    /\ asked = [win \in Windows |-> {}]
    /\ borrowed = [win \in Windows |-> [r \in RunId |-> {}]]

-----------------------------------------------------------------------------
(* The upload door.                                                        *)

\* The request passed the door's checks, was sanitized and put under its key.
\* The rewrite is a new workbook each time: its bytes depend on the column map
\* in force and on the clock.
PutObject(q) ==
    /\ Cardinality(posting) < MaxPosting
    /\ object' = [object EXCEPT ![<<q.window, q.kind, q.export>>] = q.digest]
    /\ posting' = posting \cup {q}
    /\ UNCHANGED <<row, runVars>>

\* Variant: only an upload that is still in a window counts as the same file.
SeenLive(e) == row[e].state \in {"stored", "consumed"}

Seen(e) == row[e] # NoRow

\* record_upload: insert, or DuplicateUpload and the object stays as just put.
RecordUpload(q) ==
    /\ q \in posting
    /\ posting' = posting \ {q}
    /\ row' = IF Seen(q.export) THEN row ELSE [row EXCEPT ![q.export] = Inserted(q)]
    /\ UNCHANGED <<object, runVars>>

\* The request dies between its two writes.
DropUpload(q) ==
    /\ q \in posting
    /\ posting' = posting \ {q}
    /\ UNCHANGED <<row, object, runVars>>

\* reject_upload: anything but a consumed file.
RejectUpload(e) ==
    /\ row[e].state \in {"stored", "rejected"}
    /\ row' = [row EXCEPT ![e].state = "rejected"]
    /\ UNCHANGED <<object, posting, runVars>>

\* The bucket's lifecycle rule removes an old object.
ExpireObject(e) ==
    /\ row[e] # NoRow
    /\ object' = [object EXCEPT ![KeyOf(e)] = NoObject]
    /\ UNCHANGED <<row, posting, runVars>>

-----------------------------------------------------------------------------
(* A run of the window.                                                    *)

\* A row that is in its window.
InWindow(e) == row[e].state \in {"stored", "consumed"}

\* uploads_for_window: both stored and consumed, so that a re-run reads the same.
UploadsFor(win) == {e \in Exports : InWindow(e) /\ row[e].window = win}

\* start_run, then materialize_window reads the window's rows.
PlanRun(win) ==
    /\ stage[win] = "idle"
    /\ run[win] < MaxRuns
    /\ run' = [run EXCEPT ![win] = @ + 1]
    /\ stage' = [stage EXCEPT ![win] = "planned"]
    /\ status' = [status EXCEPT ![win][run'[win]] = "open"]
    /\ inputs' = [inputs EXCEPT ![win][run'[win]] = UploadsFor(win)]
    /\ UNCHANGED <<storeVars, lendVars>>

Reading(win) == inputs[win][run[win]]

\* verify_digest, of what download_to found: the bytes the door recorded.
Verified(e) == object[KeyOf(e)] = row[e].digest

\* What materialize_window needs to succeed.  With no uploads there is nothing to
\* verify and the run reads the input directory.
Assembles(win) == \A e \in Reading(win) : Verified(e)

ReadUploads(win) ==
    /\ stage[win] = "planned"
    /\ Assembles(win)
    /\ stage' = [stage EXCEPT ![win] = "assembled"]
    /\ UNCHANGED <<storeVars, run, status, inputs, lendVars>>

Lenders(win) == {v \in Windows : <<v, win>> \in Lends}

\* month_windows: with a run or an upload.
Known(v) == run[v] # 0 \/ UploadsFor(v) # {}

\* materialize_predecessor_orders, of a run from uploads under the mode its contract
\* says: the earlier windows, those known by their roster's declaration alone among
\* them or not.
ListLenders(win) ==
    /\ stage[win] = "assembled"
    /\ \/ lenders' = lenders /\ mode' = mode
       \/ /\ Reading(win) # {}
          /\ \E known \in SUBSET Lenders(win), m \in {"report", "apply"} :
              /\ {v \in Lenders(win) : Known(v)} \subseteq known
              /\ lenders' = [lenders EXCEPT ![win] = known]
              /\ mode' = [mode EXCEPT ![win] = m]
    /\ stage' = [stage EXCEPT ![win] = "borrowing"]
    /\ UNCHANGED <<storeVars, run, status, inputs, asked, borrowed>>

\* The order files of the nearest window that is left.
AskLender(win, v) ==
    /\ stage[win] = "borrowing"
    /\ v \in lenders[win]
    /\ \A u \in lenders[win] : <<v, u>> \notin Lends
    /\ lenders' = [lenders EXCEPT ![win] = @ \ {v}]
    /\ asked' = [asked EXCEPT ![win] = {e \in UploadsFor(v) : row[e].kind = "orders"}]
    /\ stage' = [stage EXCEPT ![win] = "fetching"]
    /\ UNCHANGED <<storeVars, run, status, inputs, mode, borrowed>>

\* Their bytes.  Under "apply" a run cannot go on without one; under "report" it does,
\* also without the whole window when its files have one name or none.
FetchLender(win) ==
    /\ stage[win] = "fetching"
    /\ LET whole == {e \in asked[win] : Verified(e)}
       IN  \/ /\ mode[win] = "apply" => whole = asked[win]
              /\ borrowed' = [borrowed EXCEPT ![win][run[win]] = @ \cup whole]
           \/ mode[win] = "report" /\ UNCHANGED borrowed
    /\ asked' = [asked EXCEPT ![win] = {}]
    /\ stage' = [stage EXCEPT ![win] = "borrowing"]
    /\ UNCHANGED <<storeVars, run, status, inputs, mode, lenders>>

\* Variant: the update skips a file that is no longer stored.
ConsumedIfStored(win) ==
    [e \in Exports |-> IF e \in Reading(win) /\ row[e].state = "stored"
        THEN [row[e] EXCEPT !.state = "consumed", !.firstRun = run[win]]
        ELSE row[e]]

\* mark_uploads_consumed: by id, whatever has become of the row; the first run stays.
Consumed(win) ==
    [e \in Exports |-> IF e \in Reading(win)
        THEN [row[e] EXCEPT !.state = "consumed",
                            !.firstRun = IF @ = 0 THEN run[win] ELSE @]
        ELSE row[e]]

\* _settle_uploads of a run that produced a workbook: its own files, not those of
\* earlier windows.
SettleUploads(win) ==
    /\ stage[win] = "borrowing"
    /\ lenders[win] = {}
    /\ row' = Consumed(win)
    /\ stage' = [stage EXCEPT ![win] = "settled"]
    /\ UNCHANGED <<object, posting, run, status, inputs, lendVars>>

\* finish_run, finish_job.
ConcludeRun(win) ==
    /\ stage[win] = "settled"
    /\ status' = [status EXCEPT ![win][run[win]] = "produced"]
    /\ stage' = [stage EXCEPT ![win] = "idle"]
    /\ mode' = [mode EXCEPT ![win] = "off"]
    /\ UNCHANGED <<storeVars, run, inputs, lenders, asked, borrowed>>

\* The run hard-stops, the assembly is refused (also for two files of one name, and
\* under "apply" for those of an earlier window), execute() raises, or the worker dies
\* and the sweep closes the run.  There is no workbook for its files to be behind.
StopRun(win) ==
    /\ stage[win] # "idle"
    /\ status' = [status EXCEPT ![win][run[win]] = "hard_stop"]
    /\ stage' = [stage EXCEPT ![win] = "idle"]
    /\ inputs' = [inputs EXCEPT ![win][run[win]] = {}]
    /\ borrowed' = [borrowed EXCEPT ![win][run[win]] = {}]
    /\ lenders' = [lenders EXCEPT ![win] = {}]
    /\ asked' = [asked EXCEPT ![win] = {}]
    /\ mode' = [mode EXCEPT ![win] = "off"]
    /\ UNCHANGED <<storeVars, run>>

Next ==
    \/ \E q \in Requests : PutObject(q)
    \/ \E q \in posting : RecordUpload(q) \/ DropUpload(q)
    \/ \E e \in Exports : RejectUpload(e) \/ ExpireObject(e)
    \/ \E win \in Windows :
        \/ PlanRun(win)
        \/ ReadUploads(win)
        \/ ListLenders(win)
        \/ \E v \in Windows : AskLender(win, v)
        \/ FetchLender(win)
        \/ SettleUploads(win)
        \/ ConcludeRun(win)
        \/ StopRun(win)

Spec == Init /\ [][Next]_vars

-----------------------------------------------------------------------------
TypeOK ==
    /\ row \in [Exports -> Row]
    /\ object \in [Keys -> Digests \cup {NoObject}]
    /\ posting \subseteq Requests
    /\ run \in [Windows -> 0..MaxRuns]
    /\ stage \in [Windows -> Stages]
    /\ status \in [Windows -> [RunId -> {"none", "open", "produced", "hard_stop"}]]
    /\ inputs \in [Windows -> [RunId -> SUBSET Exports]]
    /\ mode \in [Windows -> BackfillModes]
    /\ lenders \in [Windows -> SUBSET Windows]
    /\ asked \in [Windows -> SUBSET Exports]
    /\ borrowed \in [Windows -> [RunId -> SUBSET Exports]]

Produced(win, r) == status[win][r] = "produced"

\* The double-pull control: no export is one of the inputs of two windows that have a
\* workbook, also when it was rejected from one under a run that had read it.  What
\* two windows have both read is an order export that a later one borrowed from the
\* earlier one it was uploaded to; an income export is never read by two.
OneWindowPerExport ==
    \A v, w \in Windows, q, r \in RunId : v # w /\ Produced(v, q) /\ Produced(w, r) =>
        /\ inputs[v][q] \cap inputs[w][r] = {}
        /\ \A e \in (inputs[v][q] \cup borrowed[v][q]) \cap (inputs[w][r] \cup borrowed[w][r]) :
            /\ row[e].kind = "orders"
            /\ \A u \in {v, w} \ {row[e].window} : row[e].window \in Lenders(u)

\* Every file of the window's own behind a workbook is on record as consumed, by that
\* run or by an earlier one of its window, whatever was uploaded or rejected meanwhile
\* and whoever borrowed the file before.  A borrowed file is on no record of the run.
ReadIsAttributed ==
    \A win \in Windows, r \in RunId : Produced(win, r) =>
        \A e \in inputs[win][r] :
            row[e].state = "consumed" /\ row[e].window = win /\ row[e].firstRun \in 1..r

\* "A file a run has read cannot be un-read": a consumed upload stays consumed,
\* and the run that first consumed it stays on the row.  Of a file that was only
\* borrowed the sentence does not hold.
ConsumedIsForever ==
    [][\A e \in Exports : row[e].state = "consumed" =>
        row'[e].state = "consumed" /\ row'[e].firstRun = row[e].firstRun]_vars

-----------------------------------------------------------------------------
(* What they rest on.                                                      *)

\* A run under way has a number.
LiveRunHasNumber == \A win \in Windows : stage[win] # "idle" => run[win] \in RunId

\* What a run reads as its own are rows of its window, which a row never leaves.
ReadsItsWindow ==
    \A win \in Windows, r \in RunId : \A e \in inputs[win][r] :
        row[e] # NoRow /\ row[e].window = win

\* What it borrows, or is about to, are order files of earlier windows.
BorrowsFromEarlier ==
    \A win \in Windows :
        /\ lenders[win] \subseteq Lenders(win)
        /\ \A e \in asked[win] \cup UNION {borrowed[win][r] : r \in RunId} :
            /\ row[e] # NoRow
            /\ row[e].kind = "orders"
            /\ row[e].window \in Lenders(win)

\* A row names a run of its window as its first once it is consumed, never a later
\* one than the window has had.
FirstRunIsPast ==
    \A e \in Exports : row[e] # NoRow =>
        /\ row[e].firstRun <= run[row[e].window]
        /\ row[e].state = "consumed" => row[e].firstRun # 0

\* What a run has settled is on record as consumed, by it or by one before it.
SettledIsConsumed ==
    \A win \in Windows : stage[win] = "settled" =>
        \A e \in Reading(win) : row[e].state = "consumed"

WindowInv ==
    /\ TypeOK
    /\ LiveRunHasNumber
    /\ ReadsItsWindow
    /\ BorrowsFromEarlier
    /\ FirstRunIsPast
    /\ SettledIsConsumed
    /\ ReadIsAttributed

=============================================================================
