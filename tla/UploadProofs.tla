---------------------------- MODULE UploadProofs ----------------------------
(***************************************************************************)
(* Proofs about the uploads.                                               *)
(*                                                                         *)
(* First UploadWindow, for any numbers of files, windows, uploads in       *)
(* flight and runs: a window's own files behind a workbook are on record   *)
(* as consumed, for good, no file is an input of two windows, and what     *)
(* two have read is an order file the earlier one lent.                    *)
(*                                                                         *)
(* Then UploadDoor, for any deployments: a window that looks ready runs,   *)
(* lenders are whole, and the index is of the file.                        *)
(***************************************************************************)
EXTENDS UploadWindow, UploadDoor, FiniteSetTheorems, TLAPS

\* The numbers of runs, and what a row that is there looks like.
LEMMA RunIdFacts == RunId \subseteq Nat /\ 0 \notin RunId
BY ConstantsAssumption DEF RunId

LEMMA RowFacts ==
    ASSUME NEW q \in Row
    PROVE  /\ q = NoRow => q.state = "none"
           /\ q # NoRow => q \in [state: {"stored", "consumed", "rejected"}, window: Windows,
                                 kind: FileKinds, digest: Digests, firstRun: 0..MaxRuns]
BY DEF Row, NoRow

\* Before anything is uploaded.
LEMMA InitWindowInv == Init => WindowInv
<1> SUFFICES ASSUME Init PROVE WindowInv
  OBVIOUS
<1> USE ConstantsAssumption, RunIdFacts DEF Init
<1>1. TypeOK
  BY DEF TypeOK, Row, Stages, BackfillModes
<1>2. LiveRunHasNumber /\ ReadsItsWindow /\ BorrowsFromEarlier
  BY DEF LiveRunHasNumber, ReadsItsWindow, BorrowsFromEarlier
<1>3. FirstRunIsPast /\ SettledIsConsumed /\ ReadIsAttributed
  BY DEF FirstRunIsPast, SettledIsConsumed, ReadIsAttributed, Produced
<1>4. QED
  BY <1>1, <1>2, <1>3 DEF WindowInv

\* What runs have read and borrowed stays what it is while rows only change their
\* state and their first run.
LEMMA RowsStay ==
    ASSUME ReadsItsWindow, BorrowsFromEarlier, TypeOK, UNCHANGED <<inputs, lendVars>>,
           \A e \in Exports : row[e] # NoRow =>
               row'[e] # NoRow /\ row'[e].window = row[e].window /\ row'[e].kind = row[e].kind
    PROVE  ReadsItsWindow' /\ BorrowsFromEarlier'
<1>1. ReadsItsWindow'
  BY DEF ReadsItsWindow, TypeOK
<1>2. BorrowsFromEarlier'
  <2> SUFFICES ASSUME NEW win \in Windows,
                      NEW e \in asked[win] \cup UNION {borrowed[win][r] : r \in RunId}
               PROVE  row'[e] # NoRow /\ row'[e].kind = "orders" /\ row'[e].window \in Lenders(win)
    BY DEF BorrowsFromEarlier, lendVars, Lenders
  <2>1. e \in Exports
    BY DEF TypeOK
  <2>2. row[e] # NoRow /\ row[e].kind = "orders" /\ row[e].window \in Lenders(win)
    BY DEF BorrowsFromEarlier
  <2>3. QED
    BY <2>1, <2>2
<1>3. QED
  BY <1>1, <1>2

\* Nor does a run come to have other borrowed files than it had or asked for.
LEMMA BorrowsLess ==
    ASSUME BorrowsFromEarlier, UNCHANGED row,
           \A w \in Windows : lenders'[w] \subseteq Lenders(w) /\ asked'[w] \subseteq asked[w],
           \A w \in Windows, r \in RunId : borrowed'[w][r] \subseteq borrowed[w][r] \cup asked[w]
    PROVE  BorrowsFromEarlier'
<1> SUFFICES ASSUME NEW w \in Windows,
                    NEW e \in asked'[w] \cup UNION {borrowed'[w][r] : r \in RunId}
             PROVE  row[e] # NoRow /\ row[e].kind = "orders" /\ row[e].window \in Lenders(w)
  <2>1. \A win \in Windows : lenders'[win] \subseteq Lenders(win)
    OBVIOUS
  <2>2. QED
    BY <2>1 DEF BorrowsFromEarlier, Lenders
<1>1. e \in asked[w] \cup UNION {borrowed[w][r] : r \in RunId}
  <2>1. CASE e \in asked'[w]
    BY <2>1
  <2>2. ASSUME NEW r \in RunId, e \in borrowed'[w][r]
        PROVE  e \in asked[w] \cup UNION {borrowed[w][x] : x \in RunId}
    <3>1. e \in borrowed[w][r] \cup asked[w]
      BY <2>2
    <3>2. QED
      BY <3>1
  <2>3. QED
    BY <2>1, <2>2
<1>2. QED
  BY <1>1 DEF BorrowsFromEarlier

\* Steps of the upload door change no row that is there but to reject one that was
\* not consumed.
LEMMA DoorWindowInv ==
    ASSUME WindowInv, UNCHANGED runVars,
           row' \in [Exports -> Row],
           object' \in [Keys -> Digests \cup {NoObject}],
           posting' \subseteq Requests,
           \A e \in Exports :
               \/ row'[e] = row[e]
               \/ row[e] = NoRow /\ row'[e].state = "stored" /\ row'[e].firstRun = 0
               \/ /\ row[e].state \in {"stored", "rejected"} /\ row'[e].state = "rejected"
                  /\ row'[e].window = row[e].window /\ row'[e].firstRun = row[e].firstRun
                  /\ row'[e].kind = row[e].kind
    PROVE  WindowInv'
<1> USE ConstantsAssumption, RunIdFacts DEF WindowInv, TypeOK, runVars, lendVars
<1>1. TypeOK'
  OBVIOUS
<1>2. \A e \in Exports : row[e] # NoRow =>
        /\ row'[e] # NoRow /\ row'[e].window = row[e].window /\ row'[e].firstRun = row[e].firstRun
        /\ row'[e].kind = row[e].kind
        /\ row[e].state = "consumed" <=> row'[e].state = "consumed"
  BY RowFacts DEF NoRow
<1>3. \A e \in Exports : row[e] = NoRow /\ row'[e] # NoRow =>
        row'[e].state = "stored" /\ row'[e].firstRun = 0 /\ row'[e].window \in Windows
  BY RowFacts DEF NoRow
<1>4. ReadsItsWindow' /\ BorrowsFromEarlier'
  BY <1>2, RowsStay
<1>5. FirstRunIsPast'
  BY <1>2, <1>3 DEF FirstRunIsPast
<1>6. SettledIsConsumed' /\ LiveRunHasNumber'
  BY <1>2 DEF SettledIsConsumed, LiveRunHasNumber, ReadsItsWindow, Reading, Stages
<1>7. ReadIsAttributed'
  <2> SUFFICES ASSUME NEW win \in Windows, NEW r \in RunId, Produced(win, r), NEW e \in inputs[win][r]
               PROVE  /\ row'[e].state = "consumed" /\ row'[e].window = win
                      /\ row'[e].firstRun \in 1..r
    BY DEF ReadIsAttributed, Produced
  <2>1. e \in Exports /\ row[e].state = "consumed" /\ row[e].window = win /\ row[e].firstRun \in 1..r
    BY DEF ReadIsAttributed
  <2>2. QED
    BY <1>2, <2>1 DEF NoRow
<1>8. QED
  BY <1>1, <1>4, <1>5, <1>6, <1>7

\* A new run reads rows of its window, of which it has none produced yet.
LEMMA PlanWindowInv ==
    ASSUME WindowInv, NEW win \in Windows, PlanRun(win)
    PROVE  WindowInv'
<1> USE ConstantsAssumption, RunIdFacts DEF WindowInv, TypeOK, storeVars, lendVars
<1>0. /\ stage[win] = "idle"
      /\ run' = [run EXCEPT ![win] = @ + 1]
      /\ stage' = [stage EXCEPT ![win] = "planned"]
      /\ status' = [status EXCEPT ![win][run[win] + 1] = "open"]
      /\ inputs' = [inputs EXCEPT ![win][run[win] + 1] = UploadsFor(win)]
      /\ UNCHANGED <<row, object, posting, mode, lenders, asked, borrowed>>
      /\ run[win] + 1 \in RunId
      /\ run[win] \in Nat
  BY DEF PlanRun, RunId
<1>1. UploadsFor(win) \subseteq Exports
  BY DEF UploadsFor
<1>2. TypeOK'
  BY <1>0, <1>1 DEF Stages, RunId
<1>3. ReadsItsWindow'
  <2>1. \A w \in Windows, r \in RunId :
          inputs'[w][r] = inputs[w][r] \/ (w = win /\ inputs'[w][r] = UploadsFor(win))
    <3> SUFFICES ASSUME NEW w \in Windows, NEW r \in RunId
                 PROVE  inputs'[w][r] = inputs[w][r] \/ (w = win /\ inputs'[w][r] = UploadsFor(win))
      OBVIOUS
    <3>0. inputs' = [x \in Windows |->
              IF x = win THEN [n \in RunId |-> IF n = run[win] + 1 THEN UploadsFor(win)
                                                                   ELSE inputs[win][n]]
                         ELSE inputs[x]]
      BY <1>0
    <3>1. CASE w = win /\ r = run[win] + 1
      BY <1>0, <3>1
    <3>2. CASE w # win
      <4>1. inputs'[w] = inputs[w]
        BY ONLY <3>0, <3>2, w \in Windows
      <4>2. QED
        BY ONLY <4>1
    <3>3. CASE w = win /\ r # run[win] + 1
      <4>1. inputs'[win][r] = inputs[win][r]
        BY ONLY <3>0, <3>3, win \in Windows, r \in RunId
      <4>2. QED
        BY ONLY <3>3, <4>1
    <3>4. QED
      BY <3>1, <3>2, <3>3
  <2>2. \A e \in UploadsFor(win) : row[e] # NoRow /\ row[e].window = win
    BY DEF UploadsFor, InWindow, NoRow
  <2>3. QED
    BY <1>0, <2>1, <2>2 DEF ReadsItsWindow
<1>4. FirstRunIsPast'
  <2> SUFFICES ASSUME NEW e \in Exports, row[e] # NoRow
               PROVE  /\ row[e].firstRun <= run'[row[e].window]
                      /\ row[e].state = "consumed" => row[e].firstRun # 0
    BY <1>0 DEF FirstRunIsPast
  <2>1. row[e].window \in Windows /\ row[e].firstRun \in Nat
    BY RowFacts
  <2>2. \A w \in Windows : run[w] \in Nat /\ run'[w] \in Nat /\ run[w] <= run'[w]
    BY <1>0
  <2>3. /\ row[e].firstRun <= run[row[e].window]
        /\ row[e].state = "consumed" => row[e].firstRun # 0
    BY DEF FirstRunIsPast
  <2>4. \A f, a, b \in Nat : f <= a /\ a <= b => f <= b
    OBVIOUS
  <2>5. QED
    BY ONLY <2>1, <2>2, <2>3, <2>4
<1>5. SettledIsConsumed' /\ LiveRunHasNumber'
  BY <1>0 DEF SettledIsConsumed, LiveRunHasNumber, Reading
<1>6. ReadIsAttributed'
  <2> SUFFICES ASSUME NEW w \in Windows, NEW r \in RunId, Produced(w, r)', NEW e \in inputs'[w][r]
               PROVE  /\ row[e].state = "consumed" /\ row[e].window = w
                      /\ row[e].firstRun \in 1..r
    BY <1>0 DEF ReadIsAttributed
  <2>1. Produced(w, r) /\ inputs'[w][r] = inputs[w][r]
    BY <1>0 DEF Produced
  <2>2. QED
    BY <2>1 DEF ReadIsAttributed
<1>7. BorrowsFromEarlier'
  <2>1. \A w \in Windows : lenders'[w] \subseteq Lenders(w)
    BY <1>0 DEF BorrowsFromEarlier
  <2>2. QED
    BY <1>0, <2>1, BorrowsLess
<1>8. QED
  BY <1>2, <1>3, <1>4, <1>5, <1>6, <1>7

\* What is asked of a lender are order files of an earlier window, and what is fetched
\* is some of them; nothing else a run has or records changes.
LEMMA LendWindowInv ==
    ASSUME WindowInv, NEW win \in Windows,
           ReadUploads(win) \/ ListLenders(win) \/ (\E v \in Windows : AskLender(win, v))
               \/ FetchLender(win)
    PROVE  WindowInv'
<1> USE ConstantsAssumption, RunIdFacts DEF WindowInv, TypeOK, storeVars, lendVars
<1>1. /\ stage[win] \notin {"idle", "settled"} /\ run[win] \in RunId
      /\ stage' \in [Windows -> Stages] /\ stage'[win] \notin {"idle", "settled"}
      /\ \A w \in Windows \ {win} : stage'[w] = stage[w]
      /\ UNCHANGED <<row, object, posting, run, status, inputs>>
  BY DEF ReadUploads, ListLenders, AskLender, FetchLender, Stages, LiveRunHasNumber
<1>2. /\ mode' \in [Windows -> BackfillModes]
      /\ lenders' \in [Windows -> SUBSET Windows]
      /\ asked' \in [Windows -> SUBSET Exports]
      /\ borrowed' \in [Windows -> [RunId -> SUBSET Exports]]
      /\ BorrowsFromEarlier'
  <2>0. \A w \in Windows : lenders[w] \subseteq Lenders(w)
    BY DEF BorrowsFromEarlier
  <2>1. CASE ReadUploads(win)
    BY <2>0, <2>1, BorrowsLess DEF ReadUploads
  <2>2. CASE ListLenders(win)
    <3>1. /\ mode' \in [Windows -> BackfillModes]
          /\ lenders' \in [Windows -> SUBSET Windows]
          /\ \A w \in Windows : lenders'[w] = lenders[w] \/ lenders'[w] \subseteq Lenders(w)
          /\ UNCHANGED <<row, asked, borrowed>>
      <4>1. CASE UNCHANGED <<lenders, mode>>
        BY <2>2, <4>1 DEF ListLenders
      <4>2. CASE \E known \in SUBSET Lenders(win), m \in {"report", "apply"} :
                   /\ lenders' = [lenders EXCEPT ![win] = known]
                   /\ mode' = [mode EXCEPT ![win] = m]
        <5>1. PICK known \in SUBSET Lenders(win), m \in {"report", "apply"} :
                /\ lenders' = [lenders EXCEPT ![win] = known]
                /\ mode' = [mode EXCEPT ![win] = m]
          BY <4>2
        <5>2. known \subseteq Windows /\ m \in BackfillModes
          BY DEF Lenders, BackfillModes
        <5>3. mode' \in [Windows -> BackfillModes] /\ lenders' \in [Windows -> SUBSET Windows]
          BY <5>1, <5>2
        <5>4. UNCHANGED <<row, asked, borrowed>>
          BY <2>2 DEF ListLenders
        <5>5. QED
          BY <5>1, <5>3, <5>4
      <4>3. QED
        BY <2>2, <4>1, <4>2 DEF ListLenders
    <3>2. QED
      BY <2>0, <3>1, BorrowsLess
  <2>3. ASSUME NEW v \in Windows, AskLender(win, v)
        PROVE  /\ asked' \in [Windows -> SUBSET Exports] /\ lenders' \in [Windows -> SUBSET Windows]
               /\ UNCHANGED <<mode, borrowed>> /\ BorrowsFromEarlier'
    <3> DEFINE files == {e \in UploadsFor(v) : row[e].kind = "orders"}
    <3>1. /\ files \subseteq Exports
          /\ \A e \in files : row[e] # NoRow /\ row[e].kind = "orders" /\ row[e].window = v
      BY DEF UploadsFor, InWindow, NoRow
    <3>2. v \in Lenders(win)
      BY <2>3 DEF AskLender, BorrowsFromEarlier
    <3>3. /\ asked' = [asked EXCEPT ![win] = files]
          /\ lenders' = [lenders EXCEPT ![win] = @ \ {v}]
          /\ UNCHANGED <<row, mode, borrowed>>
      BY <2>3 DEF AskLender
    <3> HIDE DEF files
    <3>4. BorrowsFromEarlier'
      <4> SUFFICES ASSUME NEW w \in Windows
                   PROVE  /\ lenders'[w] \subseteq Lenders(w)
                          /\ \A e \in asked'[w] \cup UNION {borrowed[w][r] : r \in RunId} :
                              row[e] # NoRow /\ row[e].kind = "orders" /\ row[e].window \in Lenders(w)
        <5>1. UNCHANGED <<row, borrowed>>
          BY <3>3
        <5>2. QED
          BY ONLY <5>1, \A x \in Windows :
                  /\ lenders'[x] \subseteq Lenders(x)
                  /\ \A e \in asked'[x] \cup UNION {borrowed[x][r] : r \in RunId} :
                      row[e] # NoRow /\ row[e].kind = "orders" /\ row[e].window \in Lenders(x)
             DEF BorrowsFromEarlier, Lenders
      <4>1. /\ lenders[w] \subseteq Lenders(w)
            /\ \A e \in asked[w] \cup UNION {borrowed[w][r] : r \in RunId} :
                row[e] # NoRow /\ row[e].kind = "orders" /\ row[e].window \in Lenders(w)
        BY DEF BorrowsFromEarlier
      <4>2. lenders'[w] \subseteq lenders[w] /\ (asked'[w] = asked[w] \/ (w = win /\ asked'[w] = files))
        <5>1. DOMAIN asked = Windows /\ DOMAIN lenders = Windows
          OBVIOUS
        <5>2. /\ asked' = [asked EXCEPT ![win] = files]
              /\ lenders' = [lenders EXCEPT ![win] = @ \ {v}]
          BY <3>3
        <5>3. CASE w = win
          BY ONLY <5>1, <5>2, <5>3
        <5>4. CASE w # win
          <6>1. asked'[w] = asked[w]
            BY ONLY <5>1, <5>2, <5>4, w \in Windows
          <6>2. lenders'[w] = lenders[w]
            BY ONLY <5>1, <5>2, <5>4, w \in Windows
          <6>3. lenders'[w] \subseteq lenders[w]
            BY ONLY <6>2
          <6>4. QED
            BY ONLY <6>1, <6>3
        <5>5. QED
          BY <5>3, <5>4
      <4>3. QED
        BY <3>1, <3>2, <4>1, <4>2
    <3>5. QED
      BY <3>1, <3>3, <3>4
  <2>4. CASE FetchLender(win)
    <3>1. /\ asked' = [asked EXCEPT ![win] = {}]
          /\ UNCHANGED <<row, mode, lenders>>
          /\ \/ \E whole \in SUBSET asked[win] :
                   borrowed' = [borrowed EXCEPT ![win][run[win]] = @ \cup whole]
             \/ UNCHANGED borrowed
      BY <2>4 DEF FetchLender
    <3>2. /\ \A w \in Windows, r \in RunId : borrowed'[w][r] \subseteq borrowed[w][r] \cup asked[w]
          /\ borrowed' \in [Windows -> [RunId -> SUBSET Exports]]
      <4>1. CASE UNCHANGED borrowed
        BY <4>1
      <4>2. ASSUME NEW whole \in SUBSET asked[win],
                   borrowed' = [borrowed EXCEPT ![win][run[win]] = @ \cup whole]
            PROVE  /\ \A w \in Windows, r \in RunId : borrowed'[w][r] \subseteq borrowed[w][r] \cup asked[w]
                   /\ borrowed' \in [Windows -> [RunId -> SUBSET Exports]]
        <5>1. \A w \in Windows, r \in RunId :
                borrowed'[w][r] = IF w = win /\ r = run[win] THEN borrowed[w][r] \cup whole ELSE borrowed[w][r]
          BY <1>1, <4>2
        <5>2. whole \subseteq Exports /\ borrowed[win][run[win]] \subseteq Exports
          BY <1>1
        <5>3. borrowed' \in [Windows -> [RunId -> SUBSET Exports]]
          BY <1>1, <4>2, <5>2
        <5>4. QED
          BY <5>1, <5>3
      <4>3. QED
        BY <3>1, <4>1, <4>2
    <3>4. asked' \in [Windows -> SUBSET Exports] /\ \A w \in Windows : asked'[w] \subseteq asked[w]
      BY <3>1
    <3>5. BorrowsFromEarlier'
      BY <2>0, <3>1, <3>2, <3>4, BorrowsLess
    <3>6. QED
      BY <3>1, <3>2, <3>4, <3>5
  <2>5. QED
    BY <2>1, <2>2, <2>3, <2>4
<1>3. TypeOK'
  BY <1>1, <1>2
<1>4. /\ ReadsItsWindow' /\ LiveRunHasNumber' /\ FirstRunIsPast'
      /\ SettledIsConsumed' /\ ReadIsAttributed'
  BY <1>1 DEF ReadsItsWindow, LiveRunHasNumber, FirstRunIsPast, SettledIsConsumed, ReadIsAttributed,
              Reading, Produced
<1>5. QED
  BY <1>2, <1>3, <1>4

\* Settling marks what the run has read as its own, under its own number if nothing
\* earlier has; rows of other windows are not among it.
LEMMA SettleWindowInv ==
    ASSUME WindowInv, NEW win \in Windows, SettleUploads(win)
    PROVE  /\ WindowInv'
           /\ \A e \in Exports : row[e].state = "consumed" =>
                  row'[e].state = "consumed" /\ row'[e].firstRun = row[e].firstRun
<1> USE ConstantsAssumption, RunIdFacts DEF WindowInv, TypeOK
<1>0. /\ stage[win] = "borrowing"
      /\ stage' = [stage EXCEPT ![win] = "settled"]
      /\ row' = Consumed(win)
      /\ UNCHANGED <<object, posting, run, status, inputs, lendVars>>
      /\ run[win] \in RunId
      /\ \A e \in Reading(win) : row[e] # NoRow /\ row[e].window = win
      /\ Reading(win) \subseteq Exports
  BY DEF SettleUploads, LiveRunHasNumber, ReadsItsWindow, Reading
<1>1. ASSUME NEW e \in Reading(win)
      PROVE  /\ row'[e] \in Row /\ row'[e] # NoRow
             /\ row'[e].state = "consumed" /\ row'[e].window = win /\ row'[e].kind = row[e].kind
             /\ row'[e].firstRun = IF row[e].firstRun = 0 THEN run[win] ELSE row[e].firstRun
             /\ row'[e].firstRun \in 1..run[win]
  <2>1. /\ row[e] \in [state: {"stored", "consumed", "rejected"}, window: Windows,
                       kind: FileKinds, digest: Digests, firstRun: 0..MaxRuns]
        /\ row[e].window = win
    BY <1>0, RowFacts
  <2>2. row[e].firstRun <= run[win]
    BY <1>0, <2>1 DEF FirstRunIsPast
  <2>3. row'[e] = [row[e] EXCEPT !.state = "consumed",
                                 !.firstRun = IF row[e].firstRun = 0 THEN run[win] ELSE row[e].firstRun]
    BY <1>0 DEF Consumed
  <2>4. /\ row'[e] \in [state: {"stored", "consumed", "rejected"}, window: Windows,
                        kind: FileKinds, digest: Digests, firstRun: 0..MaxRuns]
        /\ row'[e].state = "consumed" /\ row'[e].window = win /\ row'[e].kind = row[e].kind
        /\ row'[e].firstRun = IF row[e].firstRun = 0 THEN run[win] ELSE row[e].firstRun
    BY <1>0, <2>1, <2>3 DEF RunId
  <2>5. QED
    BY <1>0, <2>1, <2>2, <2>4 DEF Row, NoRow
<1>2. \A e \in Exports \ Reading(win) : row'[e] = row[e]
  BY <1>0 DEF Consumed
<1>3. TypeOK'
  <2>1. row' = [e \in Exports |-> row'[e]]
    BY <1>0 DEF Consumed
  <2>2. \A e \in Exports : row'[e] \in Row
    BY <1>1, <1>2
  <2>3. QED
    BY <1>0, <2>1, <2>2 DEF Stages, lendVars
<1>4. \A w \in Windows : Reading(w)' = Reading(w)
  BY <1>0 DEF Reading
<1>5. ReadsItsWindow' /\ BorrowsFromEarlier'
  BY <1>0, <1>1, <1>2, RowsStay
<1>6. FirstRunIsPast'
  BY <1>0, <1>1, <1>2 DEF FirstRunIsPast, RunId
<1>7. SettledIsConsumed' /\ LiveRunHasNumber'
  BY <1>0, <1>1, <1>2, <1>4 DEF SettledIsConsumed, LiveRunHasNumber, Reading
<1>8. \A e \in Exports : row[e].state = "consumed" =>
        row'[e].state = "consumed" /\ row'[e].firstRun = row[e].firstRun
  BY <1>0, <1>1, <1>2 DEF FirstRunIsPast
<1>9. ReadIsAttributed'
  <2> SUFFICES ASSUME NEW w \in Windows, NEW r \in RunId, Produced(w, r), NEW e \in inputs[w][r]
               PROVE  /\ row'[e].state = "consumed" /\ row'[e].window = w
                      /\ row'[e].firstRun \in 1..r
    BY <1>0 DEF ReadIsAttributed, Produced
  <2>1. e \in Exports /\ row[e].state = "consumed" /\ row[e].window = w /\ row[e].firstRun \in 1..r
    BY DEF ReadIsAttributed
  <2>2. row'[e].window = row[e].window
    BY <1>0, <1>1, <1>2, <2>1
  <2>3. QED
    BY <1>8, <2>1, <2>2
<1>10. QED
  BY <1>3, <1>5, <1>6, <1>7, <1>8, <1>9

\* What was settled is attributed when the run is concluded.
LEMMA ConcludeWindowInv ==
    ASSUME WindowInv, NEW win \in Windows, ConcludeRun(win)
    PROVE  WindowInv'
<1> USE ConstantsAssumption, RunIdFacts DEF WindowInv, TypeOK, storeVars
<1>0. /\ stage[win] = "settled"
      /\ status' = [status EXCEPT ![win][run[win]] = "produced"]
      /\ stage' = [stage EXCEPT ![win] = "idle"]
      /\ mode' = [mode EXCEPT ![win] = "off"]
      /\ UNCHANGED <<row, object, posting, run, inputs, lenders, asked, borrowed>>
      /\ run[win] \in RunId
      /\ \A e \in Reading(win) : row[e] # NoRow /\ row[e].window = win /\ row[e].state = "consumed"
  BY DEF ConcludeRun, LiveRunHasNumber, ReadsItsWindow, SettledIsConsumed, Reading
<1>1. TypeOK'
  BY <1>0 DEF Stages, BackfillModes
<1>2. /\ ReadsItsWindow' /\ FirstRunIsPast' /\ SettledIsConsumed' /\ LiveRunHasNumber'
      /\ BorrowsFromEarlier'
  <2>1. \A w \in Windows : lenders'[w] \subseteq Lenders(w)
    BY <1>0 DEF BorrowsFromEarlier
  <2>2. BorrowsFromEarlier'
    BY <1>0, <2>1, BorrowsLess
  <2>3. QED
    BY <1>0, <2>2 DEF ReadsItsWindow, FirstRunIsPast, SettledIsConsumed, LiveRunHasNumber, Reading
<1>3. \A e \in Reading(win) : row[e].firstRun \in 1..run[win]
  <2> SUFFICES ASSUME NEW e \in Reading(win) PROVE row[e].firstRun \in 1..run[win]
    OBVIOUS
  <2>1. e \in Exports /\ row[e] # NoRow /\ row[e].window = win /\ row[e].state = "consumed"
    BY <1>0 DEF Reading
  <2>2. row[e].firstRun \in 0..MaxRuns
    BY <2>1, RowFacts
  <2>3. QED
    BY <1>0, <2>1, <2>2 DEF FirstRunIsPast
<1>4. ReadIsAttributed'
  BY <1>0, <1>3 DEF ReadIsAttributed, Produced, Reading
<1>5. QED
  BY <1>1, <1>2, <1>4

\* A run that stops leaves the rows as they are, and nothing behind a workbook.
LEMMA StopWindowInv ==
    ASSUME WindowInv, NEW win \in Windows, StopRun(win)
    PROVE  WindowInv'
<1> USE ConstantsAssumption, RunIdFacts DEF WindowInv, TypeOK, storeVars
<1>0. /\ stage' = [stage EXCEPT ![win] = "idle"]
      /\ status' = [status EXCEPT ![win][run[win]] = "hard_stop"]
      /\ inputs' = [inputs EXCEPT ![win][run[win]] = {}]
      /\ borrowed' = [borrowed EXCEPT ![win][run[win]] = {}]
      /\ lenders' = [lenders EXCEPT ![win] = {}]
      /\ asked' = [asked EXCEPT ![win] = {}]
      /\ mode' = [mode EXCEPT ![win] = "off"]
      /\ UNCHANGED <<row, object, posting, run>>
      /\ run[win] \in RunId
  BY DEF StopRun, LiveRunHasNumber
<1>1. TypeOK'
  BY <1>0 DEF Stages, BackfillModes
<1>2. \A w \in Windows, r \in RunId :
        /\ inputs'[w][r] \subseteq inputs[w][r] /\ borrowed'[w][r] \subseteq borrowed[w][r]
        /\ Produced(w, r)' => Produced(w, r)
  BY <1>0 DEF Produced
<1>3. \A w \in Windows : /\ asked'[w] \subseteq asked[w] /\ lenders'[w] \subseteq lenders[w]
                         /\ stage'[w] # "idle" => stage'[w] = stage[w] /\ Reading(w)' = Reading(w)
  BY <1>0 DEF Reading
<1>4. ReadsItsWindow' /\ ReadIsAttributed'
  BY <1>0, <1>2 DEF ReadsItsWindow, ReadIsAttributed
<1>5. BorrowsFromEarlier'
  <2>1. \A w \in Windows : lenders'[w] \subseteq Lenders(w)
    BY <1>3 DEF BorrowsFromEarlier
  <2>2. QED
    BY <1>0, <1>2, <1>3, <2>1, BorrowsLess
<1>6. FirstRunIsPast' /\ SettledIsConsumed' /\ LiveRunHasNumber'
  BY <1>0, <1>3 DEF FirstRunIsPast, SettledIsConsumed, LiveRunHasNumber
<1>7. QED
  BY <1>1, <1>4, <1>5, <1>6

\* Each step preserves the invariant, and keeps what is consumed as it is.
LEMMA StepWindowInv ==
    ASSUME WindowInv, [Next]_vars
    PROVE  /\ WindowInv'
           /\ \A e \in Exports : row[e].state = "consumed" =>
                  row'[e].state = "consumed" /\ row'[e].firstRun = row[e].firstRun
<1> DEFINE Kept == \A e \in Exports : row[e].state = "consumed" =>
                     row'[e].state = "consumed" /\ row'[e].firstRun = row[e].firstRun
<1> USE ConstantsAssumption DEF storeVars
<1>0. TypeOK
  BY DEF WindowInv
<1>1. ASSUME NEW q \in Requests, PutObject(q)
      PROVE  WindowInv' /\ Kept
  BY <1>0, <1>1, DoorWindowInv DEF PutObject, TypeOK, Upload
<1>2. ASSUME NEW q \in posting, RecordUpload(q)
      PROVE  WindowInv' /\ Kept
  <2>1. q \in Upload /\ q \in Requests
    BY <1>0 DEF TypeOK
  <2>2. Inserted(q) \in Row /\ Inserted(q).state = "stored" /\ Inserted(q).firstRun = 0
    BY <2>1 DEF Inserted, Row, Upload
  <2>3. \A e \in Exports : \/ row'[e] = row[e]
                           \/ row[e] = NoRow /\ row'[e] = Inserted(q)
    BY <1>0, <1>2 DEF RecordUpload, Seen, TypeOK
  <2>4. row' \in [Exports -> Row] /\ posting' \subseteq Requests
    BY <1>0, <1>2, <2>2 DEF RecordUpload, TypeOK
  <2>5. WindowInv'
    BY <1>0, <1>2, <2>2, <2>3, <2>4, DoorWindowInv DEF RecordUpload, TypeOK
  <2>6. QED
    BY <2>3, <2>5 DEF NoRow
<1>3. ASSUME NEW q \in posting, DropUpload(q)
      PROVE  WindowInv' /\ Kept
  BY <1>0, <1>3, DoorWindowInv DEF DropUpload, TypeOK
<1>4. ASSUME NEW x \in Exports, RejectUpload(x)
      PROVE  WindowInv' /\ Kept
  <2>1. row[x] \in [state: {"stored", "consumed", "rejected"}, window: Windows,
                    kind: FileKinds, digest: Digests, firstRun: 0..MaxRuns]
    BY <1>0, <1>4, RowFacts DEF RejectUpload, TypeOK, NoRow
  <2>2. row'[x] = [row[x] EXCEPT !.state = "rejected"]
    BY <1>0, <1>4 DEF RejectUpload, TypeOK
  <2>3. /\ row'[x] \in [state: {"stored", "consumed", "rejected"}, window: Windows,
                        kind: FileKinds, digest: Digests, firstRun: 0..MaxRuns]
        /\ row'[x].state = "rejected" /\ row'[x].kind = row[x].kind
        /\ row'[x].window = row[x].window /\ row'[x].firstRun = row[x].firstRun
    BY <2>1, <2>2
  <2>4. row' \in [Exports -> Row] /\ \A e \in Exports \ {x} : row'[e] = row[e]
    BY <1>0, <1>4, <2>2, <2>3 DEF RejectUpload, TypeOK, Row
  <2>5. row[x].state \in {"stored", "rejected"} /\ UNCHANGED <<object, posting, runVars>>
    BY <1>4 DEF RejectUpload
  <2>6. WindowInv'
    BY <1>0, <2>3, <2>4, <2>5, DoorWindowInv DEF TypeOK
  <2>7. QED
    BY <2>4, <2>5, <2>6
<1>5. ASSUME NEW e \in Exports, ExpireObject(e)
      PROVE  WindowInv' /\ Kept
  BY <1>0, <1>5, DoorWindowInv DEF ExpireObject, TypeOK
<1>6. ASSUME NEW win \in Windows, SettleUploads(win)
      PROVE  WindowInv' /\ Kept
  BY <1>6, SettleWindowInv
<1>7. ASSUME NEW win \in Windows,
             \/ PlanRun(win) \/ ReadUploads(win) \/ ListLenders(win) \/ FetchLender(win)
             \/ \E v \in Windows : AskLender(win, v)
             \/ ConcludeRun(win) \/ StopRun(win)
      PROVE  WindowInv' /\ Kept
  <2>1. WindowInv'
    BY <1>7, PlanWindowInv, LendWindowInv, StopWindowInv, ConcludeWindowInv
  <2>2. row' = row
    BY <1>7 DEF PlanRun, ReadUploads, ListLenders, AskLender, FetchLender, ConcludeRun, StopRun
  <2>3. QED
    BY <2>1, <2>2
<1>8. CASE UNCHANGED vars
  BY <1>0, <1>8, DoorWindowInv DEF vars, TypeOK
<1>9. QED
  BY <1>1, <1>2, <1>3, <1>4, <1>5, <1>6, <1>7, <1>8 DEF Next

\* WindowInv holds throughout.
THEOREM WindowInvariant == Spec => []WindowInv
<1>1. Init => WindowInv
  BY InitWindowInv
<1>2. WindowInv /\ [Next]_vars => WindowInv'
  BY StepWindowInv
<1>3. QED
  BY <1>1, <1>2, PTL DEF Spec

\* Every behaviour keeps the variables within their types.
THEOREM TypeCorrect == Spec => []TypeOK
<1>1. WindowInv => TypeOK
  BY DEF WindowInv
<1>2. QED
  BY <1>1, WindowInvariant, PTL

\* Every file behind a workbook is on record as consumed by its window
\* (repository_m5.py:666-683), however uploads, rejections, expiries and runs cross.
THEOREM Attributed == Spec => []ReadIsAttributed
<1>1. WindowInv => ReadIsAttributed
  BY DEF WindowInv
<1>2. QED
  BY <1>1, WindowInvariant, PTL

\* The double-pull control (uploads.sha256 unique, the consumption by id): no file is
\* an input of two windows with a workbook, and what two have read is an order file
\* lent by the earlier of them (materialize.py:289-410).
THEOREM OneWindow == Spec => []OneWindowPerExport
<1>1. WindowInv => OneWindowPerExport
  <2> SUFFICES ASSUME WindowInv, NEW v \in Windows, NEW w \in Windows, NEW q \in RunId, NEW r \in RunId,
                      v # w
               PROVE  /\ inputs[v][q] \cap inputs[w][r] = {}
                      /\ \A e \in (inputs[v][q] \cup borrowed[v][q]) \cap (inputs[w][r] \cup borrowed[w][r]) :
                          /\ row[e].kind = "orders"
                          /\ \A u \in {v, w} \ {row[e].window} : row[e].window \in Lenders(u)
    BY DEF OneWindowPerExport
  <2>1. \A u \in Windows, n \in RunId :
          /\ \A e \in inputs[u][n] : row[e].window = u
          /\ \A e \in borrowed[u][n] : row[e].kind = "orders" /\ row[e].window \in Lenders(u)
    BY DEF WindowInv, ReadsItsWindow, BorrowsFromEarlier
  <2>2. QED
    BY <2>1
<1>2. QED
  BY <1>1, WindowInvariant, PTL

\* What a run has read is never un-read (repository_m5.py:676-683, 698-719).
THEOREM Forever == Spec => ConsumedIsForever
<1>1. WindowInv /\ [Next]_vars =>
        [\A e \in Exports : row[e].state = "consumed" =>
            row'[e].state = "consumed" /\ row'[e].firstRun = row[e].firstRun]_vars
  BY StepWindowInv
<1>2. QED
  BY <1>1, WindowInvariant, PTL DEF Spec, ConsumedIsForever

-----------------------------------------------------------------------------
(* UploadDoor. *)

\* Before anything is uploaded.
LEMMA InitDoorInv == DoorInit => DoorInv
<1> SUFFICES ASSUME DoorInit PROVE DoorInv
  OBVIOUS
<1>1. DOMAIN uploads = {} /\ DOMAIN index = {}
  BY DEF DoorInit
<1>2. IsFiniteSet(DOMAIN uploads)
  BY <1>1, FS_EmptySet
<1>3. DOMAIN bucket = {Key(q) : q \in setup.requests}
  BY DEF DoorInit
<1>4. QED
  BY <1>1, <1>2, <1>3 DEF DoorInit, DoorInv, DoorTypeOK, RecordsAreOfTheFile, IndexIsOfTheFile

\* A step that leaves the files, their number and what the index has of them, and
\* only gives a row another state.
LEMMA StateDoorInv ==
    ASSUME DoorInv, UNCHANGED <<setup, index>>, contract' \in setup.contracts,
           DOMAIN bucket' = DOMAIN bucket, DOMAIN uploads' = DOMAIN uploads,
           \A r \in DOMAIN uploads :
               \/ uploads'[r] = uploads[r]
               \/ \E s \in {"stored", "consumed", "rejected"} :
                       uploads'[r] = [uploads[r] EXCEPT !.state = s]
    PROVE  DoorInv'
<1>1. \A r \in DOMAIN uploads :
        /\ DOMAIN uploads'[r] = DOMAIN uploads[r]
        /\ uploads'[r].state \in {"stored", "consumed", "rejected"}
        /\ \A k \in DOMAIN uploads[r] \ {"state"} : uploads'[r][k] = uploads[r][k]
  BY DEF DoorInv, DoorTypeOK
<1>2. \A r \in DOMAIN uploads :
        /\ uploads'[r].id = uploads[r].id /\ uploads'[r].indexed = uploads[r].indexed
        /\ uploads'[r].window = uploads[r].window /\ uploads'[r].kind = uploads[r].kind
        /\ uploads'[r].raw = uploads[r].raw /\ uploads'[r].digest = uploads[r].digest
        /\ uploads'[r].kept = uploads[r].kept /\ uploads'[r].canonical = uploads[r].canonical
  BY <1>1 DEF DoorInv, DoorTypeOK
<1>3. DoorTypeOK'
  BY <1>1, <1>2 DEF DoorInv, DoorTypeOK, Key
<1>4. RecordsAreOfTheFile'
  BY <1>2 DEF DoorInv, RecordsAreOfTheFile
<1>5. IndexIsOfTheFile'
  BY <1>2 DEF DoorInv, DoorTypeOK, IndexIsOfTheFile
<1>6. QED
  BY <1>3, <1>4, <1>5 DEF DoorInv

\* A file on record is what its digest says, indexed or not: the rows of the index
\* from its bytes are its orders, under its store.
LEMMA IndexRowsOfTheFile ==
    ASSUME NEW c, NEW upload, NEW bytes
    PROVE  IndexRows(c, upload, bytes) \subseteq {upload.canonical} \X setup.files[bytes.raw].orders
BY DEF IndexRows, OrderIds

\* The insertion of a row, indexed or not.
LEMMA InsertDoorInv ==
    ASSUME DoorInv, UNCHANGED <<setup, contract>>, NEW q \in setup.requests,
           NEW bytes, bytes = Sanitized(contract, q, "first"), q.raw \notin DOMAIN uploads,
           DOMAIN bucket' = DOMAIN bucket,
           \/ Index(q.raw, InsertedRow(contract, q, bytes), bytes)
           \/ /\ uploads' = With(uploads, [x \in {q.raw} |-> InsertedRow(contract, q, bytes)])
              /\ UNCHANGED index
    PROVE  DoorInv'
<1> DEFINE r == q.raw
           new == InsertedRow(contract, q, bytes)
<1>1. /\ DOMAIN uploads' = DOMAIN uploads \cup {r}
      /\ uploads'[r] = new \/ uploads'[r] = [new EXCEPT !.indexed = TRUE]
      /\ \A x \in DOMAIN uploads : uploads'[x] = uploads[x]
  BY DEF Index, With
<1>2. /\ DOMAIN index \subseteq DOMAIN index' /\ DOMAIN index' \subseteq DOMAIN index \cup {r}
      /\ \A x \in DOMAIN index : index'[x] = index[x]
      /\ uploads'[r].indexed = (r \in DOMAIN index')
      /\ r \in DOMAIN index' => index'[r] = IndexRows(contract, new, bytes)
  <2>1. r \notin DOMAIN index
    BY DEF DoorInv, DoorTypeOK
  <2>2. CASE Index(r, new, bytes)
    <3>1. uploads'[r] = [new EXCEPT !.indexed = TRUE]
      BY <2>2 DEF Index, With
    <3>2. uploads'[r].indexed = TRUE
      BY <3>1 DEF InsertedRow
    <3>3. /\ DOMAIN index' = DOMAIN index \cup {r}
          /\ index'[r] = IndexRows(contract, new, bytes)
          /\ \A x \in DOMAIN index \ {r} : index'[x] = index[x]
      BY <2>2 DEF Index, With
    <3>4. QED
      BY <2>1, <3>2, <3>3
  <2>3. CASE uploads' = With(uploads, [x \in {r} |-> new]) /\ UNCHANGED index
    <3>1. uploads'[r] = new
      BY <2>3 DEF With
    <3>2. uploads'[r].indexed = FALSE
      BY <3>1 DEF InsertedRow
    <3>3. (r \in DOMAIN index') = FALSE
      BY <2>1, <2>3
    <3>4. uploads'[r].indexed = (r \in DOMAIN index')
      BY <3>2, <3>3, Zenon
    <3>5. QED
      BY <2>1, <2>3, <3>4
  <2>4. QED
    BY <2>2, <2>3
<1>3. /\ DOMAIN uploads'[r] = {"state", "id", "window", "kind", "name", "canonical",
                               "kept", "digest", "raw", "indexed"}
      /\ uploads'[r].state = "stored" /\ uploads'[r].id = Cardinality(DOMAIN uploads) + 1
      /\ uploads'[r].window = q.window /\ uploads'[r].kind = q.kind
      /\ uploads'[r].raw = r /\ uploads'[r].digest = bytes /\ uploads'[r].kept = bytes.kept
      /\ uploads'[r].canonical = new.canonical
  BY <1>1 DEF InsertedRow
<1>4. bytes.raw = r
  BY DEF Sanitized
<1>5. /\ IsFiniteSet(DOMAIN uploads') /\ Cardinality(DOMAIN uploads) \in Nat
      /\ Cardinality(DOMAIN uploads') = Cardinality(DOMAIN uploads) + 1
  BY <1>1, FS_AddElement, FS_CardinalityType DEF DoorInv, DoorTypeOK
<1>6. q.window \in setup.windows /\ q.kind \in Kinds /\ r \in DOMAIN setup.files \ {Foreign}
  BY SetupsAssumption DEF DoorInv, DoorTypeOK
<1>7. DoorTypeOK'
  <2>1. Key(uploads'[r]) \in DOMAIN bucket
    BY <1>3 DEF DoorInv, DoorTypeOK, Key
  <2>2. \A x \in DOMAIN uploads :
          uploads[x].id \in 1..Cardinality(DOMAIN uploads') /\ uploads[x].indexed = (x \in DOMAIN index')
    BY <1>2, <1>5 DEF DoorInv, DoorTypeOK
  <2>3. uploads'[r].id \in 1..Cardinality(DOMAIN uploads')
    BY <1>3, <1>5
  <2>4. \A x \in DOMAIN uploads :
          /\ DOMAIN uploads'[x] = {"state", "id", "window", "kind", "name", "canonical",
                                   "kept", "digest", "raw", "indexed"}
          /\ uploads'[x].state \in {"stored", "consumed", "rejected"}
          /\ uploads'[x].window \in setup.windows /\ uploads'[x].kind \in Kinds
          /\ Key(uploads'[x]) \in DOMAIN bucket
    BY <1>1 DEF DoorInv, DoorTypeOK
  <2>5. DOMAIN bucket' = {Key(x) : x \in setup.requests}
    BY DEF DoorInv, DoorTypeOK
  <2>6. \A x \in DOMAIN uploads' :
          /\ DOMAIN uploads'[x] = {"state", "id", "window", "kind", "name", "canonical",
                                   "kept", "digest", "raw", "indexed"}
          /\ uploads'[x].state \in {"stored", "consumed", "rejected"}
          /\ uploads'[x].window \in setup.windows /\ uploads'[x].kind \in Kinds
          /\ Key(uploads'[x]) \in DOMAIN bucket'
          /\ uploads'[x].id \in 1..Cardinality(DOMAIN uploads')
    <3>1. Key(uploads'[r]) \in DOMAIN bucket' /\ uploads'[r].state \in {"stored", "consumed", "rejected"}
      BY <1>3, <2>1
    <3>2. QED
      BY <1>1, <1>3, <1>6, <2>2, <2>3, <2>4, <3>1
  <2>7. \A x \in DOMAIN uploads' : uploads'[x].indexed = (x \in DOMAIN index')
    BY <1>1, <1>2, <2>2
  <2>8. /\ DOMAIN index' \subseteq DOMAIN uploads'
        /\ DOMAIN uploads' \subseteq DOMAIN setup.files \ {Foreign}
    BY <1>1, <1>2, <1>6 DEF DoorInv, DoorTypeOK
  <2>9. QED
    BY <1>5, <2>5, <2>6, <2>7, <2>8 DEF DoorInv, DoorTypeOK, Key
<1>8. RecordsAreOfTheFile'
  BY <1>1, <1>3, <1>4 DEF DoorInv, RecordsAreOfTheFile
<1>9. IndexIsOfTheFile'
  <2>1. \A x \in DOMAIN index : index'[x] \subseteq {uploads'[x].canonical} \X setup.files[x].orders
    BY <1>1, <1>2 DEF DoorInv, DoorTypeOK, IndexIsOfTheFile
  <2>2. IndexRows(contract, new, bytes) \subseteq {new.canonical} \X setup.files[r].orders
    BY <1>4, IndexRowsOfTheFile
  <2>3. QED
    BY <1>2, <1>3, <2>1, <2>2 DEF IndexIsOfTheFile
<1>10. QED
  BY <1>7, <1>8, <1>9 DEF DoorInv

\* The index command fills in one upload later, from bytes that are the door's.
LEMMA BackfillDoorInv ==
    ASSUME DoorInv, NEW r \in DOMAIN uploads, BackfillIndex(r)
    PROVE  DoorInv'
<1> DEFINE new == [uploads[r] EXCEPT !.indexed = TRUE]
           bytes == bucket[Key(uploads[r])]
<1>1. /\ DOMAIN uploads' = DOMAIN uploads /\ uploads'[r] = new
      /\ \A x \in DOMAIN uploads \ {r} : uploads'[x] = uploads[x]
      /\ DOMAIN index' = DOMAIN index \cup {r}
      /\ index'[r] = IndexRows(contract, uploads[r], bytes)
      /\ \A x \in DOMAIN index \ {r} : index'[x] = index[x]
  BY DEF BackfillIndex, Index, With, DoorInv, DoorTypeOK
<1>2. /\ DOMAIN new = DOMAIN uploads[r] /\ new.indexed = TRUE
      /\ new.state = uploads[r].state /\ new.id = uploads[r].id
      /\ new.window = uploads[r].window /\ new.kind = uploads[r].kind
      /\ new.raw = uploads[r].raw /\ new.digest = uploads[r].digest
      /\ new.kept = uploads[r].kept /\ new.canonical = uploads[r].canonical
  BY DEF DoorInv, DoorTypeOK
<1>3. bytes.raw = r
  BY DEF BackfillIndex, ReadableForIndex, Intact, DoorInv, RecordsAreOfTheFile
<1>4. UNCHANGED <<setup, contract, bucket>>
  BY DEF BackfillIndex
<1> HIDE DEF new, bytes
<1>5. DoorTypeOK'
  <2>1. Key(new) = Key(uploads[r])
    BY <1>2 DEF Key
  <2>2. \A x \in DOMAIN uploads' :
          /\ DOMAIN uploads'[x] = DOMAIN uploads[x] /\ Key(uploads'[x]) = Key(uploads[x])
          /\ uploads'[x].state = uploads[x].state /\ uploads'[x].id = uploads[x].id
          /\ uploads'[x].window = uploads[x].window /\ uploads'[x].kind = uploads[x].kind
    BY <1>1, <1>2, <2>1
  <2>3. \A x \in DOMAIN uploads' : uploads'[x].indexed = (x \in DOMAIN index')
    <3>1. \A x \in DOMAIN uploads \ {r} : uploads'[x].indexed = (x \in DOMAIN index')
      BY <1>1 DEF DoorInv, DoorTypeOK
    <3>2. QED
      BY <1>1, <1>2, <3>1
  <2>4. DOMAIN index' \subseteq DOMAIN uploads'
    BY <1>1 DEF DoorInv, DoorTypeOK
  <2>5. {Key(q) : q \in setup.requests}' = {Key(q) : q \in setup.requests}
    BY <1>4 DEF Key
  <2>6. QED
    BY <1>1, <1>4, <2>2, <2>3, <2>4, <2>5 DEF DoorInv, DoorTypeOK
<1>6. RecordsAreOfTheFile'
  BY <1>1, <1>2 DEF DoorInv, RecordsAreOfTheFile
<1>7. IndexIsOfTheFile'
  <2>1. index'[r] \subseteq {uploads'[r].canonical} \X setup.files[r].orders
    BY <1>1, <1>2, <1>3, IndexRowsOfTheFile
  <2>2. QED
    BY <1>1, <1>4, <2>1 DEF DoorInv, DoorTypeOK, IndexIsOfTheFile
<1>8. QED
  BY <1>5, <1>6, <1>7 DEF DoorInv

\* DoorInv is inductive.
LEMMA StepDoorInv ==
    ASSUME DoorInv, [DoorNext]_doorVars
    PROVE  DoorInv'
<1> USE DEF DoorInv, DoorTypeOK
<1>1. ASSUME NEW q \in setup.requests, UploadExport(q)
      PROVE  DoorInv'
  <2>1. CASE q.raw \in DOMAIN uploads
    BY <1>1, <2>1, StateDoorInv DEF UploadExport
  <2>2. CASE q.raw \notin DOMAIN uploads
    <3> DEFINE bytes == Sanitized(contract, q, "first")
    <3>1. /\ UNCHANGED <<setup, contract>>
          /\ DOMAIN bucket' = DOMAIN bucket
          /\ \/ Index(q.raw, InsertedRow(contract, q, bytes), bytes)
             \/ /\ uploads' = With(uploads, [x \in {q.raw} |-> InsertedRow(contract, q, bytes)])
                /\ UNCHANGED index
      BY <1>1, <2>2 DEF UploadExport
    <3> HIDE DEF bytes
    <3>2. bytes = Sanitized(contract, q, "first")
      BY DEF bytes
    <3>3. DoorInv
      OBVIOUS
    <3> HIDE DEF DoorInv
    <3>4. QED
      BY <2>2, <3>1, <3>2, <3>3, InsertDoorInv
  <2>3. QED
    BY <2>1, <2>2
<1>2. ASSUME NEW r \in DOMAIN uploads, RejectFile(r)
      PROVE  DoorInv'
  BY <1>2, StateDoorInv DEF RejectFile
<1>3. ASSUME NEW r \in DOMAIN uploads, LoseObject(r) \/ AlterObject(r)
      PROVE  DoorInv'
  BY <1>3, StateDoorInv DEF LoseObject, AlterObject
<1>4. ASSUME NEW r \in DOMAIN uploads, BackfillIndex(r)
      PROVE  DoorInv'
  BY <1>4, BackfillDoorInv
<1>5. ASSUME NEW c \in setup.contracts, AmendContract(c)
      PROVE  DoorInv'
  BY <1>5, StateDoorInv DEF AmendContract
<1>6. ASSUME NEW w \in setup.windows, RunWindow(w)
      PROVE  DoorInv'
  BY <1>6, StateDoorInv DEF RunWindow
<1>7. CASE UNCHANGED doorVars
  BY <1>7, StateDoorInv DEF doorVars
<1>8. QED
  BY <1>1, <1>2, <1>3, <1>4, <1>5, <1>6, <1>7 DEF DoorNext

\* What is on record of a file is what the door made of it.
THEOREM DoorInvariant == DoorSpec => []DoorInv
BY InitDoorInv, StepDoorInv, PTL DEF DoorSpec

\* The order index names an upload's own orders under the store it was accepted for,
\* although a row of it may be written long after the upload, from what the bucket
\* answers by then (order_index.py, backfill).
THEOREM IndexOfTheFile == DoorSpec => []IndexIsOfTheFile
<1>1. DoorInv => IndexIsOfTheFile
  BY DEF DoorInv
<1>2. QED
  BY <1>1, DoorInvariant, PTL

\* Files no two of which have one name are each the last of theirs.
LEMMA NoneHidden ==
    ASSUME DoorTypeOK, NEW rs \in SUBSET DOMAIN uploads, ~SameName(rs)
    PROVE  ByName(rs) = rs
<1>1. \A r \in rs : ~(uploads[r].id > uploads[r].id)
  BY DEF DoorTypeOK
<1>2. QED
  BY <1>1 DEF SameName, ByName

\* A lender that is not degraded lends every file it has.
LEMMA UndegradedLendsAll ==
    ASSUME DoorTypeOK, NEW c, NEW v, ~Degraded(c, v)
    PROVE  Lent(c, v) = RowsOf(v, "orders")
<1>1. ~LenderRefused(c, v) /\ \A r \in ByName(RowsOf(v, "orders")) : Intact(r)
  BY DEF Degraded
<1>2. ByName(RowsOf(v, "orders")) = RowsOf(v, "orders")
  BY <1>1, NoneHidden DEF LenderRefused, RowsOf
<1>3. QED
  BY <1>1, <1>2 DEF Lent

\* A run that may invoice borrowed lines has read every order file of every window it
\* borrows from, as the door recorded it (materialize_predecessor_orders).
THEOREM WholeLenders == DoorSpec => []LendersAreWhole
<1>1. DoorInv => LendersAreWhole
  <2> SUFFICES ASSUME DoorInv, NEW w \in setup.windows, contract.mode = "apply", ~RunStops(contract, w),
                      NEW v \in Predecessors(w)
               PROVE  Lent(contract, v) = RowsOf(v, "orders")
    BY DEF LendersAreWhole
  <2>1. ~Degraded(contract, v)
    BY DEF RunStops, LendersRefused
  <2>2. QED
    BY <2>1, UndegradedLendsAll DEF DoorInv
<1>2. QED
  BY <1>1, DoorInvariant, PTL

\* The roster is met when the plan says that no store is missing or that the missing
\* ones are declared: check_stores, on the files' stores, and roster_gap, on the rows'.
LEMMA RosterMet ==
    ASSUME NEW c, {"expected", "optional"} \subseteq DOMAIN c, NEW w, NEW kind \in Kinds,
           \A k \in Kinds : \A r \in RowsOf(w, k) : ReadStore(c, r) = uploads[r].canonical,
           StoreRows(c, w, "orders") = StoreRows(c, w, "income"),
           c.expected # {} =>
               \A k \in Kinds : \A r \in RowsOf(w, k) : uploads[r].canonical \in c.expected,
           MissingStores(c, w) = {} \/ Covered(c, w)
    PROVE  ~CheckStoresRefused(PartialRoster(c, setup.declared[w]), StoreRows(c, w, kind))
<1> DEFINE stores == setup.declared[w]
           roster == PartialRoster(c, stores)
           found == {x.store : x \in StoreRows(c, w, kind)}
           canonical == {uploads[r].canonical : r \in UNION {RowsOf(w, k) : k \in Kinds}}
<1>1. roster.expected = c.expected /\ roster.optional = c.optional \cup Relaxed(c, stores)
  BY DEF PartialRoster
<1>2. \A k \in Kinds : StoreRows(c, w, k) = StoreRows(c, w, kind)
  BY DEF Kinds
<1>3. \A k \in Kinds : \A r \in RowsOf(w, k) : uploads[r].canonical \in found
  <2> SUFFICES ASSUME NEW k \in Kinds, NEW r \in RowsOf(w, k) PROVE uploads[r].canonical \in found
    OBVIOUS
  <2>1. [store |-> uploads[r].canonical] \in StoreRows(c, w, k)
    BY DEF StoreRows
  <2>2. QED
    BY <1>2, <2>1
<1>4. canonical \subseteq found
  BY <1>3
<1>5. \A s \in found : \E r \in RowsOf(w, kind) : s = uploads[r].canonical
  BY DEF StoreRows
<1>6. c.expected # {} => found \subseteq c.expected
  BY <1>5
<1>7. c.expected \ (found \cup c.optional) \subseteq MissingStores(c, w)
  BY <1>4 DEF MissingStores
<1>8. MissingStores(c, w) \subseteq c.expected
  BY DEF MissingStores
<1>9. MissingStores(c, w) \subseteq Relaxed(c, stores)
  <2>1. CASE MissingStores(c, w) = {}
    BY <2>1
  <2>2. CASE Covered(c, w)
    BY <1>8, <2>2 DEF Covered, Relaxed
  <2>3. QED
    BY <2>1, <2>2
<1>10. roster.expected \ (found \cup roster.optional) = {}
  BY <1>1, <1>7, <1>9
<1> HIDE DEF roster, found
<1>11. ~(roster.expected # {} /\ (roster.expected \ (found \cup roster.optional) # {}
                                  \/ found \ roster.expected # {}))
  BY <1>1, <1>6, <1>10
<1>12. QED
  BY <1>11 DEF CheckStoresRefused, roster, found

\* The plan of the upload page says of a window what its run then finds (upload_plan;
\* materialize_window and check_stores), whatever became of the files and the contract.
THEOREM ReadyRuns == DoorSpec => []ReadyWindowRuns
<1>1. DoorInv => ReadyWindowRuns
  <2> SUFFICES
        ASSUME DoorInv, NEW w \in setup.windows,
               Ready(contract, w), contract.mode # "apply",
               ~RosterRefused(contract, setup.declared[w]),
               UNION {RowsOf(w, kind) : kind \in Kinds} # {},
               StoreRows(contract, w, "orders") = StoreRows(contract, w, "income"),
               \A kind \in Kinds : ~SameName(RowsOf(w, kind)),
               \A r \in UNION {RowsOf(w, kind) : kind \in Kinds} :
                   /\ Intact(r)
                   /\ ReadStore(contract, r) = uploads[r].canonical
                   /\ contract.expected # {} => uploads[r].canonical \in contract.expected
        PROVE  ~RunStops(contract, w)
    BY DEF ReadyWindowRuns
  <2>1. \A kind \in Kinds : \A r \in RowsOf(w, kind) :
          /\ Intact(r)
          /\ ReadStore(contract, r) = uploads[r].canonical
          /\ contract.expected # {} => uploads[r].canonical \in contract.expected
    OBVIOUS
  <2>2. \A kind \in Kinds : ByName(RowsOf(w, kind)) = RowsOf(w, kind)
    BY NoneHidden DEF DoorInv, RowsOf
  <2>3. \A kind \in Kinds : RowsOf(w, kind) # {}
    <3>1. PICK k \in Kinds : \E r : r \in RowsOf(w, k)
      OBVIOUS
    <3>2. PICK r : r \in RowsOf(w, k)
      BY <3>1
    <3>3. [store |-> ReadStore(contract, r)] \in StoreRows(contract, w, k)
      BY <3>2 DEF StoreRows
    <3>4. \A kind \in Kinds : StoreRows(contract, w, kind) # {}
      BY <3>3 DEF Kinds
    <3>5. \A kind \in Kinds : RowsOf(w, kind) = {} => StoreRows(contract, w, kind) = {}
      BY DEF StoreRows
    <3>6. QED
      BY <3>4, <3>5
  <2>4. ~AssemblyRefused(contract, w)
    BY <2>1, <2>2 DEF AssemblyRefused, Ready, Problem
  <2>5. ~LendersRefused(contract, w)
    BY DEF LendersRefused
  <2>6. ASSUME NEW kind \in Kinds
        PROVE  MissingFields(contract, kind, StoredHeaders(w, kind)) = {}
    <3>1. \A r \in RowsOf(w, kind) : bucket[Key(uploads[r])].kept = uploads[r].kept
      BY <2>1 DEF Intact, RowsOf, DoorInv, RecordsAreOfTheFile
    <3>2. StoredHeaders(w, kind) = {uploads[r].kept : r \in RowsOf(w, kind)}
      BY <3>1 DEF StoredHeaders
    <3>3. QED
      BY <2>2, <2>3, <3>2 DEF Ready, Problem
  <2>7. ASSUME NEW kind \in Kinds
        PROVE  ~CheckStoresRefused(PartialRoster(contract, setup.declared[w]),
                                   StoreRows(contract, w, kind))
    <3>1. {"expected", "optional"} \subseteq DOMAIN contract
      BY SetupsAssumption DEF DoorInv, DoorTypeOK
    <3>2. MissingStores(contract, w) = {} \/ Covered(contract, w)
      BY DEF Ready
    <3>3. QED
      BY <2>1, <3>1, <3>2, RosterMet
  <2>8. QED
    BY <2>3, <2>4, <2>5, <2>6, <2>7 DEF RunStops
<1>2. QED
  BY <1>1, DoorInvariant, PTL

=============================================================================
