------------------------------ MODULE Backfill ------------------------------
(***************************************************************************)
(* Borrowing the SKU lines of an order from the window that exported them: *)
(* backfill.py.  A settled order whose lines are not in the window's own   *)
(* order files takes them from the nearest earlier window of the series    *)
(* that has it, and from that one only; in mode "report" the lines are     *)
(* found and named but not used.                                           *)
(*                                                                         *)
(* "tree" is the input folder: a set of files.  A window is a record of    *)
(* the month, the series' letter and the ordinal its label is made of, the *)
(* ordinal as the characters it is compared by.                            *)
(***************************************************************************)
EXTENDS Exports

-----------------------------------------------------------------------------
(* Which windows are earlier. *)

\* The order of strings: "10" comes before "2".
TextBefore(a, b) ==
    \E n \in 0..Len(a) :
        /\ \A i \in 1..n : i <= Len(b) /\ a[i] = b[i]
        /\ n < Len(b)
        /\ n = Len(a) \/ a[n + 1] < b[n + 1]

SameSeries(v, w) == v.month = w.month /\ v.letter = w.letter

\* predecessor_labels: same month and letter, a smaller ordinal.
Earlier(v, w) == SameSeries(v, w) /\ TextBefore(v.ordinal, w.ordinal)

FilesOf(tree, w, kind) == {f \in tree : f.window = w /\ f.kind = kind}

\* Variant: any other window of the series.
Siblings(tree, w) ==
    {v \in {f.window : f \in tree} :
        v # w /\ SameSeries(v, w) /\ FilesOf(tree, v, "orders") # {}}

\* A window counts once it has an orders folder.
PredecessorWindows(tree, w) ==
    {v \in {f.window : f \in tree} : Earlier(v, w) /\ FilesOf(tree, v, "orders") # {}}

-----------------------------------------------------------------------------
(* Borrowing. *)

\* Files of stores nobody asks for are not opened; one whose store cannot be
\* told, neither.
Prefiltered(c, files, needed) ==
    {f \in files : /\ f.store # NoStore
                   /\ CanonicalStore(c, f.store) \in {pair[1] : pair \in needed}}

\* The same reading path as the window's own parts, without their dedupe.
\* required_columns is not looked at either.
PredecessorRefused(c, files) ==
    \/ \E f \in files : f.protected
    \/ NormalizeRefused(c, "orders", ReadFiles(files))

PredecessorLines(c, tree, v, needed) ==
    LET files == Prefiltered(c, FilesOf(tree, v, "orders"), needed)
    IN  IF PredecessorRefused(c, files) THEN {}
        ELSE {row \in NormalizeParts(c, "orders", ReadFiles(files)) : Pair(row) \in needed}

\* Variant: every window that has the order lends its lines.
RemainingAlways(c, tree, w, v, needed) == needed

\* What is left to find when the search, nearest first, gets to v.
Remaining(c, tree, w, v, needed) ==
    needed \ UNION {Pairs(PredecessorLines(c, tree, u, needed)) :
                        u \in {u \in PredecessorWindows(tree, w) : Earlier(v, u)}}

SuppliedBy(c, tree, w, v, needed) ==
    {row \in PredecessorLines(c, tree, v, needed) :
        Pair(row) \in Remaining(c, tree, w, v, needed)}

BorrowOrderLines(c, tree, w, needed) ==
    UNION {SuppliedBy(c, tree, w, v, needed) : v \in PredecessorWindows(tree, w)}

\* In mode "apply" a predecessor the search gets to and cannot read stops the
\* run: its rows would have been invoice lines.
BorrowRefused(c, tree, w, needed) ==
    /\ c.mode = "apply"
    /\ \E v \in PredecessorWindows(tree, w) :
          /\ Remaining(c, tree, w, v, needed) # {}
          /\ PredecessorRefused(c, Prefiltered(c, FilesOf(tree, v, "orders"), needed))

-----------------------------------------------------------------------------
(* resolve: what the run uses, and what it reports. *)

Modes == {"off", "report", "apply"}

Needed(orders, settled) == Pairs(settled) \ Pairs(orders)

ResolveRefused(c, tree, w, orders, settled) ==
    \/ c.mode \notin Modes
    \/ /\ c.mode # "off"
       /\ BorrowRefused(c, tree, w, Needed(orders, settled))

\* What the run goes on with, and what the borrowed orders are worth in the
\* platform's settled amount.
Found(c, orders, settled, moneyColumn, borrowed) ==
    LET applied == c.mode = "apply" /\ borrowed # {}
    IN  [orders   |-> IF applied THEN orders \cup borrowed ELSE orders,
         borrowed |-> borrowed,
         applied  |-> applied,
         money    |-> SumOf({row \in settled : Pair(row) \in Pairs(borrowed)}, moneyColumn)]

Resolve(c, tree, w, orders, settled, moneyColumn) ==
    Found(c, orders, settled, moneyColumn,
          IF c.mode = "off" THEN {}
          ELSE BorrowOrderLines(c, tree, w, Needed(orders, settled)))

\* One row per order, window and file.
CrossWindowRows(found) ==
    {[store |-> row.store, order |-> row.order, source |-> row.window,
      file |-> row.file, applied |-> found.applied] : row \in found.borrowed}
=============================================================================
