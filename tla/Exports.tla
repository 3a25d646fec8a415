------------------------------- MODULE Exports -------------------------------
(***************************************************************************)
(* Reading a window's export files: ingest.py.                             *)
(*                                                                         *)
(* A file is a record of what reading it gives: the window and kind of its *)
(* folder, the storefront its name carries, whether it is protected,       *)
(* whether it is mapped, and its rows.  An order file is mapped if the     *)
(* contract names its quantity header, an income file if it has a header   *)
(* the contract names for the product subsidy, which only Shopee's have:   *)
(* no such header is required, so a file may be read without it.  A        *)
(* row is a record with a number "at" no other row of the input has, so    *)
(* that two rows with the same cells are still two rows.  Amounts are VND  *)
(* and Unreadable is a cell the contract's number style cannot parse;      *)
(* dates are day numbers and Undated one that could not be read.           *)
(*                                                                         *)
(* Every operator takes c, the contract in force (settings.yaml or its     *)
(* rendered rows).                                                         *)
(***************************************************************************)
EXTENDS Integers, FiniteSets, FiniteSetsExt, Sequences, Functions

CONSTANTS
    Unreadable,     \* an amount cell that does not parse
    Undated,        \* a date cell that does not parse, or is empty
    NoStore,        \* a file name the contract's pattern does not match
    Unresolved,     \* an alias the contract still has to decide: TODO-HUMAN
    NotDeclared     \* no roster declaration for a window

\* Which is not one that names no store.
ASSUME NotDeclaredAssumption == NotDeclared # {}

(***************************************************************************)
(* Storefronts are pairs of a name and a spelling: norm_store strips what  *)
(* exports and workbooks add around a name (numbering, case, "part 2",     *)
(* the suffix) and keeps the name.                                         *)
(***************************************************************************)
NormStore(store) == store[1]

CanonicalStore(c, store) ==
    IF store \in DOMAIN c.aliases /\ c.aliases[store] # Unresolved
    THEN c.aliases[store] ELSE store

\* The identity of an order, from pairs() on: never the order number alone.
Pair(row) == <<row.store, row.order>>
Pairs(rows) == {Pair(row) : row \in rows}

SumOf(rows, column) == MapThenSumSet(LAMBDA row : row[column], rows)

\* A row with columns assigned: a column it had already is replaced.
With(row, columns) ==
    [k \in DOMAIN row \cup DOMAIN columns |->
        IF k \in DOMAIN columns THEN columns[k] ELSE row[k]]

-----------------------------------------------------------------------------
(* One export at a time. *)

Amounts(kind) ==
    CASE kind = "orders" -> {"price", "qty", "discount"}
      [] kind = "income" -> {"gross", "net", "refund", "settled", "listed",
                             "refunded", "vouchers", "subsidy"}
      [] OTHER           -> {"amount"}

Dates(kind) ==
    CASE kind = "orders" -> {"created"}
      [] kind = "income" -> {"day", "created"}
      [] OTHER           -> {"day"}

\* An unparseable amount is NaN, which every later sum counts as nothing.
ToNumber(cell) == IF cell = Unreadable THEN 0 ELSE cell

\* The columns a file is read without.
Unmapped(f) ==
    CASE f.mapped          -> {}
      [] f.kind = "orders" -> {"qty"}
      [] f.kind = "income" -> {"subsidy"}
      [] OTHER             -> {}

\* The file's rows, under the store its name gives.  A header the contract
\* does not map leaves its column out, and the concatenation with the other
\* parts pads it with blanks, which to_number reads as 0.
FileRow(f, r) ==
    With(With(r, [store |-> f.store, file |-> f.file, window |-> f.window]),
         [k \in Unmapped(f) |-> 0])

FileRows(f) == {FileRow(f, r) : r \in f.rows}

ReadFiles(files) == UNION {FileRows(f) : f \in files}

\* A sensitivity label, a password, a legacy container; or no store name.
FileRefused(f) == f.protected \/ f.store = NoStore

\* Parsing, trimming and the aliases.
NormalizeRow(c, kind, row) ==
    [k \in DOMAIN row |->
        CASE k \in Amounts(kind) -> ToNumber(row[k])
          [] k = "store"         -> CanonicalStore(c, row.store)
          [] OTHER               -> row[k]]

NormalizeParts(c, kind, rows) == {NormalizeRow(c, kind, row) : row \in rows}

\* Cells that do not parse stop the run unless the contract says to warn; a
\* date that does not parse is only a warning unless it says to stop.
NormalizeRefused(c, kind, rows) ==
    \/ /\ c.numericCoercion = "hard_stop"
       /\ \E row \in rows, k \in Amounts(kind) : row[k] = Unreadable
    \/ /\ c.dateCoercion = "hard_stop"
       /\ \E row \in rows, k \in Dates(kind) : row[k] = Undated

-----------------------------------------------------------------------------
(* A folder of parts: read_parts. *)

Cells(row) == Restrict(row, DOMAIN row \ {"at", "file"})

\* drop_duplicates over every column but the file: the first copy stays.
Deduplicated(rows) ==
    {row \in rows : ~\E other \in rows : /\ Cells(other) = Cells(row)
                                         /\ other.at < row.at}

RawParts(c, files) ==
    IF c.dedupeRows THEN Deduplicated(ReadFiles(files)) ELSE ReadFiles(files)

\* A quantity is required of some part, a product subsidy of none.
PartsRefused(c, kind, files) ==
    \/ files = {}
    \/ \E f \in files : FileRefused(f)
    \/ kind = "orders" /\ \A f \in files : ~f.mapped
    \/ NormalizeRefused(c, kind, RawParts(c, files))

ReadParts(c, kind, files) == NormalizeParts(c, kind, RawParts(c, files))

-----------------------------------------------------------------------------
(* Settlement bounds, brands and the store-count check. *)

\* Rows settled outside the bounds the contract declares for the window are
\* another window's; a row without a date belongs to nobody and stays.
ApplySettlementBounds(c, window, income) ==
    IF window \notin DOMAIN c.bounds THEN income
    ELSE {row \in income :
            \/ row.day = Undated
            \/ /\ c.bounds[window].from <= row.day
               /\ row.day <= c.bounds[window].to}

\* The mapping is keyed by normalised names; a store it lacks keeps its own.
DeriveBrand(c, rows) ==
    {With(row, [brand |-> IF NormStore(row.store) \in DOMAIN c.brands
                          THEN c.brands[NormStore(row.store)] ELSE row.store])
        : row \in rows}

\* Variant: only what is missing stops the run.
CheckStoresMissing(c, rows) ==
    c.expected \ ({row.store : row \in rows} \cup c.optional) # {}

\* The exact roster of stores, those marked optional excepted.
CheckStoresRefused(c, rows) ==
    LET found == {row.store : row \in rows}
    IN  /\ c.expected # {}
        /\ \/ c.expected \ (found \cup c.optional) # {}
           \/ found \ c.expected # {}
-----------------------------------------------------------------------------
(* The roster a person declares for a window: apply_partial_roster and the *)
(* relaxation build_context makes of it. *)

\* A declaration that names a store the roster does not know is refused; one
\* that names none relaxes all of it.
RosterRefused(c, stores) == stores # NotDeclared /\ stores \ c.expected # {}

Relaxed(c, stores) ==
    CASE stores = NotDeclared -> {}
      [] stores = {}          -> c.expected
      [] OTHER                -> stores

PartialRoster(c, stores) == [c EXCEPT !.optional = @ \cup Relaxed(c, stores)]
=============================================================================
