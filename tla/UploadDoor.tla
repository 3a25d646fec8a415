----------------------------- MODULE UploadDoor -----------------------------
(***************************************************************************)
(* What the upload door makes sure of (api.upload_export, uploads.py), and *)
(* what the window's plan (api.upload_plan) and a run (materialize.py,     *)
(* naming.py, read_parts, check_stores) make of the same files later, when *)
(* the contract may have changed, files were rejected, the bucket lost or  *)
(* altered an object, and earlier windows lend their order files.          *)
(*                                                                         *)
(* Windows are of TikTok or Shopee, whose files are orders and income.     *)
(* The two writes of an upload are one step here, and so is a run:         *)
(* UploadWindow has what happens in between.                               *)
(*                                                                         *)
(* A file name is a record of its place among the names of a folder in     *)
(* sorted order and of the text the contract's pattern reads the store     *)
(* from.  A uniform name has the store itself for a text.                  *)
(*                                                                         *)
(* A definition marked "Variant" is a plausible mistake in the one after   *)
(* it, kept to show that a property notices; nothing in DoorSpec uses it.  *)
(*                                                                         *)
(* No name here is one of UploadWindow's: UploadProofs extends both.       *)
(***************************************************************************)
EXTENDS Backfill

CONSTANTS
    Setups,     \* the deployments
    NotGiven,   \* the form's store field left empty
    NoBytes,    \* nothing is stored under a key
    Foreign,    \* contents nobody uploaded
    MaxFiles    \* files of one kind a window may have: the ordinal's width

ASSUME MaxFilesAssumption == MaxFiles \in Nat

VARIABLES
    setup,      \* the deployment: its windows, files, requests, contracts
    contract,   \* the contract a window resolves to, the current or a pinned one
    uploads,    \* the uploads table, by the sha256 of the file as it arrived
    bucket,     \* the object store: the bytes under each key
    index       \* upload_order_index: the rows of each upload

doorVars == <<setup, contract, uploads, bucket, index>>

Kinds == {"orders", "income"}

\* A request is for a window and a file of the deployment, and every contract has
\* a roster.
ASSUME SetupsAssumption ==
    \A s \in Setups :
        /\ \A q \in s.requests : /\ q.window \in s.windows
                                 /\ q.kind \in Kinds
                                 /\ q.raw \in DOMAIN s.files \ {Foreign}
        /\ \A c \in s.contracts : {"expected", "optional"} \subseteq DOMAIN c

-----------------------------------------------------------------------------
(* naming.py: a contract's pattern is the function from texts to stores.   *)

StoreOf(c, text) == IF text \in DOMAIN c.reads THEN c.reads[text] ELSE NoStore

\* validate_roundtrip: a uniform name of the store is read as that store.
RoundTrips(c, store) == StoreOf(c, store) = store

\* plan_window cannot name the files; the ordinals it gives keep their order.
PlanRefused(c, names) ==
    \/ Cardinality(names) > MaxFiles
    \/ \E n \in names :
        \/ StoreOf(c, n.text) = NoStore
        \/ ~RoundTrips(c, StoreOf(c, n.text))

-----------------------------------------------------------------------------
(* uploads.py: what the door makes of a file's contents. *)

Columns(c, kind) == DOMAIN c.columns[kind]

Fields(c, kind, headers) == {c.columns[kind][h] : h \in headers \cap Columns(c, kind)}

Required(kind) ==
    IF kind = "orders" THEN {"order_id", "unit_price_gross"} ELSE {"order_id", "statement_date"}

\* Required fields no file of the kind supplies: a part may lack some.
MissingFields(c, kind, headerSets) ==
    Required(kind) \ UNION {Fields(c, kind, headers) : headers \in headerSets}

\* _identify: the orders and the dates, if the columns they are in are known.
OrderIds(c, kind, headers, orders) ==
    IF "order_id" \in Fields(c, kind, headers) THEN orders ELSE {}

Dated(c, kind, headers) == "statement_date" \in Fields(c, kind, headers)

\* check_span: settlement dates, the first to the last, that do not meet the
\* window's month.
SpanRefused(c, w, kind, headers, days) ==
    /\ kind = "income"
    /\ Dated(c, kind, headers)
    /\ days \cap setup.month[w.month] = {}

-----------------------------------------------------------------------------
(* The uploads of a window. *)

Key(q) == <<q.window, q.kind, q.raw>>

Live(r) == uploads[r].state \in {"stored", "consumed"}

\* uploads_for_window, the files of one kind.
RowsOf(w, kind) ==
    {r \in DOMAIN uploads : Live(r) /\ uploads[r].window = w /\ uploads[r].kind = kind}

Names(rs) == {uploads[r].name : r \in rs}

SameName(rs) == \E r, s \in rs : r # s /\ uploads[r].name = uploads[s].name

\* by_name, filled in the order of the ids: the last of one name stays.
ByName(rs) ==
    {r \in rs : ~\E s \in rs : /\ uploads[s].name = uploads[r].name
                               /\ uploads[s].id > uploads[r].id}

\* verify_digest, of what download_to found.
Intact(r) == bucket[Key(uploads[r])] = uploads[r].digest

-----------------------------------------------------------------------------
(* materialize_window and materialize_predecessor_orders. *)

AssemblyRefused(c, w) ==
    \E kind \in Kinds :
        LET rs == RowsOf(w, kind)
        IN  SameName(rs) \/ PlanRefused(c, Names(rs)) \/ \E r \in rs : ~Intact(r)

Predecessors(w) == {v \in setup.windows : Earlier(v, w) /\ RowsOf(v, "orders") # {}}

\* Variant: of two files of one name the last one silently wins.
LenderUnnamed(c, v) == PlanRefused(c, Names(RowsOf(v, "orders")))

\* An earlier window whose files cannot be told apart or named.
LenderRefused(c, v) ==
    LET rs == RowsOf(v, "orders")
    IN  SameName(rs) \/ PlanRefused(c, Names(rs))

Lent(c, v) ==
    IF LenderRefused(c, v) THEN {} ELSE {r \in ByName(RowsOf(v, "orders")) : Intact(r)}

Degraded(c, v) == LenderRefused(c, v) \/ \E r \in ByName(RowsOf(v, "orders")) : ~Intact(r)

\* Only bytes that may become invoice lines are a reason to stop.
LendersRefused(c, w) == c.mode = "apply" /\ \E v \in Predecessors(w) : Degraded(c, v)

-----------------------------------------------------------------------------
(* The run on the assembled files: read_parts and check_stores, per kind. *)

StoredHeaders(w, kind) == {bucket[Key(uploads[r])].kept : r \in RowsOf(w, kind)}

\* The store a file's rows are invoiced under.
ReadStore(c, r) == CanonicalStore(c, StoreOf(c, uploads[r].name.text))

StoreRows(c, w, kind) == {[store |-> ReadStore(c, r)] : r \in RowsOf(w, kind)}

RunStops(c, w) ==
    \/ RosterRefused(c, setup.declared[w])
    \/ AssemblyRefused(c, w)
    \/ LendersRefused(c, w)
    \/ \E kind \in Kinds :
        \/ RowsOf(w, kind) = {}
        \/ MissingFields(c, kind, StoredHeaders(w, kind)) # {}
        \/ CheckStoresRefused(PartialRoster(c, setup.declared[w]), StoreRows(c, w, kind))

-----------------------------------------------------------------------------
(* GET /uploads/plan, from the rows alone. *)

Problem(c, w, kind) ==
    LET rs == ByName(RowsOf(w, kind))
    IN  \/ rs # {} /\ MissingFields(c, kind, {uploads[r].kept : r \in rs}) # {}
        \/ PlanRefused(c, Names(rs))

\* roster_gap, of the stores the door recorded.
MissingStores(c, w) ==
    LET rs == UNION {RowsOf(w, kind) : kind \in Kinds}
    IN  c.expected \ ({uploads[r].canonical : r \in rs} \cup c.optional)

Covered(c, w) ==
    LET stores == setup.declared[w]
    IN  stores # NotDeclared /\ (stores = {} \/ MissingStores(c, w) \subseteq stores)

Ready(c, w) ==
    /\ ~\E kind \in Kinds : Problem(c, w, kind)
    /\ MissingStores(c, w) = {} \/ Covered(c, w)

-----------------------------------------------------------------------------
DoorInit ==
    /\ setup \in Setups
    /\ contract \in setup.contracts
    /\ uploads = << >>
    /\ bucket = [k \in {Key(q) : q \in setup.requests} |-> NoBytes]
    /\ index = << >>

Declared(c, q) == IF q.store = NotGiven THEN StoreOf(c, q.name.text) ELSE q.store

Canonical(c, q) == CanonicalStore(c, Declared(c, q))

\* Every refusal of the door, in its order; a file name the pattern does not
\* read is refused also when a store is given.
DoorRefuses(c, q) ==
    \/ StoreOf(c, q.name.text) = NoStore
    \/ ~RoundTrips(c, Canonical(c, q))
    \/ c.expected # {} /\ Canonical(c, q) \notin c.expected
    \/ setup.files[q.raw].headers \cap Columns(c, q.kind) = {}
    \/ SpanRefused(c, q.window, q.kind, setup.files[q.raw].headers, setup.files[q.raw].days)

\* sanitize: the columns the contract names, in a new workbook whose bytes also
\* depend on when it was written.
Sanitized(c, q, writing) ==
    [raw |-> q.raw, writing |-> writing,
     kept |-> setup.files[q.raw].headers \cap Columns(c, q.kind)]

\* Variant: the columns recorded are those of the file as it arrived.
InsertedWhole(c, q, bytes) ==
    [state |-> "stored", id |-> Cardinality(DOMAIN uploads) + 1, window |-> q.window,
     kind |-> q.kind, name |-> q.name, canonical |-> Canonical(c, q), kept |-> setup.files[q.raw].headers,
     digest |-> bytes, raw |-> q.raw, indexed |-> FALSE]

InsertedRow(c, q, bytes) ==
    [state |-> "stored", id |-> Cardinality(DOMAIN uploads) + 1, window |-> q.window,
     kind |-> q.kind, name |-> q.name, canonical |-> Canonical(c, q), kept |-> bytes.kept,
     digest |-> bytes, raw |-> q.raw, indexed |-> FALSE]

\* The rows of the index that bytes give, under the store the door recorded.
IndexRows(c, upload, bytes) ==
    {upload.canonical} \X OrderIds(c, upload.kind, bytes.kept, setup.files[bytes.raw].orders)

Index(r, upload, bytes) ==
    /\ uploads' = With(uploads, [x \in {r} |-> [upload EXCEPT !.indexed = TRUE]])
    /\ index' = With(index, [x \in {r} |-> IndexRows(contract, upload, bytes)])

\* POST /uploads: the object is put, also for bytes that are on record already,
\* the row is inserted unless they are, and the index is written if that works.
\* A bound: only the setup's "touched" files are posted again, lost or altered.
UploadExport(q) ==
    /\ ~DoorRefuses(contract, q)
    /\ q.raw \in DOMAIN uploads => q.raw \in setup.touched
    /\ LET again == q.raw \in DOMAIN uploads
           bytes == Sanitized(contract, q, IF again THEN "again" ELSE "first")
       IN  /\ bucket' = [bucket EXCEPT ![Key(q)] = bytes]
           /\ \/ again /\ UNCHANGED <<uploads, index>>
              \/ ~again /\ Index(q.raw, InsertedRow(contract, q, bytes), bytes)
              \/ /\ ~again
                 /\ uploads' = With(uploads, [x \in {q.raw} |-> InsertedRow(contract, q, bytes)])
                 /\ UNCHANGED index
    /\ UNCHANGED <<setup, contract>>

\* reject_upload: the row, not the index or the object.
RejectFile(r) ==
    /\ uploads[r].state = "stored"
    /\ uploads' = [uploads EXCEPT ![r].state = "rejected"]
    /\ UNCHANGED <<setup, contract, bucket, index>>

\* The bucket loses an object, or answers with other bytes than it was given.
LoseObject(r) ==
    /\ r \in setup.touched
    /\ Intact(r)
    /\ bucket' = [bucket EXCEPT ![Key(uploads[r])] = NoBytes]
    /\ UNCHANGED <<setup, contract, uploads, index>>

AlterObject(r) ==
    /\ r \in setup.touched
    /\ Intact(r)
    /\ bucket' = [bucket EXCEPT ![Key(uploads[r])].raw = Foreign]
    /\ UNCHANGED <<setup, contract, uploads, index>>

\* A change of the contract takes effect, or of a window's pin.
AmendContract(c) ==
    /\ contract' = c
    /\ UNCHANGED <<setup, uploads, bucket, index>>

\* Variant: whatever is stored under the key is indexed.
ReadableAtAll(r) == bucket[Key(uploads[r])] # NoBytes

\* What order_index reads a file of: the bytes must be those of the door.
ReadableForIndex(r) == Intact(r)

\* python -m service.order_index --backfill, one upload.
BackfillIndex(r) ==
    /\ Live(r)
    /\ ~uploads[r].indexed
    /\ ReadableForIndex(r)
    /\ Index(r, uploads[r], bucket[Key(uploads[r])])
    /\ UNCHANGED <<setup, contract, bucket>>

\* A run that is not stopped: its files are consumed.  One without uploads
\* reads the input folder instead.
RunWindow(w) ==
    /\ ~RunStops(contract, w)
    /\ uploads' = [r \in DOMAIN uploads |-> IF Live(r) /\ uploads[r].window = w
                                            THEN [uploads[r] EXCEPT !.state = "consumed"]
                                            ELSE uploads[r]]
    /\ UNCHANGED <<setup, contract, bucket, index>>

DoorNext ==
    \/ \E q \in setup.requests : UploadExport(q)
    \/ \E r \in DOMAIN uploads :
        RejectFile(r) \/ LoseObject(r) \/ AlterObject(r) \/ BackfillIndex(r)
    \/ \E c \in setup.contracts : AmendContract(c)
    \/ \E w \in setup.windows : RunWindow(w)

DoorSpec == DoorInit /\ [][DoorNext]_doorVars

-----------------------------------------------------------------------------
DoorTypeOK ==
    /\ setup \in Setups
    /\ contract \in setup.contracts
    /\ DOMAIN uploads \subseteq DOMAIN setup.files \ {Foreign}
    /\ IsFiniteSet(DOMAIN uploads)
    /\ DOMAIN bucket = {Key(q) : q \in setup.requests}
    /\ DOMAIN index \subseteq DOMAIN uploads
    /\ \A r \in DOMAIN uploads :
        /\ DOMAIN uploads[r] = {"state", "id", "window", "kind", "name", "canonical",
                                "kept", "digest", "raw", "indexed"}
        /\ uploads[r].state \in {"stored", "consumed", "rejected"}
        /\ uploads[r].window \in setup.windows
        /\ uploads[r].kind \in Kinds
        /\ Key(uploads[r]) \in DOMAIN bucket
        /\ uploads[r].id \in 1..Cardinality(DOMAIN uploads)
        /\ uploads[r].indexed = (r \in DOMAIN index)

\* "A preview that disagreed with the control would be worse than none."  A
\* window whose plan says ready does run, for all that was accepted, rejected,
\* consumed, amended and declared since, if it has files of each store and kind
\* on the roster, no two of one name and kind, the objects are as the door left
\* them, no lender can stop it, and each file's name still gives the store it
\* was accepted for: a store corrected at the door is corrected in the row only.
ReadyWindowRuns ==
    \A w \in setup.windows :
        LET rs == UNION {RowsOf(w, kind) : kind \in Kinds}
        IN  /\ Ready(contract, w)
            /\ contract.mode # "apply"
            /\ ~RosterRefused(contract, setup.declared[w])
            /\ rs # {} /\ StoreRows(contract, w, "orders") = StoreRows(contract, w, "income")
            /\ \A kind \in Kinds : ~SameName(RowsOf(w, kind))
            /\ \A r \in rs : /\ Intact(r)
                             /\ ReadStore(contract, r) = uploads[r].canonical
                             /\ contract.expected # {} => uploads[r].canonical \in contract.expected
            => ~RunStops(contract, w)

\* Under "apply" a run that goes on has read every order file of every earlier
\* window, with the bytes the door recorded: none was lost, altered, or hidden
\* behind another of its name.
LendersAreWhole ==
    \A w \in setup.windows :
        contract.mode = "apply" /\ ~RunStops(contract, w) =>
            \A v \in Predecessors(w) : Lent(contract, v) = RowsOf(v, "orders")

\* The index tells where an order's lines came from: under an upload it has
\* orders of that file only, whatever the bucket answers when it is filled in.
IndexIsOfTheFile ==
    \A r \in DOMAIN index :
        index[r] \subseteq {uploads[r].canonical} \X setup.files[r].orders

-----------------------------------------------------------------------------
(* What they rest on.                                                      *)

\* What is on record of a file is what the door made of it: its digest is of the
\* file's own bytes, with the columns the row names.
RecordsAreOfTheFile ==
    \A r \in DOMAIN uploads :
        /\ uploads[r].raw = r
        /\ uploads[r].digest.raw = r
        /\ uploads[r].digest.kept = uploads[r].kept

DoorInv == DoorTypeOK /\ RecordsAreOfTheFile /\ IndexIsOfTheFile

=============================================================================
