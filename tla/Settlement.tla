----------------------------- MODULE Settlement -----------------------------
(***************************************************************************)
(* A window's settlement run from its input to its verdict: pipeline.py,   *)
(* what worker._execute gives it and keeps of it, the decisions people     *)
(* take on its exceptions, and the month's master built from the finance   *)
(* files.                                                                  *)
(*                                                                         *)
(* A setup is a deployment: a platform, its contract, where its masters    *)
(* are, the exports staged at the start and those that may still arrive,   *)
(* the windows that may be run, the jobs, and what people may declare and  *)
(* supply.                                                                 *)
(* Runs are one at a time here: JobQueue has what runs them, ConfigPins    *)
(* which contract they get, UploadWindow which files.                      *)
(*                                                                         *)
(* A definition marked "Variant" is a plausible mistake in the one after   *)
(* it, kept to show that a property notices; nothing in Spec uses it.      *)
(***************************************************************************)
EXTENDS MasterSummary, OrderIndex

CONSTANTS
    Setups,         \* the deployments
    Blank,          \* a field of the references' form left empty
    Clerks,         \* people who clear decisions
    MaxRuns,        \* bound on the runs of a behaviour
    MaxDecisions    \* bound on the decisions of a behaviour

ASSUME BoundsAssumption == {MaxRuns, MaxDecisions} \subseteq Nat

\* What the contract always has, rendered or read from settings.yaml.
ContractFields ==
    {"mode", "dedupeRows", "numericCoercion", "dateCoercion", "bounds", "aliases", "expected",
     "optional", "brands", "vatDefault", "rates", "buckets", "tolerance", "mastersFile",
     "revenueBucket", "promoBuckets", "variants"}

Windows == [month : Nat, letter : Nat, ordinal : Seq(Nat)]

\* The exports a deployment may ever see.
ExportsOf(dep) == dep.base \cup dep.exports

\* A platform is a code path, a window has a label, and an export finitely many
\* rows, which have an order (none, on some rows of a ledger) and, on an income
\* file, the day paid.  "recorded" gives, of the exports that come through the
\* upload door, the store each is recorded under: the one its name carries, or
\* what the form says instead.
ASSUME SetupsAssumption ==
    \A dep \in Setups :
        /\ dep.platform \in {"tiktok", "shopee", "lazada"}
        /\ ContractFields \subseteq DOMAIN dep.contract
        /\ dep.windows \subseteq Windows
        /\ IsFiniteSet(ExportsOf(dep))
        /\ DOMAIN dep.recorded \subseteq ExportsOf(dep)
        /\ \A f \in ExportsOf(dep) :
              /\ f.window \in Windows
              /\ IsFiniteSet(f.rows)
              /\ \A row \in f.rows :
                    /\ {"at", "order"} \subseteq DOMAIN row
                    /\ row.at \in Nat
                    /\ f.kind = "income" => "day" \in DOMAIN row

\* What the amounts are added up from: the rows have the columns of their kind
\* but those the file is read without, with numbers or cells that do not parse
\* in them (the code fails on a frame that lacks another of these), the rates
\* are positive and the tolerances numbers.  The windows of other platforms in the month's master
\* are finance files of their own, one to a platform and label.
Columns(kind) ==
    CASE kind = "orders" -> {"sku"} \cup Amounts(kind)
      [] kind = "income" -> {"type", "created"} \cup Amounts(kind)
      [] OTHER           -> {"sku", "fee"} \cup Amounts(kind)

Rates(dep) ==
    {dep.contract.vatDefault}
    \cup UNION {{m.vat[sku] : sku \in DOMAIN m.vat} :
                  m \in {dep.live[name] : name \in DOMAIN dep.live} \cup {dep.snapshot}}

ASSUME AmountsAssumption ==
    \A dep \in Setups :
        /\ IsFiniteSet(dep.windows) /\ IsFiniteSet(dep.others)
        /\ Rates(dep) \subseteq Nat \ {0}
        /\ \A t \in {"conservation", "perStore", "priceRounding"} :
              dep.contract.tolerance[t] \in Int
        /\ \A f \in ExportsOf(dep) : \A row \in f.rows :
              /\ Columns(f.kind) \ Unmapped(f) \subseteq DOMAIN row
              /\ \A k \in Amounts(f.kind) \ Unmapped(f) : row[k] \in Int \cup {Unreadable}
        /\ \A window \in dep.others :
              /\ IsFiniteSet(DOMAIN window.totals)
              /\ \A s \in DOMAIN window.totals :
                    window.totals[s].pre \in Int /\ window.totals[s].wv \in Int
              /\ window.platform = dep.platform => window.label \notin dep.windows
              /\ \A same \in dep.others :
                    same.platform = window.platform /\ same.label = window.label => same = window

VARIABLES
    setup,      \* the deployment
    tree,       \* the exports staged so far
    index,      \* those among them whose orders are in the upload index
    declared,   \* the roster declaration of each window: stores, {} for all of them
    refs,       \* the team's reference totals for each window
    outcome,    \* the latest run of each window
    told,       \* what its log was told: the index then, and the windows it named
    runs,       \* how many there were
    decision,   \* the disposition of each exception decided on, by fingerprint
    clearing,   \* the clears under way: the fingerprint and what they found
    history     \* exception_disposition_events

inputVars == <<setup, tree, index, declared, refs>>
decisionVars == <<decision, clearing, history>>
vars == <<inputVars, outcome, told, runs, decisionVars>>

-----------------------------------------------------------------------------
(* _run_tiktok and _run_shopee. *)

Classified(platform, income) ==
    IF platform = "tiktok" THEN ClassifyTikTok(income) ELSE ClassifyShopee(income)

\* The orders that get lines: on TikTok the invoiced ones.
Settled(platform, classified) ==
    IF platform = "tiktok" THEN {row \in classified : row.status = "Good"} ELSE classified

ReadIncome(c, input, w) ==
    ApplySettlementBounds(c, w,
        DeriveBrand(c, ReadParts(c, "income", FilesOf(input, w, "income"))))

OrdersRefused(platform, c, input, w) ==
    LET parts(kind) == FilesOf(input, w, kind)
        orders  == ReadParts(c, "orders", parts("orders"))
        income  == ReadIncome(c, input, w)
        settled == Settled(platform, Classified(platform, income))
    IN  \/ PartsRefused(c, "orders", parts("orders"))
        \/ PartsRefused(c, "income", parts("income"))
        \/ CheckStoresRefused(c, orders)
        \/ CheckStoresRefused(c, income)
        \/ ResolveRefused(c, input, w, orders, settled)
        \/ WorkbookRefused(c, platform)

\* What _tie compares per store: TikTok's status totals, Shopee's invoice.
TikTokFigures(classified) ==
    LET good  == Settled("tiktok", classified)
        taken == {row \in classified : FinalStatus(row.status) = "take out"}
        rows  == [ok_good_settlement |-> good, ok_good_revenue |-> good,
                  takeout_settlement |-> taken,
                  raw_settlement |-> classified, raw_revenue |-> classified]
        Column(name) ==
            IF name \in {"ok_good_revenue", "raw_revenue"} THEN "gross" ELSE "net"
    IN  [s \in Stores(classified) |->
            [name \in {name \in DOMAIN rows : s \in Stores(rows[name])} |->
                SumOf(OfStore(rows[name], s), Column(name))]]

ShopeeFigures(lines) ==
    [s \in Stores(lines) |-> [ok_pre_vat  |-> SumOf(OfStore(lines, s), "pre"),
                              ok_with_vat |-> SumOf(OfStore(lines, s), "wv")]]

OrderExceptions(settled, column, sku, found, checks) ==
    [unmatched_orders    |-> Unmatched(settled, Pairs(sku)),
     order_coverage      |-> CoverageByStore(settled, Pairs(sku), column),
     cross_window_orders |-> CrossWindowRows(found),
     tieout_breaches     |-> Breaches(checks)]

ResolveOrders(c, input, w, settled, moneyColumn) ==
    Resolve(c, input, w, ReadParts(c, "orders", FilesOf(input, w, "orders")), settled, moneyColumn)

\* From the classified income and the order files as resolved.
WorkTikTok(c, masters, relaxed, classified, found) ==
    LET good   == Settled("tiktok", classified)
        sku    == ComputeTikTok(c, masters.vat, ExplodeToSku(good, found.orders))
        checks == RunChecksTikTok(c, good, sku, found)
    IN  [book |-> BuildTikTok(c, sku, relaxed),
         classified |-> classified, checks |-> checks, found |-> found,
         exceptions |-> OrderExceptions(good, "settled", sku, found, checks),
         figures    |-> TikTokFigures(classified),
         grand      |-> [pre_vat |-> SumOf(sku, "pre"), with_vat |-> SumOf(sku, "wv")],
         tolerance  |-> 1]

SettleTikTok(c, masters, input, w, relaxed) ==
    LET classified == ClassifyTikTok(ReadIncome(c, input, w))
    IN  WorkTikTok(c, masters, relaxed, classified,
                   ResolveOrders(c, input, w, Settled("tiktok", classified), "settled"))

\* Every settled order gets its lines, and what is invoiced are those of "ok".
WorkShopee(c, masters, relaxed, parts, income, classified, found) ==
    LET sku    == ComputeShopee(c, masters.vat, ExplodeToSku(classified, found.orders))
        ok     == {line \in sku : line.status = "ok"}
        checks == RunChecksShopee(c, classified, parts, income, sku, found)
    IN  [book |-> BuildShopee(c, sku, relaxed),
         classified |-> classified, checks |-> checks, found |-> found,
         exceptions |-> OrderExceptions(classified, "net", sku, found, checks),
         figures    |-> ShopeeFigures(ok),
         grand      |-> [pre_vat |-> SumOf(ok, "pre"), with_vat |-> SumOf(ok, "wv")],
         tolerance  |-> 2000]

SettleShopee(c, masters, input, w, relaxed) ==
    LET income     == ReadIncome(c, input, w)
        classified == ClassifyShopee(income)
    IN  WorkShopee(c, masters, relaxed, FilesOf(input, w, "income"), income, classified,
                   ResolveOrders(c, input, w, classified, "net"))

-----------------------------------------------------------------------------
(* _run_lazada. *)

LedgerFiles(input, w) == UNION {FilesOf(input, w, kind) : kind \in LedgerKinds}

LedgerRunRefused(c, masters, input, w) ==
    \/ MastersRefused(masters)
    \/ LedgerRefused(c, LedgerFiles(input, w))
    \/ CheckStoresRefused(c, ReadLedger(LedgerFiles(input, w)))
    \/ WorkbookRefused(c, "lazada")

LedgerFigures(classified) ==
    [s \in Stores(classified) |->
        [b \in {row.bucket : row \in OfStore(classified, s)} |->
            SumOf({row \in OfStore(classified, s) : row.bucket = b}, "amount")]]

SettleLedger(c, masters, input, w, relaxed) ==
    LET classified == ClassifyLedger(c, masters, ReadLedger(LedgerFiles(input, w)))
        revenue    == RevenueLines(c, classified)
        unmapped   == UnmappedFees(classified)
        checks     == RunChecksLazada(c, classified, revenue)
    IN  [book |-> BuildLazada(c, revenue, classified, relaxed),
         classified |-> classified, checks |-> checks,
         found |-> [borrowed |-> {}, applied |-> FALSE],
         exceptions |-> [unmapped_fees |-> unmapped],
         figures   |-> LedgerFigures(classified),
         grand     |-> [pre_vat_105 |-> SumOf(AtRate(revenue, 105), "pre"),
                        pre_vat     |-> SumOf(AtRate(revenue, 108), "pre"),
                        pre_vat_110 |-> SumOf(AtRate(revenue, 110), "pre")],
         tolerance |-> 1000]

-----------------------------------------------------------------------------
(* The findings: _masters_finding, consume_tieout, _tie and _tie_grand. *)

\* The reference's rows for a store: those of its name, or else the only name
\* it shortens or is shortened to.  Several spellings of a name add up.
ReferencesOf(dep, perStore, s) ==
    LET same  == {x \in DOMAIN perStore : NormStore(x) = NormStore(s)}
        alike == {x \in DOMAIN perStore : {NormStore(x), NormStore(s)} \in dep.shortened}
    IN  IF same # {} THEN same
        ELSE IF Cardinality({NormStore(x) : x \in alike}) = 1 THEN alike ELSE {}

StoreVariances(dep, figures, perStore) ==
    LET Varies(s, m) ==
            LET known == {x \in ReferencesOf(dep, perStore, s) : m \in DOMAIN perStore[x]}
            IN  /\ known # {}
                /\ Abs(figures[s][m] - MapThenSumSet(LAMBDA x : perStore[x][m], known)) >= 1
    IN  UNION {{s} \X {m \in DOMAIN figures[s] : Varies(s, m)} : s \in DOMAIN figures}

NotChecked(dep, figures, perStore) ==
    {s \in DOMAIN figures : ReferencesOf(dep, perStore, s) = {}}

GrandVariances(grand, team, default) ==
    {<<"GRAND", k>> : k \in
        {k \in DOMAIN grand \cap DOMAIN team.grand :
            Abs(grand[k] - team.grand[k])
                > IF "tolerance" \in DOMAIN team THEN team.tolerance ELSE default}}

Variances(dep, work, masters, team) ==
    (IF masters.source = "csv" THEN {<<"masters", "csv">>} ELSE {})
    \cup {<<"TIE-OUT", row.check>> : row \in Breaches(work.checks)}
    \cup StoreVariances(dep, work.figures, team.perStore)
    \cup GrandVariances(work.grand, team, work.tolerance)
    \cup {<<"unmapped", row.fee>> : row \in
            IF "unmapped_fees" \in DOMAIN work.exceptions THEN work.exceptions.unmapped_fees
            ELSE {}}

\* RunResult.status of a run that produced a workbook.
Status(variances, unchecked) ==
    IF variances # {} THEN "variance" ELSE IF unchecked # {} THEN "unverified" ELSE "ok"

-----------------------------------------------------------------------------
(***************************************************************************)
(* references.py: the totals a window's form takes are the grand totals    *)
(* _tie_grand compares and their tolerance, a blank one dropped; totals    *)
(* per store only come with a job, whose own win over the window's.        *)
(***************************************************************************)
NoTeam == [perStore |-> << >>, grand |-> << >>]

GrandFields(platform) ==
    IF platform = "lazada" THEN {"pre_vat_105", "pre_vat", "pre_vat_110"}
    ELSE {"pre_vat", "with_vat"}

ParseRefused(platform, supplied) ==
    DOMAIN supplied \ (GrandFields(platform) \cup {"tolerance"}) # {}

Parse(platform, supplied) ==
    LET given == {field \in DOMAIN supplied : supplied[field] # Blank}
    IN  With([NoTeam EXCEPT !.grand = Restrict(supplied, given \cap GrandFields(platform))],
             Restrict(supplied, given \cap {"tolerance"}))

Merge(windowRefs, jobRefs) ==
    [With(windowRefs, jobRefs) EXCEPT !.grand = With(windowRefs.grand, jobRefs.grand)]

\* _roster_declaration: a job of before declarations existed may say partial,
\* which counts where the window has none.
RosterDeclaration(stores, job) ==
    IF stores = NotDeclared /\ job.partial THEN {} ELSE stores

-----------------------------------------------------------------------------
(* run: everything a run of a deployment reads, and what it leaves. *)

Masters(dep) == LoadMasters(MastersName(dep.contract), dep.live, dep.snapshot)

\* A ledger run's fees and rates are looked up once more, without the settings.
FeeMasters(dep) == LedgerMasters(dep.live, dep.snapshot)

Refused(dep, input, w, stores) ==
    \/ RosterRefused(dep.contract, stores)
    \/ LET c == PartialRoster(dep.contract, stores)
       IN  IF dep.platform = "lazada" THEN LedgerRunRefused(c, FeeMasters(dep), input, w)
           ELSE OrdersRefused(dep.platform, c, input, w)

Settle(dep, input, w, stores) ==
    LET c       == PartialRoster(dep.contract, stores)
        relaxed == Relaxed(dep.contract, stores)
    IN  CASE dep.platform = "lazada" -> SettleLedger(c, FeeMasters(dep), input, w, relaxed)
          [] dep.platform = "tiktok" -> SettleTikTok(c, Masters(dep), input, w, relaxed)
          [] OTHER                   -> SettleShopee(c, Masters(dep), input, w, relaxed)

Concluded(dep, work, asked) ==
    LET variances == Variances(dep, work, Masters(dep), asked.team)
        unchecked == NotChecked(dep, work.figures, asked.team.perStore)
    IN  [status |-> Status(variances, unchecked), asked |-> asked,
         variances |-> variances, unchecked |-> unchecked,
         book |-> work.book, classified |-> work.classified, checks |-> work.checks,
         found |-> work.found, exceptions |-> work.exceptions]

RunResult(dep, input, w, stores, team) ==
    LET asked == [input |-> input, stores |-> stores, team |-> team]
    IN  IF Refused(dep, input, w, stores)
        THEN [status |-> "hard_stop", asked |-> asked]
        ELSE Concluded(dep, Settle(dep, input, w, stores), asked)

\* _report_order_coverage, of the uploads in the index.  Where the query fails
\* the log says that nothing is reported, which is left out.
Upload(dep, f) ==
    [window |-> f.window, kind |-> f.kind, store |-> dep.recorded[f], rows |-> f.rows]

Report(dep, entries, w) ==
    [index |-> entries,
     holders |-> Holders(dep.contract, {Upload(dep, f) : f \in entries}, w)]

NoRun == [status |-> "none"]
NoReport == [index |-> {}, holders |-> {}]
Produced(w) == outcome[w].status \in {"ok", "unverified", "variance"}

-----------------------------------------------------------------------------
(* Exceptions: what is stored of a run's, and how a row is known again. *)

IdentityColumns(sheet) ==
    CASE sheet \in {"unmatched_orders", "cross_window_orders"} -> {"store", "order"}
      [] sheet = "unmapped_fees"                               -> {"store", "fee"}
      [] sheet = "tieout_breaches"                             -> {"check"}
      [] sheet = "order_coverage"                              -> {"store"}

Fingerprint(sheet, row) == <<sheet, Restrict(row, IdentityColumns(sheet))>>

\* What exception_history finds.
Fingerprints(w) ==
    IF ~Produced(w) THEN {}
    ELSE UNION {{Fingerprint(sheet, row) : row \in outcome[w].exceptions[sheet]} :
                  sheet \in DOMAIN outcome[w].exceptions}

-----------------------------------------------------------------------------
Init ==
    /\ setup \in Setups
    /\ tree = setup.base
    /\ index = setup.base \cap DOMAIN setup.recorded
    /\ declared = [w \in setup.windows |-> NotDeclared]
    /\ refs = [w \in setup.windows |-> NoTeam]
    /\ outcome = [w \in setup.windows |-> NoRun]
    /\ told = [w \in setup.windows |-> NoReport]
    /\ runs = 0
    /\ decision = << >>
    /\ clearing = {}
    /\ history = << >>

\* An export is staged in the input folder, or uploaded.  The index is written
\* once the upload is on record, and a write that fails fails nothing else.
Stage(f) ==
    /\ f \notin tree
    /\ tree' = tree \cup {f}
    /\ \/ UNCHANGED index
       \/ f \in DOMAIN setup.recorded /\ index' = index \cup {f}
    /\ UNCHANGED <<setup, declared, refs, outcome, told, runs, decisionVars>>

\* order_index.backfill, one upload: UploadDoor has which it reads.
BackfillIndex(f) ==
    /\ f \in tree \cap DOMAIN setup.recorded
    /\ f \notin index
    /\ index' = index \cup {f}
    /\ UNCHANGED <<setup, tree, declared, refs, outcome, told, runs, decisionVars>>

\* declare_window_roster, and its withdrawal.
Declare(w, stores) ==
    /\ declared' = [declared EXCEPT ![w] = stores]
    /\ UNCHANGED <<setup, tree, index, refs, outcome, told, runs, decisionVars>>

\* set_references, or clear_references when nothing is left of them.
Supply(w, supplied) ==
    /\ ~ParseRefused(setup.platform, supplied)
    /\ refs' = [refs EXCEPT ![w] = Parse(setup.platform, supplied)]
    /\ UNCHANGED <<setup, tree, index, declared, outcome, told, runs, decisionVars>>

\* A job runs: what the window declares and supplies is read, and the job's
\* own; the exceptions of a run that succeeds are stored with it.
RunWindow(w, job) ==
    /\ runs < MaxRuns
    /\ runs' = runs + 1
    /\ outcome' = [outcome EXCEPT ![w] =
                    RunResult(setup, tree, w, RosterDeclaration(declared[w], job),
                              Merge(refs[w], job.refs))]
    /\ told' = [told EXCEPT ![w] = Report(setup, index, w)]
    /\ UNCHANGED <<inputVars, decisionVars>>

\* set_exception_disposition: the row and its event in one transaction, of an
\* exception some run has produced.
Mark(fingerprint, disposition) ==
    /\ Len(history) < MaxDecisions
    /\ decision' = With(decision, [f \in {fingerprint} |-> disposition])
    /\ history' = Append(history, [fingerprint |-> fingerprint, action |-> "mark",
                                   disposition |-> disposition])
    /\ UNCHANGED <<inputVars, outcome, told, runs, clearing>>

\* clear_exception_disposition: the row is read without a lock, so that it may
\* be marked again or deleted by another clear before this one deletes it.
BeginClear(clerk, fingerprint) ==
    /\ fingerprint \in DOMAIN decision
    /\ \A clear \in clearing : clear.by # clerk
    /\ clearing' = clearing \cup {[by |-> clerk, fingerprint |-> fingerprint,
                                  released |-> decision[fingerprint]]}
    /\ UNCHANGED <<inputVars, outcome, told, runs, decision, history>>

\* Variant: the event is written whether or not a row was deleted.
EndClearAnyway(clear) ==
    /\ decision' = Restrict(decision, DOMAIN decision \ {clear.fingerprint})
    /\ history' = Append(history, [fingerprint |-> clear.fingerprint, action |-> "clear",
                                   disposition |-> clear.released])
    /\ clearing' = clearing \ {clear}
    /\ UNCHANGED <<inputVars, outcome, told, runs>>

\* An event only if this clear deleted the row.
EndClear(clear) ==
    /\ clearing' = clearing \ {clear}
    /\ decision' = Restrict(decision, DOMAIN decision \ {clear.fingerprint})
    /\ history' = IF clear.fingerprint \in DOMAIN decision
                  THEN Append(history, [fingerprint |-> clear.fingerprint, action |-> "clear",
                                        disposition |-> clear.released])
                  ELSE history
    /\ UNCHANGED <<inputVars, outcome, told, runs>>

Next ==
    \/ \E f \in setup.exports : Stage(f)
    \/ \E f \in tree : BackfillIndex(f)
    \/ \E w \in setup.windows, job \in setup.jobs : RunWindow(w, job)
    \/ \E w \in setup.windows, stores \in setup.declarations : Declare(w, stores)
    \/ \E w \in setup.windows, supplied \in setup.references : Supply(w, supplied)
    \/ \E w \in setup.windows, disposition \in setup.dispositions :
          \E fingerprint \in Fingerprints(w) : Mark(fingerprint, disposition)
    \/ \E clerk \in Clerks, fingerprint \in DOMAIN decision : BeginClear(clerk, fingerprint)
    \/ \E clear \in clearing : EndClear(clear)

Spec == Init /\ [][Next]_vars

-----------------------------------------------------------------------------
\* What a run left is what it makes of the exports staged then; the rest of
\* what holds of an outcome follows from it.
RunsAreResults ==
    /\ setup \in Setups
    /\ tree \subseteq ExportsOf(setup)
    /\ DOMAIN outcome = setup.windows
    /\ \A w \in setup.windows : outcome[w] # NoRun =>
          LET asked == outcome[w].asked
          IN  /\ asked.input \subseteq tree
              /\ outcome[w] = RunResult(setup, asked.input, w, asked.stores, asked.team)

\* What a run's log was told is the report of the index as it was then, which
\* had no export that was not staged.
ReportsAreOfTheIndex ==
    /\ index \subseteq tree
    /\ DOMAIN told = setup.windows
    /\ \A w \in setup.windows : outcome[w] # NoRun =>
          /\ told[w].index \subseteq outcome[w].asked.input
          /\ told[w] = Report(setup, told[w].index, w)

Ordered == setup.platform # "lazada"

(***************************************************************************)
(* "Leaves the invoice as unmatched", "reported rather than silent": an    *)
(* order the income files settle for invoicing is on a line of the         *)
(* workbook or a row of the unmatched orders, as the order of its own      *)
(* storefront, and never both; a ledger's revenue is on a line or has no   *)
(* order.                                                                  *)
(***************************************************************************)
SettledIsOnRecord ==
    \A w \in setup.windows : Produced(w) =>
        LET r == outcome[w]
        IN  IF Ordered
            THEN \A row \in r.classified : FinalStatus(row.status) = "OK" =>
                    LET Same(other) == other.store = row.store /\ other.order = row.order
                        lines    == {line \in r.book.lines : Same(line)}
                        reported == {x \in r.exceptions.unmatched_orders : Same(x)}
                    IN  (lines = {}) # (reported = {})
            ELSE \A row \in r.classified : row.bucket = setup.contract.revenueBucket =>
                    \/ row.order = NoOrder
                    \/ \E line \in r.book.lines :
                          line.store = row.store /\ line.order = row.order /\ line.sku = row.sku

\* The rows of a row's order, and the loosest of some tolerances.
OfSame(rows, line) == {row \in rows : row.store = line.store /\ row.order = line.order}
Loosest(c, names) == Max({c.tolerance[t] : t \in names})

\* The sales of a store that its lines are of.
PaidTo(s, lines, income) ==
    {row \in income : \E line \in lines :
        row.store = s /\ row \in OfSame(income, line) /\ row.type = "Order"
          /\ row.created = line.created}

StoresAgree(c, lines, income) ==
    \A s \in Stores(lines) :
        Abs(SumOf(OfStore(lines, s), "wv") - SumOf(PaidTo(s, lines, income), "settled"))
          <= Loosest(c, {"conservation", "perStore"})

SalesOf(line, income) == {row \in OfSame(income, line) : row.type = "Order"}

OrdersAgree(c, lines, income) ==
    \A line \in lines :
        LET mine == OfSame(lines, line)
            paid == SalesOf(line, income)
        IN  (\A l \in mine : l.qty # 0) =>
              Abs(SumOf(mine, "wv") - SumOf(mine, "allocated")
                    - SumOf(paid, "gross") - SumOf(paid, "subsidy"))
                <= Loosest(c, {"conservation"})

LedgerAgrees(c, lines, classified) ==
    LET revenue   == RevenueRows(c, classified)
        orderless == {line \in RevenueLines(c, classified) : line.order = NoOrder}
        paired    == {row \in PromoRows(c, classified) :
                        \E x \in OfSame(revenue, row) : x.sku = row.sku}
    IN  Abs(SumOf(lines, "wv") + SumOf(orderless, "wv")
              - SumOf(revenue, "amount") - SumOf(paired, "amount"))
          <= Loosest(c, {"conservation", "priceRounding"})

(***************************************************************************)
(* "An error that nets to zero across stores still fires": a run without a *)
(* variance invoices what was settled, within the contract's tolerance.    *)
(* On TikTok store by store, on Shopee order by order (an order with a     *)
(* refund or a line of no quantity excepted, and the vouchers, which the   *)
(* income's revenue does not have), on Lazada as a whole, the revenue of   *)
(* no order included and net of the promotions.  The settled side is added *)
(* up from the income rows, the invoiced from the workbook's lines.  Where *)
(* no income export has Shopee's product subsidy nothing is asserted of    *)
(* its money, and the run's checks say so.                                 *)
(***************************************************************************)
CleanMeansMoneyAgrees ==
    \A w \in setup.windows : Produced(w) /\ outcome[w].status # "variance" =>
        LET r      == outcome[w]
            income == ReadIncome(setup.contract, r.asked.input, w)
        IN  CASE setup.platform = "tiktok" -> StoresAgree(setup.contract, r.book.lines, income)
              [] setup.platform = "shopee" ->
                    IF \E f \in FilesOf(r.asked.input, w, "income") : f.mapped
                    THEN OrdersAgree(setup.contract, r.book.lines, income)
                    ELSE MoneyNotVerified \in r.checks
              [] OTHER -> LedgerAgrees(setup.contract, r.book.lines, r.classified)

(***************************************************************************)
(* "A nearer window always wins and no order is ever supplied twice": the  *)
(* lines of an order borrowed for the invoice come from one earlier window *)
(* of the series, no order file of the run's own window or of a window     *)
(* between them having the order, readable or not.                         *)
(***************************************************************************)
HasOrder(f, store, order) ==
    /\ f.kind = "orders" /\ f.store # NoStore
    /\ CanonicalStore(setup.contract, f.store) = store
    /\ \E row \in f.rows : row.order = order

NearestWindowLends ==
    \A w \in setup.windows : Produced(w) /\ outcome[w].found.applied =>
        \A row \in outcome[w].found.borrowed :
            /\ Earlier(row.window, w)
            /\ \A f \in outcome[w].asked.input :
                  HasOrder(f, row.store, row.order) /\ f.window # row.window =>
                    Earlier(f.window, row.window) \/ ~(Earlier(f.window, w) \/ f.window = w)

\* What the log of a run was told before the run opened a file: the window it
\* then found an order's lines in was named, if the income export that settles
\* the order and an order file of that window that has it were in the index by
\* then, under the storefront they are read as, and no order file of the run's
\* own window under another one.  The index may lack any of them.
AsRead(f) ==
    CanonicalStore(setup.contract, setup.recorded[f]) = CanonicalStore(setup.contract, f.store)

Shows(f, kind, window, row) ==
    /\ f.kind = kind /\ f.window = window /\ AsRead(f)
    /\ CanonicalStore(setup.contract, f.store) = row.store
    /\ \E r \in f.rows : r.order = row.order

LendersWereNamed ==
    \A w \in setup.windows : Produced(w) =>
        \A row \in outcome[w].found.borrowed :
            /\ \E f \in told[w].index : Shows(f, "income", w, row)
            /\ \E f \in told[w].index : Shows(f, "orders", row.window, row)
            /\ \A f \in told[w].index : f.kind = "orders" /\ f.window = w => AsRead(f)
            => [store |-> row.store, order |-> row.order, window |-> row.window]
                  \in told[w].holders

(***************************************************************************)
(* "Reproducibility over recall": re-running a window gives the same       *)
(* workbook, exceptions and verdict whatever has arrived since, unless it  *)
(* is an export of the window or order files of an earlier one, or the     *)
(* declaration or the totals changed.                                      *)
(***************************************************************************)
Read(w, input) ==
    {f \in input : f.window = w \/ (f.kind = "orders" /\ Earlier(f.window, w))}

Reproduced(w) ==
    LET before == outcome[w]
        after  == outcome'[w]
    IN  /\ before.status # "none"
        /\ Read(w, after.asked.input) = Read(w, before.asked.input)
        /\ after.asked.stores = before.asked.stores
        /\ after.asked.team = before.asked.team
        => /\ after.status = before.status
           /\ Produced(w) => after.book = before.book /\ after.exceptions = before.exceptions

ReRunsReproduce == [][\A w \in setup.windows : Reproduced(w)]_vars

\* The stores whose exports of some kinds have a row of the window; a ledger's
\* names are taken as they are.
Kept(dep, w, f) ==
    IF f.kind = "income" THEN ApplySettlementBounds(dep.contract, w, f.rows) ELSE f.rows

StoreOf(dep, f) ==
    IF f.kind \in LedgerKinds THEN f.store ELSE CanonicalStore(dep.contract, f.store)

Present(dep, input, w, kinds) ==
    {StoreOf(dep, f) : f \in {f \in input :
                                f.window = w /\ f.kind \in kinds /\ Kept(dep, w, f) # {}}}

(***************************************************************************)
(* "Any other expected store still hard-stops if absent, and the           *)
(* unexpected-store check stays armed": behind a workbook, the exports of  *)
(* each kind that have a row (within the window's settlement bounds, where *)
(* it has them) are of every store of the roster but those the contract or *)
(* the window's declaration excuses, and of none besides; an excused store *)
(* that has none of any kind is named on the workbook.                     *)
(***************************************************************************)
RosterHolds ==
    \A w \in setup.windows : Produced(w) /\ setup.contract.expected # {} =>
        LET r == outcome[w]
            excused == IF r.asked.stores = {} THEN setup.contract.expected
                       ELSE IF r.asked.stores = NotDeclared THEN {} ELSE r.asked.stores
            PresentIn(kinds) == Present(setup, r.asked.input, w, kinds)
        IN  /\ \A kinds \in (IF Ordered THEN {{"orders"}, {"income"}} ELSE {LedgerKinds}) :
                  /\ setup.contract.expected \ PresentIn(kinds)
                        \subseteq excused \cup setup.contract.optional
                  /\ PresentIn(kinds) \subseteq setup.contract.expected
            /\ excused \ PresentIn({"orders", "income"} \cup LedgerKinds) \subseteq r.book.absent

(***************************************************************************)
(* The master of the month as the windows stand: its sheets are cuts of    *)
(* the same money, which is that of the finance files' lines, whatever     *)
(* spellings, brands and windows it is cut by.  A Lazada line at a rate    *)
(* the contract does not list is on no line tab, and not in the master.    *)
(***************************************************************************)
OnTabs(lines) ==
    {line \in lines : setup.platform = "lazada" => line.rate \in setup.contract.rates}

MonthWindows ==
    {ReadWindow(setup.platform, w, outcome[w].book) : w \in {v \in setup.windows : Produced(v)}}
        \cup setup.others

MasterAddsUp ==
    LET built == BuildMaster(setup.brandMap, MonthWindows)
    IN  /\ Added(built.byBrand) = built.wv
        /\ Added(built.byStorefront) = built.wv
        /\ built.pre =
              Added([w \in {w \in setup.windows : Produced(w)} |->
                        SumOf(OnTabs(outcome[w].book.lines), "pre")])
              + Added([window \in setup.others |-> TotalOf(window, "pre")])

(***************************************************************************)
(* "Clear rows record what was released": an exception is decided exactly  *)
(* when the last event of its history is a mark, which is the decision in  *)
(* force, and the event before a clear is a mark: also when people mark    *)
(* and clear it at the same time.                                          *)
(***************************************************************************)
\* The event i is a mark, and n is next of its exception's events, or none is.
MarkedUntil(i, n) ==
    /\ history[i].action = "mark"
    /\ \A j \in (i + 1)..(n - 1) : history[j].fingerprint # history[i].fingerprint

InForce == {i \in 1..Len(history) : MarkedUntil(i, Len(history) + 1)}

HistoryReplays ==
    /\ DOMAIN decision = {history[i].fingerprint : i \in InForce}
    /\ \A i \in InForce : decision[history[i].fingerprint] = history[i].disposition
    /\ \A n \in 1..Len(history) : history[n].action = "clear" =>
          \E i \in 1..(n - 1) :
             history[i].fingerprint = history[n].fingerprint /\ MarkedUntil(i, n)
=============================================================================
