----------------------------- MODULE FinanceFile -----------------------------
(***************************************************************************)
(* The workbook the team invoices from: finance_template.py.  Line tabs    *)
(* carry every line's exact amounts; pivot tabs carry, per SKU, a rounded  *)
(* average price times a quantity, by invoice bucket and by VAT rate; a    *)
(* control block holds one against the other.                              *)
(*                                                                         *)
(* A tab is a set of pivot rows.  Layout, formats and wording are left     *)
(* out; a verdict is whether a difference is within its tolerance.         *)
(***************************************************************************)
EXTENDS LazadaLedger

\* A store is in the bucket whose needle its name contains, or the default.
Bucket(c, store) ==
    IF NormStore(store) \in DOMAIN c.buckets.match
    THEN c.buckets.match[NormStore(store)] ELSE c.buckets.default

BucketNames(c) == {c.buckets.match[s] : s \in DOMAIN c.buckets.match} \cup {c.buckets.default}

InBucket(c, lines, bucket) == {line \in lines : Bucket(c, line.store) = bucket}
AtRate(lines, rate) == {line \in lines : line.rate = rate}

Layout(platform) ==
    CASE platform = "tiktok" -> {"Merries 8", "KAO 8", "Others 8"}
      [] platform = "shopee" -> {"Curel", "KAO", "Merries", "Kate", "Others"}
      [] OTHER               -> {"Curel", "KAO", "Merries", "Others"}

\* The tabs of their own that the rates besides the usual one have.
RateTabs == [at105 |-> 105, at110 |-> 110]

\* A bucket without a tab, or rates the template is not drawn for.
WorkbookRefused(c, platform) ==
    \/ BucketNames(c) \ Layout(platform) # {}
    \/ platform # "tiktok" /\ c.rates # {105, 108, 110}

-----------------------------------------------------------------------------
(* Pivots. *)

RoundHalfEven(p, q) ==
    LET low == p \div q
        rest == 2 * (p % q)
    IN  IF rest < q \/ (rest = q /\ low % 2 = 0) THEN low ELSE low + 1

\* _sku_pivot, and laz_pivot: rounded average price times quantity.
SkuPivot(lines, keyColumns) ==
    LET Row(key) ==
            LET rows  == Members(lines, key)
                qty   == SumOf(rows, "qty")
                exact == SumOf(rows, "pre")
                price == IF qty = 0 THEN 0 ELSE RoundHalfEven(exact, qty)
            IN  With(key, [qty |-> qty, price |-> price, pre |-> price * qty,
                           wv |-> IF exact = 0 THEN 0
                                  ELSE Quotient(price * qty * SumOf(rows, "wv"), exact)])
    IN  {Row(key) : key \in Groups(lines, keyColumns)}

LazadaPivot(lines) ==
    LET Row(key) ==
            LET rows  == Members(lines, key)
                qty   == SumOf(rows, "qty")
                price == RoundHalfEven(SumOf(rows, "pre"), qty)
            IN  With(key, [qty |-> qty, price |-> price, pre |-> price * qty,
                           wv |-> (price * qty * Max({row.rate : row \in rows})) \div 100])
    IN  {Row(key) : key \in Groups(lines, {"sku"})}

\* The tolerances that are the template's and not the contract's.
PivotDriftShopee == 10000
PivotDriftLazada == 2000
LineDriftLazada == 1000

Within(diff, tolerance) == Abs(diff) < tolerance

TabTotals(tabs, column) == MapThenSumSet(LAMBDA t : SumOf(tabs[t], column), DOMAIN tabs)

\* The stamp of a run whose roster was relaxed names the stores it lacks.
RosterStamp(relaxed, present) == relaxed \ present

-----------------------------------------------------------------------------
(* build_tiktok: every line is in the tab of its bucket.  The line control *)
(* recombines the lines by rate, over the rates the contract lists.        *)

Recombined(c, lines) ==
    MapThenSumSet(LAMBDA rate : (SumOf(AtRate(lines, rate), "pre") * rate) \div 100, c.rates)

BuildTikTok(c, sku, relaxed) ==
    LET tabs  == [b \in Layout("tiktok") |-> SkuPivot(InBucket(c, sku, b), {"sku"})]
    IN  [lines    |-> sku,
         tabs     |-> tabs,
         returns  |-> 0,
         absent   |-> RosterStamp(relaxed, Stores(sku)),
         pvSum    |-> Within(SumOf(sku, "pre") - TabTotals(tabs, "pre"), c.tolerance.pvSum),
         lineSum  |-> Within(SumOf(sku, "wv") - Recombined(c, sku), c.tolerance.xuatHd)]

-----------------------------------------------------------------------------
(***************************************************************************)
(* build_shopee: the lines of "ok" orders, by bucket whatever their rate,  *)
(* and those at 1.05 and 1.10 by rate as well.  The lines of returned      *)
(* orders go to a tab of their own, where an order's total is held against *)
(* its refund; its orders are told apart by their number alone.            *)
(***************************************************************************)
ReturnedOrders(lines) == {line.order : line \in lines}

ReturnTotal(lines) ==
    MapThenSumSet(
        LAMBDA order :
            LET mine == {line \in lines : line.order = order}
            IN  SumOf(mine, "wv") - Abs(Max({line.refund : line \in mine})),
        ReturnedOrders(lines))

BuildShopee(c, sku, relaxed) ==
    LET ok       == {line \in sku : line.status = "ok"}
        returned == {line \in sku : line.status = "Return"}
        tabs     == With([b \in Layout("shopee") |-> SkuPivot(InBucket(c, ok, b), {"sku"})],
                         [t \in DOMAIN RateTabs |->
                            SkuPivot(AtRate(ok, RateTabs[t]), {"store", "sku"})])
    IN  [lines   |-> ok,
         tabs    |-> tabs,
         returns |-> ReturnTotal(returned),
         absent  |-> RosterStamp(relaxed, Stores(sku)),
         pvSum   |-> Within(SumOf(ok, "pre") - TabTotals(tabs, "pre"), PivotDriftShopee),
         lineSum |-> Within(SumOf(ok, "wv") - Recombined(c, ok), c.tolerance.xuatHd)]

-----------------------------------------------------------------------------
(***************************************************************************)
(* build_lazada: revenue of no order is a named reconciling amount and not *)
(* a line.  The invoice total adds the pivots by bucket to those of 1.05   *)
(* and 1.10, and is held against the sale report, which knows the listed   *)
(* rates only.                                                             *)
(***************************************************************************)
Money(line) == line.credits + line.promo
MoneyOf(lines) == MapThenSumSet(Money, lines)

BuildLazada(c, revenue, classified, relaxed) ==
    LET orderless == {line \in revenue : line.order = NoOrder \/ line.qty <= 0}
        lines     == revenue \ orderless
        tabs      == With([b \in Layout("lazada") |-> LazadaPivot(InBucket(c, lines, b))],
                          [t \in DOMAIN RateTabs |-> LazadaPivot(AtRate(lines, RateTabs[t]))])
        report    == MoneyOf({line \in lines : line.rate \in c.rates})
    IN  [lines    |-> lines,
         tabs     |-> tabs,
         returns  |-> 0,
         absent   |-> RosterStamp(relaxed, Stores(revenue \cup classified)),
         pvSum    |-> Within(report - TabTotals(tabs, "wv"), PivotDriftLazada),
         lineSum  |-> \A r \in c.rates :
                        Within(MoneyOf(AtRate(lines, r))
                                 - (SumOf(AtRate(lines, r), "pre") * r) \div 100,
                               LineDriftLazada)]
=============================================================================
