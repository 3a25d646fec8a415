------------------------------- MODULE Tieout -------------------------------
(***************************************************************************)
(* The controls of a run: tieout.py.  The settled orders are split into    *)
(* those that reach an SKU line, the reference, and the rest, reported;    *)
(* what the order files rebuild is then held against what the income files *)
(* say was settled, per order, in total and per store.                     *)
(*                                                                         *)
(* A check is a record of its name, its variance, its tolerance and its    *)
(* result.  Column is the settled amount a platform's orders carry.        *)
(***************************************************************************)
EXTENDS SkuLines

Abs(n) == IF n < 0 THEN -n ELSE n
Largest(S) == IF S = {} THEN 0 ELSE Max(S)

Check(name, variance, tolerance) ==
    [check |-> name, variance |-> variance,
     result |-> IF Abs(variance) <= tolerance THEN "PASS" ELSE "BREACH"]

Info(name, amount) == [check |-> name, variance |-> amount, result |-> "INFO"]

-----------------------------------------------------------------------------
(* partition, SourceReference and coverage_by_store. *)

Matched(settled, presentKeys) == {row \in settled : Pair(row) \in presentKeys}

\* Variant: an order is told by its number alone.
UnmatchedByNumber(settled, presentKeys) ==
    {row \in settled : row.order \notin {pair[2] : pair \in presentKeys}}

Unmatched(settled, presentKeys) == {row \in settled : Pair(row) \notin presentKeys}

Stores(rows) == {row.store : row \in rows}
OfStore(rows, store) == {row \in rows : row.store = store}
OfOrder(rows, pair) == {row \in rows : Pair(row) = pair}

Reference(settled, presentKeys, column) ==
    LET matched == Matched(settled, presentKeys)
    IN  [orderKeys  |-> Pairs(matched),
         settlement |-> SumOf(matched, column),
         perStore   |-> [s \in Stores(matched) |-> SumOf(OfStore(matched, s), column)]]

CoverageByStore(settled, presentKeys, column) ==
    {LET mine  == OfStore(settled, s)
         short == Unmatched(mine, presentKeys)
     IN  [store |-> s, orders |-> Cardinality(Pairs(mine)),
          unmatchedOrders |-> Cardinality(Pairs(short)),
          money |-> SumOf(mine, column), unmatchedMoney |-> SumOf(short, column)]
        : s \in Stores(settled)}

-----------------------------------------------------------------------------
(* Coverage: every referenced order and store reaches the SKU lines. *)

CoverageChecks(sku, reference) ==
    LET lost == {s \in DOMAIN reference.perStore : reference.perStore[s] # 0} \ Stores(sku)
    IN  {Check("orders", Cardinality(reference.orderKeys \ Pairs(sku)), 0),
         Check("stores", Cardinality(lost), 0)}

\* Variant: the totals alone.
ConservationTotals(c, sku, reference, column) ==
    {Check("total", SumOf(sku, "wv") - reference.settlement,
           Max({c.tolerance.conservation, c.tolerance.grand}))}

(***************************************************************************)
(* TikTok's conservation: each order's lines against the amount its income *)
(* row settled (the first, where it has several), the total against the    *)
(* reference, and each store against its own, so that two stores' drifts   *)
(* do not cancel out.                                                      *)
(***************************************************************************)
ConservationChecks(c, sku, reference, column) ==
    LET Rebuilt(pair) == SumOf(OfOrder(sku, pair), "wv")
        First(pair)   == (CHOOSE line \in OfOrder(sku, pair) :
                              line.created = Earliest(OfOrder(sku, pair), "created"))[column]
        worst         == Largest({Abs(Rebuilt(p) - First(p)) : p \in Pairs(sku)})
        total         == SumOf(sku, "wv")
        gap           == Largest({Abs(SumOf(OfStore(sku, s), "wv") - reference.perStore[s])
                                    : s \in DOMAIN reference.perStore})
    IN  IF sku = {} THEN {}
        ELSE {Check("per order", worst, c.tolerance.conservation),
              Check("total", total - reference.settlement,
                    Max({c.tolerance.conservation, c.tolerance.grand})),
              Check("per store", gap, Max({c.tolerance.conservation, c.tolerance.perStore}))}

-----------------------------------------------------------------------------
(***************************************************************************)
(* Shopee's crossing: an order's revenue in the income file before         *)
(* classification, against what its lines rebuild without the vouchers.    *)
(* Orders with a refund, and orders with a line of no quantity, are held   *)
(* out and named.                                                          *)
(***************************************************************************)
\* No crossing, but a warning, where no part has a header for the subsidy: the
\* column is then not in the frame.  A part without it is padded.
CrossingBuilt(parts) == \E f \in parts : f.mapped

RevenueCrossing(income) ==
    LET rows       == {row \in income : row.type = "Order"}
        Revenue(p) == SumOf(OfOrder(rows, p), "gross") + SumOf(OfOrder(rows, p), "subsidy")
        refunded   == {p \in Pairs(rows) : SumOf(OfOrder(rows, p), "refund") # 0}
    IN  [perOrder |-> [p \in Pairs(rows) \ refunded |-> Revenue(p)],
         excluded |-> [p \in refunded |-> Revenue(p)]]

ZeroQuantityOrders(sku) == Pairs({line \in sku : line.qty = 0})

CrossingChecks(c, sku, crossing) ==
    LET held      == ZeroQuantityOrders(sku)
        both      == DOMAIN crossing.perOrder \ held
        Mine(p)   == SumOf(OfOrder(sku, p), "wv") - SumOf(OfOrder(sku, p), "allocated")
        worst     == Largest({Abs(Mine(p) - crossing.perOrder[p]) : p \in both})
        all       == MapThenSumSet(LAMBDA p : Mine(p) - crossing.perOrder[p], both)
    IN  IF sku = {} THEN {Info("crossing skipped", 0)}
        ELSE {Check("crossing per order", worst, c.tolerance.conservation),
              Check("crossing total", all,
                    Max({c.tolerance.conservation, Cardinality(both)}))}
             \cup {Info("refunds held out", MapThenSumSet(LAMBDA q : crossing.excluded[q],
                                                          DOMAIN crossing.excluded))
                       : p \in DOMAIN crossing.excluded}
             \cup {Info("no quantity, held out", 0) : p \in held}

-----------------------------------------------------------------------------
(* run_checks. *)

InfoRows(settled, presentKeys, column, found) ==
    LET short == Unmatched(settled, presentKeys)
    IN  {Info("no matching order lines", SumOf(short, column)) : row \in short}
        \cup {Info("coverage per store", SumOf(short, column)) : row \in settled}
        \cup {Info("lines in an earlier window", found.money) : row \in found.borrowed}

RunChecksTikTok(c, settled, sku, found) ==
    LET reference == Reference(settled, Pairs(sku), "settled")
    IN  CoverageChecks(sku, reference)
        \cup ConservationChecks(c, sku, reference, "settled")
        \cup InfoRows(settled, Pairs(sku), "settled", found)

MoneyNotVerified == Info("money conservation not verified", 0)

\* From the income parts as well as their rows: what columns they have.
RunChecksShopee(c, settled, parts, income, sku, found) ==
    LET reference == Reference(settled, Pairs(sku), "net")
    IN  CoverageChecks(sku, reference)
        \cup (IF CrossingBuilt(parts) THEN CrossingChecks(c, sku, RevenueCrossing(income))
              ELSE {MoneyNotVerified})
        \cup InfoRows(settled, Pairs(sku), "net", found)

Breaches(checks) == {row \in checks : row.result = "BREACH"}
=============================================================================
