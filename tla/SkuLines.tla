------------------------------ MODULE SkuLines ------------------------------
(***************************************************************************)
(* From export rows to invoice lines: classify.py, calculate.py and the    *)
(* VAT factors of masters.py, for the two platforms that settle by order.  *)
(*                                                                         *)
(* Income rows collapse to one settled row per order, which is classified; *)
(* an order's SKU lines are joined to it and priced.  Rates are percents   *)
(* (108 is the factor 1.08).  A division that the code does in floating    *)
(* point is the integer quotient: the instances use amounts it is exact    *)
(* for, and no tolerance in the code is as small as a float's residue.     *)
(*                                                                         *)
(* The code's lines are of a SKU and a product name (sku_name); here "sku" *)
(* stands for the pair: the two are only ever grouped by together, and     *)
(* the rate of a pair is that of its SKU.                                  *)
(***************************************************************************)
EXTENDS Exports

CONSTANT NoType     \* an income row without a type

\* Which is not the type of a sale.
ASSUME NoTypeAssumption == NoType # "Order"

\* group by the columns, summing the others named; min skips what is undated.
Earliest(rows, column) ==
    LET dated == {row[column] : row \in rows} \ {Undated}
    IN  IF dated = {} THEN Undated ELSE Min(dated)

Groups(rows, columns) == {Restrict(row, columns) : row \in rows}
Members(rows, key) == {row \in rows : Restrict(row, DOMAIN key) = key}
Sums(rows, columns) == [column \in columns |-> SumOf(rows, column)]

-----------------------------------------------------------------------------
(* TikTok: classify_tiktok_income. *)

TikTokStatus(order) ==
    LET balance == order.listed + order.refunded
        isOrder == order.type = "Order"
        pass    == isOrder /\ balance # 0 /\ order.net >= 0
    IN  IF ~pass /\ order.gross < 0 THEN "Payback_Order"
        ELSE IF isOrder /\ balance = 0 THEN "Total Return"
        ELSE IF isOrder /\ order.refunded # 0 THEN "Partial Return"
        ELSE IF pass THEN "Good"
        ELSE "none"

\* "Good" is invoiced, another status is taken out, and what no rule knows
\* is unclassified.
FinalStatus(status) ==
    CASE status \in {"Good", "ok"} -> "OK"
      [] status = "none"           -> "unclassified"
      [] OTHER                     -> "take out"

ClassifyTikTok(income) ==
    LET typed == {row \in income : row.type # NoType}
        keys  == Groups(typed, {"store", "brand", "order", "type", "created"})
        Collapsed(key) ==
            LET rows == Members(typed, key)
            IN  With(With(key, [day |-> Earliest(rows, "day")]),
                     Sums(rows, {"gross", "net", "refund", "settled", "listed", "refunded"}))
    IN  {With(Collapsed(key), [status |-> TikTokStatus(Collapsed(key))]) : key \in keys}

-----------------------------------------------------------------------------
(* Shopee: classify_shopee_income. *)

ShopeeStatus(order) ==
    CASE order.refund # 0                   -> "Return"
      [] order.refund = 0 /\ order.net <= 0 -> "0 dong"
      [] OTHER                              -> "ok"

ClassifyShopee(income) ==
    LET orders == {row \in income : row.type = "Order"}
        keys   == Groups(orders, {"store", "brand", "order"})
        Collapsed(key) ==
            LET rows == Members(orders, key)
            IN  With(With(key, [day |-> Earliest(rows, "day"),
                                created |-> Earliest(rows, "created")]),
                     Sums(rows, {"net", "refund", "gross", "vouchers"}))
    IN  {With(Collapsed(key), [status |-> ShopeeStatus(Collapsed(key))]) : key \in keys}

-----------------------------------------------------------------------------
(* The join with the SKU lines: explode_to_sku_tiktok and _shopee. *)

\* Equal lines of an order are one line with their quantities added up.
OrderLines(orders) ==
    LET keys == Groups(orders, {"store", "order", "sku", "price"})
    IN  {With(key, Sums(Members(orders, key), {"qty", "discount"})) : key \in keys}

\* An inner join: a settled order without lines leaves no trace here.
ExplodeToSku(settled, orders) ==
    {With(pair[2], pair[1]) : pair \in
        {p \in settled \X OrderLines(orders) : Pair(p[1]) = Pair(p[2])}}

-----------------------------------------------------------------------------
(* VAT: resolve_vat_factors.  A SKU the master lacks has the default. *)

VatFactor(c, vatSku, sku) == IF sku \in DOMAIN vatSku THEN vatSku[sku] ELSE c.vatDefault

PreVat(amount, rate) == (amount * 100) \div rate

\* The quotient by a number of either sign, none of which is zero.
Quotient(p, q) == IF q > 0 THEN p \div q ELSE (-p) \div (-q)

\* Both price per unit, so a line without quantity carries no amount.
Priced(line, amount, rate) ==
    LET wv == IF line.qty = 0 THEN 0 ELSE amount
    IN  With(line, [rate |-> rate, wv |-> wv, pre |-> PreVat(wv, rate)])

\* compute_sku_columns_tiktok: list price times quantity less the discount.
NetOf(line) == line.price * line.qty - line.discount

ComputeTikTok(c, vatSku, sku) ==
    {Priced(With(line, [allocated |-> 0]), NetOf(line), VatFactor(c, vatSku, line.sku))
        : line \in sku}

\* compute_sku_columns_shopee: the same net, plus the line's share of the
\* order's vouchers, in proportion to its net.
Allocated(sku, line) ==
    LET sale == MapThenSumSet(NetOf, {l \in sku : Pair(l) = Pair(line)})
    IN  IF sale = 0 THEN 0 ELSE Quotient(NetOf(line) * line.vouchers, sale)

ComputeShopee(c, vatSku, sku) ==
    {Priced(With(line, [allocated |-> Allocated(sku, line)]),
            NetOf(line) + Allocated(sku, line), VatFactor(c, vatSku, line.sku)) : line \in sku}
=============================================================================
