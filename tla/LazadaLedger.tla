---------------------------- MODULE LazadaLedger ----------------------------
(***************************************************************************)
(* The platform that settles by ledger: lazada.py, and the masters its     *)
(* fees and rates come from, masters.py.  Ledger rows are bucketed by the  *)
(* fee they name; revenue rows become one line per order and SKU, netted   *)
(* of the promotional charges booked on the same one.  The code groups by  *)
(* SKU and product name together, and "sku" stands for the pair.           *)
(*                                                                         *)
(* A masters file is a record of its fees, each with a bucket, and of the  *)
(* SKUs with a rate of their own; "live" are the files the team keeps, by  *)
(* name, and snapshot the committed copy.                                  *)
(***************************************************************************)
EXTENDS Tieout

CONSTANTS
    NoOrder,            \* a ledger row that belongs to no order
    NoBucket,           \* a fee the masters do not know
    DefaultMasters      \* the masters file looked for when no setting names one

-----------------------------------------------------------------------------
(* The masters: load_masters. *)

MastersName(c) == c.mastersFile

\* The live file wherever it is looked for, or else the snapshot.
LoadMasters(name, live, snapshot) ==
    IF name \in DOMAIN live
    THEN [source |-> "xlsb", fees |-> live[name].fees, vat |-> live[name].vat]
    ELSE [source |-> "csv", fees |-> snapshot.fees, vat |-> snapshot.vat]

\* load_fee_type_map and load_vat_sku are called without the settings, so
\* the name they look for is the default one.
LedgerMasters(live, snapshot) == LoadMasters(DefaultMasters, live, snapshot)

MastersRefused(masters) == DOMAIN masters.fees = {} \/ DOMAIN masters.vat = {}

-----------------------------------------------------------------------------
(* Reading and classifying: read_ledger and classify_ledger. *)

LedgerKinds == {"weekly", "daily"}

\* The folders are read as a union, without a dedupe; a sheet or a header map
\* the contract does not configure stops the run as its file is read.
LedgerRefused(c, files) ==
    \/ files = {}
    \/ \E f \in files : FileRefused(f) \/ f.kind \notin c.variants
    \/ NormalizeRefused(c, "ledger", ReadFiles(files))

ReadLedger(files) ==
    {[row EXCEPT !.amount = ToNumber(row.amount)] : row \in ReadFiles(files)}

BucketOf(fees, fee) == IF fee \in DOMAIN fees THEN fees[fee] ELSE NoBucket

ClassifyLedger(c, masters, ledger) ==
    {With(row, [bucket |-> BucketOf(masters.fees, row.fee),
                rate   |-> VatFactor(c, masters.vat, row.sku)]) : row \in ledger}

UnmappedFees(classified) == {row \in classified : row.bucket = NoBucket}

-----------------------------------------------------------------------------
(* revenue_lines. *)

\* Half away from zero, as the team's ROUND does.
RoundHalfAway(p, q) ==
    IF p >= 0 THEN (2 * p + q) \div (2 * q) ELSE -((q - 2 * p) \div (2 * q))

RevenueRows(c, classified) == {row \in classified : row.bucket = c.revenueBucket}
PromoRows(c, classified) == {row \in classified : row.bucket \in c.promoBuckets}

\* Quantity is the number of ledger rows; a promotional charge on an order and
\* SKU without revenue is paired to nothing and left out.
RevenueLine(c, classified, key) ==
    LET rows    == Members(RevenueRows(c, classified), key)
        promo   == SumOf(Members(PromoRows(c, classified), key), "amount")
        credits == SumOf(rows, "amount")
        qty     == Cardinality(rows)
        rate    == Max({row.rate : row \in rows})
        price   == RoundHalfAway((credits + promo) * 100, qty * rate)
    IN  With(key, [qty |-> qty, credits |-> credits, promo |-> promo, rate |-> rate,
                   price |-> price, pre |-> price * qty,
                   wv |-> (price * qty * rate) \div 100])

RevenueLines(c, classified) ==
    {RevenueLine(c, classified, key) :
        key \in Groups(RevenueRows(c, classified), {"store", "order", "sku"})}

-----------------------------------------------------------------------------
(* run_checks_lazada: the ledger's credits, net of the promotions that were *)
(* paired, against the lines; and the stores.                               *)

RunChecksLazada(c, classified, lines) ==
    LET revenue   == RevenueRows(c, classified)
        orderless == {row \in revenue : row.order = NoOrder}
        booked    == SumOf(revenue, "amount") + SumOf(lines, "promo")
        withMoney == {s \in Stores(revenue) : SumOf(OfStore(revenue, s), "amount") # 0}
    IN  {Check("ledger", SumOf(lines, "wv") - booked,
               Max({c.tolerance.conservation, c.tolerance.priceRounding})),
         Check("stores", Cardinality(withMoney \ Stores(lines)), 0)}
        \cup {Info("no order", SumOf(orderless, "amount")) : row \in orderless}
=============================================================================
