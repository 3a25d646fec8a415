---------------------------- MODULE MasterSummary ----------------------------
(***************************************************************************)
(* The workbook of the month: master_summary.py.  The invoice lines of     *)
(* every finance file fold to storefronts, and the sheets cut the same     *)
(* money by window, by client brand and by storefront.                     *)
(*                                                                         *)
(* A window of the month is a record of its platform, its label and the    *)
(* totals read from its finance file, by storefront name.                  *)
(***************************************************************************)
EXTENDS FinanceFile

\* fold_lines: the line tabs of a finance file.  Lazada has one per listed rate
\* and no column with VAT, which is the tab's rate times its amount.
FoldLines(platform, lines) ==
    IF platform # "lazada" THEN lines
    ELSE {[line EXCEPT !.wv = (line.pre * line.rate) \div 100] :
            line \in {l \in lines : l.rate \in {105, 108, 110}}}

\* per_store: spellings of one storefront are added up.
PerStore(rows) ==
    [name \in {NormStore(row.store) : row \in rows} |->
        LET mine == {row \in rows : NormStore(row.store) = name}
        IN  [pre |-> SumOf(mine, "pre"), wv |-> SumOf(mine, "wv")]]

ReadWindow(platform, label, book) ==
    [platform |-> platform, label |-> label,
     totals |-> PerStore(FoldLines(platform, book.lines))]

\* What the values of a function come to.
Added(f) == MapThenSumSet(LAMBDA x : f[x], DOMAIN f)

TotalOf(window, column) ==
    Added([s \in DOMAIN window.totals |-> window.totals[s][column]])

OnPlatform(windows, p) == {window \in windows : window.platform = p}

\* A storefront nobody mapped is kept as a brand of its own.
BrandOf(brandMap, p, s) == IF <<p, s>> \in DOMAIN brandMap THEN brandMap[<<p, s>>] ELSE s

StoresOn(windows, p) == UNION {DOMAIN window.totals : window \in OnPlatform(windows, p)}

StoreTotal(windows, p, s) ==
    Added([window \in {window \in OnPlatform(windows, p) : s \in DOMAIN window.totals} |->
              window.totals[s].wv])

BrandCells(brandMap, windows) ==
    UNION {{<<BrandOf(brandMap, p, s), p>> : s \in StoresOn(windows, p)} :
              p \in {window.platform : window \in windows}}

BrandStores(brandMap, windows, cell) ==
    {s \in StoresOn(windows, cell[2]) : BrandOf(brandMap, cell[2], s) = cell[1]}

\* Variant: a storefront replaces the one before it in its brand's cell.
ByBrandLast(brandMap, windows) ==
    [cell \in BrandCells(brandMap, windows) |->
        StoreTotal(windows, cell[2], CHOOSE s \in BrandStores(brandMap, windows, cell) : TRUE)]

\* The "By brand" grid: the storefronts of a brand, added up per platform.
ByBrand(brandMap, windows) ==
    [cell \in BrandCells(brandMap, windows) |->
        Added([s \in BrandStores(brandMap, windows, cell) |-> StoreTotal(windows, cell[2], s)])]

ByStorefront(windows) ==
    [cell \in UNION {StoresOn(windows, p) \X {p} : p \in {window.platform : window \in windows}}
        |-> StoreTotal(windows, cell[2], cell[1])]

\* One row per window, the totals of a platform, and those of the month.
SummaryRows(windows) ==
    {[platform |-> window.platform, label |-> window.label,
      pre |-> TotalOf(window, "pre"), wv |-> TotalOf(window, "wv")] : window \in windows}

BuildMaster(brandMap, windows) ==
    [rows         |-> SummaryRows(windows),
     pre          |-> SumOf(SummaryRows(windows), "pre"),
     wv           |-> SumOf(SummaryRows(windows), "wv"),
     byBrand      |-> ByBrand(brandMap, windows),
     byStorefront |-> ByStorefront(windows)]
=============================================================================
