--------------------------- MODULE SettlementProofs ---------------------------
(***************************************************************************)
(* Proofs about Settlement, for any deployments that satisfy               *)
(* SetupsAssumption (and AmountsAssumption, where money is added up), any  *)
(* exports, declarations and totals, any numbers of runs and decisions.    *)
(* An outcome is the pipeline's result for exports staged before           *)
(* (OutcomesAreResults, the one invariant of the runs), so that what holds *)
(* of a workbook is a fact about the pipeline's operators: the lemmas      *)
(* follow an order, a store, a borrowed line or an amount through them.    *)
(* The decisions have an invariant of their own.                           *)
(*                                                                         *)
(* The second half is about sums.  A sum is a fold, which takes elements   *)
(* in an order of its choice; TotalRemove shows that any order gives the   *)
(* same, and from there a total can be cut by a key, counted under other   *)
(* names and compared with another's (TotalByKey, TotalRenamed).           *)
(***************************************************************************)
EXTENDS Settlement, FiniteSetTheorems, SequenceTheorems, TLAPS

-----------------------------------------------------------------------------
(* Rows and their columns. *)

\* A column the new ones do not name keeps its value.
LEMMA WithOld ==
  ASSUME NEW row, NEW columns, NEW k \in DOMAIN row, k \notin DOMAIN columns
  PROVE  k \in DOMAIN With(row, columns) /\ With(row, columns)[k] = row[k]
BY DEF With

\* The new columns are there, whatever the row had in them.
LEMMA WithNew ==
  ASSUME NEW row, NEW columns, NEW k \in DOMAIN columns
  PROVE  k \in DOMAIN With(row, columns) /\ With(row, columns)[k] = columns[k]
BY DEF With

\* A row as its file is read.
LEMMA FileRowColumns ==
  ASSUME NEW f, NEW r
  PROVE  /\ FileRow(f, r).store = f.store
         /\ FileRow(f, r).window = f.window
         /\ {"store", "file", "window"} \subseteq DOMAIN FileRow(f, r)
         /\ \A k \in DOMAIN r \ {"store", "file", "window", "qty", "subsidy"} :
              k \in DOMAIN FileRow(f, r) /\ FileRow(f, r)[k] = r[k]
BY DEF FileRow, Unmapped, With

\* Parsing changes amounts and the store only.
LEMMA NormalizedColumns ==
  ASSUME NEW c, NEW kind, NEW row
  PROVE  /\ DOMAIN NormalizeRow(c, kind, row) = DOMAIN row
         /\ "store" \in DOMAIN row =>
              NormalizeRow(c, kind, row).store = CanonicalStore(c, row.store)
         /\ "order" \in DOMAIN row => NormalizeRow(c, kind, row).order = row.order
         /\ "window" \in DOMAIN row => NormalizeRow(c, kind, row).window = row.window
         /\ "day" \in DOMAIN row => NormalizeRow(c, kind, row).day = row.day
BY DEF NormalizeRow, Amounts

-----------------------------------------------------------------------------
\* A set of numbers that has 0 and, with a number, the next one has them all.
\* Were m not in it, g would map 0..m into 1..m and no two to the same.
LEMMA NatInductive ==
  ASSUME NEW A, 0 \in A, \A n \in Nat : n \in A => n + 1 \in A
  PROVE  Nat \subseteq A
<1>1. SUFFICES ASSUME NEW m \in Nat, m \notin A PROVE FALSE
  OBVIOUS
<1> DEFINE g == [k \in 0..m |-> IF k \in A THEN k + 1 ELSE k]
<1>2. g \in [0..m -> 1..m]
  BY <1>1
<1>3. IsFiniteSet(0..m) /\ Cardinality(0..m) = m - 0 + 1
  BY <1>1, FS_Interval
<1>4. IsFiniteSet(1..m) /\ Cardinality(1..m) = m - 1 + 1
  BY <1>1, FS_Interval
<1>5. \E x, y \in 0..m : x # y /\ g[x] = g[y]
  <2> HIDE DEF g
  <2>1. Cardinality(1..m) < Cardinality(0..m)
    BY <1>1, <1>3, <1>4
  <2> QED
    BY <1>2, <1>3, <1>4, <2>1, FS_PigeonHole
<1>6. QED
  BY <1>5, <1>1

\* A nonempty set of numbers has a least one.
LEMMA Least ==
  ASSUME NEW S \in SUBSET Nat, S # {}
  PROVE  \E n \in S : \A m \in S : n <= m
<1>1. SUFFICES ASSUME \A n \in S : \E m \in S : m < n PROVE FALSE
  OBVIOUS
<1> DEFINE A == {n \in Nat : \A m \in 0..n : m \notin S}
<1>2. 0 \in A
  BY <1>1
<1>3. \A n \in Nat : n \in A => n + 1 \in A
  <2> SUFFICES ASSUME NEW n \in Nat, n \in A PROVE n + 1 \in A
    OBVIOUS
  <2>1. n + 1 \notin S
    BY <1>1
  <2> QED
    BY <2>1
<1>4. Nat \subseteq A
  <2> HIDE DEF A
  <2> QED BY <1>2, <1>3, NatInductive
<1>5. PICK n \in S : TRUE
  OBVIOUS
<1>6. n \in A
  BY <1>4
<1>7. QED
  BY <1>5, <1>6

-----------------------------------------------------------------------------
(* Reading the parts of a window. *)

\* Every row has its place in the file and an order.
Legible(files) ==
  \A f \in files : \A r \in f.rows :
    {"at", "order"} \subseteq DOMAIN r /\ r.at \in Nat

\* The row is the file's row r as the parts give it.
IsRowOf(c, f, r, row) ==
  /\ {"store", "order", "window"} \subseteq DOMAIN row
  /\ row.store = CanonicalStore(c, f.store)
  /\ row.order = r.order
  /\ row.window = f.window
  /\ "day" \in DOMAIN r => "day" \in DOMAIN row /\ row.day = r.day

\* Of the copies of a row the dedupe leaves one.
LEMMA FirstCopyStays ==
  ASSUME NEW rows, \A x \in rows : x.at \in Nat, NEW row \in rows
  PROVE  \E first \in Deduplicated(rows) : Cells(first) = Cells(row)
<1> DEFINE Copies == {x \in rows : Cells(x) = Cells(row)}
           Places == {x.at : x \in Copies}
<1>1. Places \in SUBSET Nat /\ Places # {}
  OBVIOUS
<1>2. PICK n \in Places : \A m \in Places : n <= m
  <2> HIDE DEF Places
  <2> QED BY <1>1, Least
<1>3. PICK first \in Copies : first.at = n
  BY <1>2
<1>4. \A x \in rows : Cells(x) = Cells(first) => ~(x.at < first.at)
  <2> SUFFICES ASSUME NEW x \in rows, Cells(x) = Cells(first) PROVE ~(x.at < first.at)
    OBVIOUS
  <2>1. x.at \in Places
    BY <1>3
  <2> QED
    BY <2>1, <1>1, <1>2, <1>3
<1>5. first \in Deduplicated(rows)
  BY <1>3, <1>4 DEF Deduplicated
<1> QED
  BY <1>3, <1>5

\* Copies agree in every column but their place and their file.
LEMMA SameCells ==
  ASSUME NEW x, NEW y, Cells(x) = Cells(y), NEW k \in DOMAIN x, k \notin {"at", "file"}
  PROVE  k \in DOMAIN y /\ y[k] = x[k]
<1>1. DOMAIN Cells(x) = DOMAIN x \ {"at", "file"} /\ DOMAIN Cells(y) = DOMAIN y \ {"at", "file"}
  BY DEF Cells, Restrict
<1>2. k \in DOMAIN y
  BY <1>1
<1>3. Cells(x)[k] = x[k] /\ Cells(y)[k] = y[k]
  BY <1>2 DEF Cells, Restrict
<1> QED
  BY <1>2, <1>3

\* A row of an export is found among the rows read, itself or a copy of it.
LEMMA RowsAreRead ==
  ASSUME NEW c, NEW kind, NEW files, Legible(files), NEW f \in files, NEW r \in f.rows
  PROVE  \E row \in ReadParts(c, kind, files) : IsRowOf(c, f, r, row)
<1> DEFINE raw == FileRow(f, r)
<1>1. raw \in ReadFiles(files)
  BY DEF ReadFiles, FileRows
<1>2. \A x \in ReadFiles(files) : x.at \in Nat
  BY FileRowColumns DEF ReadFiles, FileRows, Legible
<1>3. PICK first \in RawParts(c, files) : Cells(first) = Cells(raw)
  <2> HIDE DEF raw
  <2> QED BY <1>1, <1>2, FirstCopyStays DEF RawParts
<1>4. /\ raw.store = f.store /\ raw.window = f.window /\ raw.order = r.order
      /\ {"store", "window", "order"} \subseteq DOMAIN raw
      /\ "day" \in DOMAIN r => "day" \in DOMAIN raw /\ raw.day = r.day
  BY FileRowColumns DEF Legible
<1>5. /\ first.store = f.store /\ first.window = f.window /\ first.order = r.order
      /\ {"store", "window", "order"} \subseteq DOMAIN first
      /\ "day" \in DOMAIN r => "day" \in DOMAIN first /\ first.day = r.day
  <2> HIDE DEF raw
  <2>1. \A k \in DOMAIN raw \ {"at", "file"} : k \in DOMAIN first /\ first[k] = raw[k]
    BY <1>3, SameCells
  <2> QED
    BY <2>1, <1>4
<1>6. IsRowOf(c, f, r, NormalizeRow(c, kind, first))
  BY <1>5, NormalizedColumns DEF IsRowOf
<1> QED
  BY <1>3, <1>6 DEF ReadParts, NormalizeParts

\* A row read is of one of the exports.
LEMMA RowsComeFromFiles ==
  ASSUME NEW c, NEW kind, NEW files, Legible(files), NEW row \in ReadParts(c, kind, files)
  PROVE  \E f \in files : \E r \in f.rows : IsRowOf(c, f, r, row)
<1>1. PICK raw \in RawParts(c, files) : row = NormalizeRow(c, kind, raw)
  BY DEF ReadParts, NormalizeParts
<1>2. PICK f \in files : \E r \in f.rows : raw = FileRow(f, r)
  BY <1>1 DEF RawParts, Deduplicated, ReadFiles, FileRows
<1>3. PICK r \in f.rows : raw = FileRow(f, r)
  BY <1>2
<1>4. /\ raw.store = f.store /\ raw.window = f.window /\ raw.order = r.order
      /\ {"store", "window", "order"} \subseteq DOMAIN raw
      /\ "day" \in DOMAIN r => "day" \in DOMAIN raw /\ raw.day = r.day
  BY <1>3, FileRowColumns DEF Legible
<1>5. IsRowOf(c, f, r, row)
  BY <1>1, <1>4, NormalizedColumns DEF IsRowOf
<1> QED
  BY <1>5

\* The columns a settled order is known by.
IsOrder(row) == {"store", "order", "status"} \subseteq DOMAIN row

\* Giving the rows a brand changes nothing else of them.
LEMMA BrandColumns ==
  ASSUME NEW c, NEW rows
  PROVE  /\ \A row \in rows : \E x \in DeriveBrand(c, rows) :
              \A k \in DOMAIN row \ {"brand"} : k \in DOMAIN x /\ x[k] = row[k]
         /\ \A x \in DeriveBrand(c, rows) : \E row \in rows :
              \A k \in DOMAIN row \ {"brand"} : k \in DOMAIN x /\ x[k] = row[k]
<1> DEFINE Branded(row) ==
      With(row, [brand |-> IF NormStore(row.store) \in DOMAIN c.brands
                           THEN c.brands[NormStore(row.store)] ELSE row.store])
<1>1. \A row : \A k \in DOMAIN row \ {"brand"} :
        k \in DOMAIN Branded(row) /\ Branded(row)[k] = row[k]
  BY WithOld
<1>2. DeriveBrand(c, rows) = {Branded(row) : row \in rows}
  BY DEF DeriveBrand
<1> HIDE DEF Branded
<1> QED
  BY <1>1, <1>2

\* Whether a row is within the window's bounds is a matter of its day.
LEMMA BoundsLookAtTheDay ==
  ASSUME NEW c, NEW w, NEW rows, NEW others, NEW x \in rows, NEW y \in others, x.day = y.day
  PROVE  x \in ApplySettlementBounds(c, w, rows) <=> y \in ApplySettlementBounds(c, w, others)
BY DEF ApplySettlementBounds

\* A row of an income file within the bounds is among the income.
LEMMA IncomeIsRead ==
  ASSUME NEW c, NEW input, NEW w, Legible(FilesOf(input, w, "income")),
         NEW f \in FilesOf(input, w, "income"), NEW r \in ApplySettlementBounds(c, w, f.rows), "day" \in DOMAIN r
  PROVE  \E row \in ReadIncome(c, input, w) : IsRowOf(c, f, r, row)
<1>1. r \in f.rows
  BY DEF ApplySettlementBounds
<1> DEFINE parts == ReadParts(c, "income", FilesOf(input, w, "income"))
<1>2. PICK x \in parts : IsRowOf(c, f, r, x)
  BY <1>1, RowsAreRead
<1> HIDE DEF parts
<1>3. PICK row \in DeriveBrand(c, parts) :
         \A k \in DOMAIN x \ {"brand"} : k \in DOMAIN row /\ row[k] = x[k]
  BY BrandColumns
<1>4. IsRowOf(c, f, r, row)
  BY <1>2, <1>3 DEF IsRowOf
<1>5. row.day = r.day
  BY <1>4 DEF IsRowOf
<1>6. row \in ApplySettlementBounds(c, w, DeriveBrand(c, parts))
  BY <1>1, <1>5, BoundsLookAtTheDay
<1> QED
  BY <1>4, <1>6 DEF ReadIncome, parts

\* The income is rows of the window's files, within the bounds.
LEMMA IncomeComesFromFiles ==
  ASSUME NEW c, NEW input, NEW w, Legible(FilesOf(input, w, "income")),
         \A f \in FilesOf(input, w, "income") : \A r \in f.rows : "day" \in DOMAIN r,
         NEW row \in ReadIncome(c, input, w)
  PROVE  \E f \in FilesOf(input, w, "income") : \E r \in ApplySettlementBounds(c, w, f.rows) : IsRowOf(c, f, r, row)
<1> DEFINE parts == ReadParts(c, "income", FilesOf(input, w, "income"))
<1>1. row \in DeriveBrand(c, parts) /\ row \in ApplySettlementBounds(c, w, DeriveBrand(c, parts))
  BY DEF ReadIncome, ApplySettlementBounds
<1>2. PICK x \in parts :
         \A k \in DOMAIN x \ {"brand"} : k \in DOMAIN row /\ row[k] = x[k]
  <2> HIDE DEF parts
  <2> QED BY <1>1, BrandColumns
<1>3. PICK f \in FilesOf(input, w, "income") : \E r \in f.rows : IsRowOf(c, f, r, x)
  BY RowsComeFromFiles
<1>4. PICK r \in f.rows : IsRowOf(c, f, r, x)
  BY <1>3
<1>5. IsRowOf(c, f, r, row) /\ row.day = r.day
  BY <1>2, <1>4 DEF IsRowOf
<1>6. r \in ApplySettlementBounds(c, w, f.rows)
  BY <1>1, <1>5, BoundsLookAtTheDay
<1> QED
  BY <1>5, <1>6

-----------------------------------------------------------------------------
(* From the settled orders to the invoice lines. *)

\* The key of a group is the columns of one of the rows.
LEMMA GroupsOfRows ==
  ASSUME NEW rows, NEW columns, NEW key \in Groups(rows, columns)
  PROVE  /\ DOMAIN key = columns
         /\ \E row \in rows : \A k \in columns : key[k] = row[k]
BY DEF Groups, Restrict

\* A classified order is one of the income's, and its status is never Shopee's.
LEMMA TikTokOrders ==
  ASSUME NEW income, NEW row \in ClassifyTikTok(income)
  PROVE  /\ IsOrder(row) /\ row.status # "ok"
         /\ \E i \in income : Pair(i) = Pair(row)
<1> DEFINE typed == {x \in income : x.type # NoType}
           keys == Groups(typed, {"store", "brand", "order", "type", "created"})
           Summed(key) == Sums(Members(typed, key),
                              {"gross", "net", "refund", "settled", "listed", "refunded"})
           Collapsed(key) ==
              With(With(key, [day |-> Earliest(Members(typed, key), "day")]), Summed(key))
<1>1. PICK key \in keys :
         row = With(Collapsed(key), [status |-> TikTokStatus(Collapsed(key))])
  BY DEF ClassifyTikTok
<1>2. DOMAIN key = {"store", "brand", "order", "type", "created"}
  BY GroupsOfRows
<1>3. \E i \in typed : Pair(i) = Pair(key)
  <2>1. PICK i \in typed : \A k \in {"store", "brand", "order", "type", "created"} : key[k] = i[k]
    BY GroupsOfRows
  <2> QED
    BY <2>1 DEF Pair
<1>4. DOMAIN Summed(key) = {"gross", "net", "refund", "settled", "listed", "refunded"}
  BY DEF Sums
<1> HIDE DEF typed, keys, Summed
<1>5. \A k \in {"store", "order"} : k \in DOMAIN Collapsed(key) /\ Collapsed(key)[k] = key[k]
  BY <1>2, <1>4 DEF With
<1> HIDE DEF Collapsed
<1>6. TikTokStatus(Collapsed(key)) # "ok"
  BY DEF TikTokStatus
<1>7. IsOrder(row) /\ row.store = key.store /\ row.order = key.order /\ row.status # "ok"
  BY <1>1, <1>5, <1>6 DEF With, IsOrder
<1> QED
  BY <1>3, <1>7 DEF Pair, typed

\* A classified order is one of the income's, and its status is never TikTok's.
LEMMA ShopeeOrders ==
  ASSUME NEW income, NEW row \in ClassifyShopee(income)
  PROVE  /\ IsOrder(row) /\ row.status # "Good"
         /\ \E i \in income : Pair(i) = Pair(row)
<1> DEFINE orders == {x \in income : x.type = "Order"}
           keys == Groups(orders, {"store", "brand", "order"})
           Summed(key) == Sums(Members(orders, key), {"net", "refund", "gross", "vouchers"})
           Collapsed(key) ==
              With(With(key, [day |-> Earliest(Members(orders, key), "day"),
                              created |-> Earliest(Members(orders, key), "created")]), Summed(key))
<1>1. PICK key \in keys :
         row = With(Collapsed(key), [status |-> ShopeeStatus(Collapsed(key))])
  BY DEF ClassifyShopee
<1>2. DOMAIN key = {"store", "brand", "order"}
  BY GroupsOfRows
<1>3. \E i \in orders : Pair(i) = Pair(key)
  <2>1. PICK i \in orders : \A k \in {"store", "brand", "order"} : key[k] = i[k]
    BY GroupsOfRows
  <2> QED
    BY <2>1 DEF Pair
<1>4. DOMAIN Summed(key) = {"net", "refund", "gross", "vouchers"}
  BY DEF Sums
<1> HIDE DEF orders, keys, Summed
<1>5. \A k \in {"store", "order"} : k \in DOMAIN Collapsed(key) /\ Collapsed(key)[k] = key[k]
  BY <1>2, <1>4 DEF With
<1> HIDE DEF Collapsed
<1>6. ShopeeStatus(Collapsed(key)) # "Good"
  BY DEF ShopeeStatus
<1>7. IsOrder(row) /\ row.store = key.store /\ row.order = key.order /\ row.status # "Good"
  BY <1>1, <1>5, <1>6 DEF With, IsOrder
<1> QED
  BY <1>3, <1>7 DEF Pair, orders

\* An order line is of an order of the order files.
LEMMA OrderLineColumns ==
  ASSUME NEW orders, NEW line \in OrderLines(orders)
  PROVE  /\ DOMAIN line = {"store", "order", "sku", "price", "qty", "discount"}
         /\ \E o \in orders : Pair(o) = Pair(line)
<1> DEFINE keys == Groups(orders, {"store", "order", "sku", "price"})
           Summed(key) == Sums(Members(orders, key), {"qty", "discount"})
<1>1. PICK key \in keys : line = With(key, Summed(key))
  BY DEF OrderLines
<1>2. DOMAIN key = {"store", "order", "sku", "price"}
  BY GroupsOfRows
<1>3. PICK o \in orders : \A k \in {"store", "order", "sku", "price"} : key[k] = o[k]
  BY GroupsOfRows
<1>4. DOMAIN Summed(key) = {"qty", "discount"}
  BY DEF Sums
<1> HIDE DEF keys, Summed
<1> QED
  BY <1>1, <1>2, <1>3, <1>4 DEF With, Pair

\* A line of the join is of an order and a line of its.
LEMMA JoinedPairs ==
  ASSUME NEW settled, NEW orders, NEW line
  PROVE  line \in ExplodeToSku(settled, orders) <=>
           \E p \in settled, o \in OrderLines(orders) : Pair(p) = Pair(o) /\ line = With(o, p)
<1> DEFINE Joined == {p \in settled \X OrderLines(orders) : Pair(p[1]) = Pair(p[2])}
<1>1. ExplodeToSku(settled, orders) = {With(pair[2], pair[1]) : pair \in Joined}
  BY DEF ExplodeToSku
<1>2. \A pair \in Joined : /\ pair[1] \in settled /\ pair[2] \in OrderLines(orders)
                           /\ Pair(pair[1]) = Pair(pair[2])
  OBVIOUS
<1>3. ASSUME NEW p \in settled, NEW o \in OrderLines(orders), Pair(p) = Pair(o)
      PROVE  With(o, p) \in {With(pair[2], pair[1]) : pair \in Joined}
  <2> DEFINE both == <<p, o>>
  <2>1. both \in Joined /\ both[1] = p /\ both[2] = o
    BY <1>3
  <2> HIDE DEF Joined, both
  <2>2. With(both[2], both[1]) \in {With(pair[2], pair[1]) : pair \in Joined}
    BY <2>1
  <2> QED
    BY <2>1, <2>2
<1>4. ASSUME line \in ExplodeToSku(settled, orders)
      PROVE  \E p \in settled, o \in OrderLines(orders) : Pair(p) = Pair(o) /\ line = With(o, p)
  <2> HIDE DEF Joined
  <2> QED BY <1>1, <1>2, <1>4
<1> HIDE DEF Joined
<1> QED
  BY <1>1, <1>3, <1>4

\* The lines of the join carry the columns of their settled order.
LEMMA JoinedLines ==
  ASSUME NEW settled, NEW orders, \A p \in settled : IsOrder(p)
  PROVE  /\ \A line \in ExplodeToSku(settled, orders) :
              /\ IsOrder(line)
              /\ \E p \in settled : Pair(p) = Pair(line) /\ p.status = line.status
              /\ \E o \in orders : Pair(o) = Pair(line)
         /\ \A line \in ExplodeToSku(settled, orders), p \in settled :
              Pair(p) = Pair(line) =>
                \E same \in ExplodeToSku(settled, orders) :
                   Pair(same) = Pair(p) /\ same.status = p.status
<1>1. \A line : line \in ExplodeToSku(settled, orders) <=>
        \E p \in settled, o \in OrderLines(orders) : Pair(p) = Pair(o) /\ line = With(o, p)
  BY JoinedPairs
<1>2. \A p \in settled, o \in OrderLines(orders) :
        IsOrder(With(o, p)) /\ Pair(With(o, p)) = Pair(p) /\ With(o, p).status = p.status
  BY WithNew DEF IsOrder, Pair
<1>3. ASSUME NEW line \in ExplodeToSku(settled, orders)
      PROVE  \E p \in settled, o \in OrderLines(orders) : Pair(p) = Pair(o) /\ line = With(o, p)
  BY <1>1, <1>3
<1>4. ASSUME NEW line \in ExplodeToSku(settled, orders)
      PROVE  /\ IsOrder(line)
             /\ \E p \in settled : Pair(p) = Pair(line) /\ p.status = line.status
             /\ \E o \in orders : Pair(o) = Pair(line)
  <2>1. PICK p \in settled, o \in OrderLines(orders) : Pair(p) = Pair(o) /\ line = With(o, p)
    BY <1>3
  <2>2. IsOrder(line) /\ Pair(line) = Pair(p) /\ line.status = p.status
    BY <1>2, <2>1
  <2>3. \E x \in orders : Pair(x) = Pair(o)
    BY OrderLineColumns
  <2> QED
    BY <2>1, <2>2, <2>3
<1>5. ASSUME NEW line \in ExplodeToSku(settled, orders), NEW p \in settled, Pair(p) = Pair(line)
      PROVE  \E same \in ExplodeToSku(settled, orders) :
                Pair(same) = Pair(p) /\ same.status = p.status
  <2>1. PICK q \in settled, o \in OrderLines(orders) : Pair(q) = Pair(o) /\ line = With(o, q)
    BY <1>3
  <2>2. Pair(p) = Pair(o)
    BY <1>2, <1>5, <2>1
  <2>3. With(o, p) \in ExplodeToSku(settled, orders)
    BY <1>1, <2>2
  <2> QED
    BY <1>2, <2>3
<1> QED
  BY <1>4, <1>5

\* Pricing keeps a line's order and status.
LEMMA PricedColumns ==
  ASSUME NEW line, NEW share, NEW amount, NEW rate, IsOrder(line)
  PROVE  LET priced == Priced(With(line, [allocated |-> share]), amount, rate)
         IN  IsOrder(priced) /\ Pair(priced) = Pair(line) /\ priced.status = line.status
<1> DEFINE one == With(line, [allocated |-> share])
<1>1. IsOrder(one) /\ Pair(one) = Pair(line) /\ one.status = line.status
  BY WithOld DEF IsOrder, Pair
<1> HIDE DEF one
<1>2. \A wv, pre : LET two == With(one, [rate |-> rate, wv |-> wv, pre |-> pre])
        IN IsOrder(two) /\ Pair(two) = Pair(one) /\ two.status = one.status
  BY <1>1, WithOld DEF IsOrder, Pair
<1>3. PICK wv, pre : Priced(one, amount, rate) = With(one, [rate |-> rate, wv |-> wv, pre |-> pre])
  BY DEF Priced
<1> QED
  BY <1>1, <1>2, <1>3 DEF one

\* A sku line and the line it is priced to.
SameOrders(lines, priced) ==
  /\ \A line \in lines : \E p \in priced :
        IsOrder(p) /\ Pair(p) = Pair(line) /\ p.status = line.status
  /\ \A p \in priced : \E line \in lines :
        IsOrder(p) /\ Pair(p) = Pair(line) /\ p.status = line.status

\* Pricing the sku lines neither drops nor adds an order.
LEMMA ComputedOrders ==
  ASSUME NEW c, NEW vat, NEW sku, \A line \in sku : IsOrder(line)
  PROVE  SameOrders(sku, ComputeTikTok(c, vat, sku)) /\ SameOrders(sku, ComputeShopee(c, vat, sku))
<1> DEFINE T(line) == Priced(With(line, [allocated |-> 0]), NetOf(line), VatFactor(c, vat, line.sku))
           S(line) == Priced(With(line, [allocated |-> Allocated(sku, line)]),
                             NetOf(line) + Allocated(sku, line), VatFactor(c, vat, line.sku))
<1>1. \A line \in sku : IsOrder(T(line)) /\ Pair(T(line)) = Pair(line) /\ T(line).status = line.status
  BY PricedColumns
<1>2. \A line \in sku : IsOrder(S(line)) /\ Pair(S(line)) = Pair(line) /\ S(line).status = line.status
  BY PricedColumns
<1>3. ComputeTikTok(c, vat, sku) = {T(line) : line \in sku}
  BY DEF ComputeTikTok
<1>4. ComputeShopee(c, vat, sku) = {S(line) : line \in sku}
  BY DEF ComputeShopee
<1> HIDE DEF T, S
<1> QED
  BY <1>1, <1>2, <1>3, <1>4 DEF SameOrders

-----------------------------------------------------------------------------
(* An order settled for invoicing is invoiced or reported. *)

\* The order of a row is invoiced or unmatched, and not both.
OnRecord(row, lines, unmatched) ==
  ({line \in lines : line.store = row.store /\ line.order = row.order} = {})
    # ({x \in unmatched : x.store = row.store /\ x.order = row.order} = {})

\* An order is unmatched if it has no sku line, and on record once its having one
\* means that it is invoiced.
LEMMA InvoicedOrReported ==
  ASSUME NEW settled, NEW sku, NEW lines \in SUBSET sku, NEW row \in settled,
         Pair(row) \in Pairs(sku) => Pair(row) \in Pairs(lines)
  PROVE  OnRecord(row, lines, Unmatched(settled, Pairs(sku)))
BY DEF OnRecord, Unmatched, Pairs, Pair

\* The two platforms' classifications alike.
LEMMA ClassifiedOrders ==
  ASSUME NEW platform, NEW income, NEW row \in Classified(platform, income)
  PROVE  /\ IsOrder(row)
         /\ platform = "tiktok" => row.status # "ok"
         /\ platform # "tiktok" => row.status # "Good"
         /\ \E i \in income : Pair(i) = Pair(row)
BY TikTokOrders, ShopeeOrders DEF Classified

\* TikTok: every sku line is invoiced.
LEMMA TikTokOnRecord ==
  ASSUME NEW c, NEW masters, NEW relaxed, NEW income, NEW found,
         NEW row \in ClassifyTikTok(income), FinalStatus(row.status) = "OK"
  PROVE  LET work == WorkTikTok(c, masters, relaxed, ClassifyTikTok(income), found)
         IN  OnRecord(row, work.book.lines, work.exceptions.unmatched_orders)
<1> DEFINE good == Settled("tiktok", ClassifyTikTok(income))
           sku == ComputeTikTok(c, masters.vat, ExplodeToSku(good, found.orders))
           work == WorkTikTok(c, masters, relaxed, ClassifyTikTok(income), found)
<1>1. row \in good
  BY TikTokOrders DEF FinalStatus, Settled
<1>2. work.book = BuildTikTok(c, sku, relaxed)
  BY DEF WorkTikTok
<1>3. work.exceptions.unmatched_orders = Unmatched(good, Pairs(sku))
  BY DEF WorkTikTok, OrderExceptions
<1> HIDE DEF good, sku, work
<1>4. work.book.lines = sku
  BY <1>2 DEF BuildTikTok
<1>5. OnRecord(row, sku, Unmatched(good, Pairs(sku)))
  BY <1>1, InvoicedOrReported
<1> QED
  BY <1>3, <1>4, <1>5 DEF work

\* Shopee: the sku lines of the orders of status ok are invoiced.
LEMMA ShopeeOnRecord ==
  ASSUME NEW c, NEW masters, NEW relaxed, NEW parts, NEW income, NEW found,
         NEW row \in ClassifyShopee(income), FinalStatus(row.status) = "OK"
  PROVE  LET work == WorkShopee(c, masters, relaxed, parts, income, ClassifyShopee(income), found)
         IN  OnRecord(row, work.book.lines, work.exceptions.unmatched_orders)
<1> DEFINE classified == ClassifyShopee(income)
           joined == ExplodeToSku(classified, found.orders)
           sku == ComputeShopee(c, masters.vat, joined)
           ok == {line \in sku : line.status = "ok"}
           work == WorkShopee(c, masters, relaxed, parts, income, classified, found)
<1>1. row.status = "ok" /\ \A p \in classified : IsOrder(p)
  BY ShopeeOrders DEF FinalStatus
<1>2. work.book = BuildShopee(c, sku, relaxed)
  BY DEF WorkShopee
<1>3. work.exceptions.unmatched_orders = Unmatched(classified, Pairs(sku))
  BY DEF WorkShopee, OrderExceptions
<1>4. SameOrders(joined, sku)
  <2> HIDE DEF classified
  <2> QED BY <1>1, JoinedLines, ComputedOrders
<1>5. ASSUME Pair(row) \in Pairs(sku) PROVE Pair(row) \in Pairs(ok)
  <2> HIDE DEF joined, sku
  <2>1. PICK line \in joined : Pair(line) = Pair(row)
    BY <1>4, <1>5 DEF SameOrders, Pairs
  <2>2. PICK same \in joined : Pair(same) = Pair(row) /\ same.status = row.status
    <3> HIDE DEF classified
    <3>1. row \in classified
      BY DEF classified
    <3> QED BY <1>1, <2>1, <3>1, JoinedLines DEF joined
  <2>3. PICK p \in sku : Pair(p) = Pair(same) /\ p.status = same.status
    BY <1>4, <2>2 DEF SameOrders
  <2> QED
    BY <1>1, <2>2, <2>3 DEF Pairs
<1> HIDE DEF sku, work, classified
<1>6. work.book.lines = ok
  BY <1>2 DEF BuildShopee
<1>7. OnRecord(row, ok, Unmatched(classified, Pairs(sku)))
  <2>1. ok \in SUBSET sku /\ row \in classified
    BY DEF classified
  <2> HIDE DEF ok
  <2> QED BY <2>1, <1>5, InvoicedOrReported
<1> QED
  BY <1>3, <1>6, <1>7 DEF work, classified

\* The image of a finite set is finite.
LEMMA FiniteImage ==
  ASSUME NEW S, IsFiniteSet(S), NEW g, DOMAIN g = S
  PROVE  IsFiniteSet({g[x] : x \in S})
<1> DEFINE T == {g[x] : x \in S}
           f == [x \in S |-> g[x]]
<1>1. f \in Surjection(S, T)
  BY DEF Surjection
<1> HIDE DEF f, T
<1>2. IsFiniteSet(T)
  BY <1>1, FS_Surjection
<1> QED
  BY <1>2 DEF T

\* Finitely many files with finitely many rows have finitely many.
LEMMA FiniteRead ==
  ASSUME NEW files, IsFiniteSet(files), \A f \in files : IsFiniteSet(f.rows)
  PROVE  IsFiniteSet(ReadFiles(files))
<1>1. ASSUME NEW f \in files PROVE IsFiniteSet(FileRows(f))
  <2> DEFINE rows == f.rows
             g == [r \in rows |-> FileRow(f, r)]
  <2>1. FileRows(f) = {g[r] : r \in rows}
    BY DEF FileRows
  <2>2. DOMAIN g = rows /\ IsFiniteSet(rows)
    OBVIOUS
  <2> HIDE DEF g, rows
  <2>3. IsFiniteSet({g[r] : r \in rows})
    BY <2>2, FiniteImage
  <2> QED
    BY <2>1, <2>3
<1>2. IsFiniteSet({FileRows(f) : f \in files})
  <2> DEFINE g == [f \in files |-> FileRows(f)]
  <2>1. {FileRows(f) : f \in files} = {g[f] : f \in files}
    OBVIOUS
  <2>2. DOMAIN g = files
    OBVIOUS
  <2> HIDE DEF g
  <2>3. IsFiniteSet({g[f] : f \in files})
    BY <2>2, FiniteImage
  <2> QED
    BY <2>1, <2>3
<1> QED
  BY <1>1, <1>2, FS_UNION DEF ReadFiles

\* A window's ledger has finitely many rows.
LEMMA FiniteLedger ==
  ASSUME NEW c, NEW masters, NEW files, IsFiniteSet(files),
         \A f \in files : IsFiniteSet(f.rows)
  PROVE  IsFiniteSet(ClassifyLedger(c, masters, ReadLedger(files)))
<1>3. IsFiniteSet(ReadFiles(files))
  BY FiniteRead
<1>4. IsFiniteSet(ReadLedger(files))
  <2> DEFINE g == [row \in ReadFiles(files) |-> [row EXCEPT !.amount = ToNumber(row.amount)]]
  <2>1. ReadLedger(files) = {g[row] : row \in ReadFiles(files)}
    BY DEF ReadLedger
  <2>2. DOMAIN g = ReadFiles(files)
    OBVIOUS
  <2> HIDE DEF g
  <2> QED
    BY <1>3, <2>1, <2>2, FiniteImage
<1> DEFINE Row(row) == With(row, [bucket |-> BucketOf(masters.fees, row.fee),
                                  rate   |-> VatFactor(c, masters.vat, row.sku)])
           g == [row \in ReadLedger(files) |-> Row(row)]
<1>5. ClassifyLedger(c, masters, ReadLedger(files)) = {g[row] : row \in ReadLedger(files)}
  BY DEF ClassifyLedger
<1>6. DOMAIN g = ReadLedger(files)
  OBVIOUS
<1> HIDE DEF g
<1> QED
  BY <1>4, <1>5, <1>6, FiniteImage

\* A revenue line has its key's columns and its rows' number.
LEMMA RevenueLineColumns ==
  ASSUME NEW c, NEW classified, NEW key, DOMAIN key = {"store", "order", "sku"}
  PROVE  LET line == RevenueLine(c, classified, key)
         IN  /\ \A k \in DOMAIN key : line[k] = key[k]
             /\ line.store = key.store /\ line.order = key.order /\ line.sku = key.sku
             /\ line.qty = Cardinality(Members(RevenueRows(c, classified), key))
BY DEF RevenueLine, With

\* A revenue row of an order is on the line of its store, order and SKU.
LEMMA LedgerOnRecord ==
  ASSUME NEW c, NEW relaxed, NEW classified, IsFiniteSet(classified),
         NEW row \in classified, row.bucket = c.revenueBucket, row.order # NoOrder
  PROVE  \E line \in BuildLazada(c, RevenueLines(c, classified), classified, relaxed).lines :
            line.store = row.store /\ line.order = row.order /\ line.sku = row.sku
<1> DEFINE columns == {"store", "order", "sku"}
           key == Restrict(row, columns)
           rows == Members(RevenueRows(c, classified), key)
           revenue == RevenueLines(c, classified)
           bad == {line \in revenue : line.order = NoOrder \/ line.qty <= 0}
<1>1. row \in RevenueRows(c, classified)
  BY DEF RevenueRows
<1>2. DOMAIN key = columns /\ \A k \in columns : key[k] = row[k]
  BY DEF Restrict
<1>3. key \in Groups(RevenueRows(c, classified), columns)
  BY <1>1 DEF Groups
<1>4. row \in rows
  BY <1>1, <1>2 DEF Members
<1>5. Cardinality(rows) \in Nat /\ Cardinality(rows) > 0
  <2>1. rows \in SUBSET classified
    BY DEF Members, RevenueRows
  <2> HIDE DEF rows
  <2>2. IsFiniteSet(rows)
    BY <2>1, FS_Subset
  <2>3. Cardinality(rows) \in Nat /\ Cardinality(rows) # 0
    BY <1>4, <2>2, FS_CardinalityType, FS_EmptySet
  <2> QED
    BY <2>3
<1> HIDE DEF rows
<1> DEFINE line == RevenueLine(c, classified, key)
<1>6. line \in revenue
  <2> HIDE DEF key, line
  <2> QED BY <1>3 DEF RevenueLines, line
<1>7. line.store = key.store /\ line.order = key.order /\ line.sku = key.sku
  BY <1>2, RevenueLineColumns
<1>8. line.store = row.store /\ line.order = row.order /\ line.sku = row.sku
  BY <1>2, <1>7
<1>9. line.qty = Cardinality(rows)
  BY <1>2, RevenueLineColumns DEF rows
<1> HIDE DEF line
<1>10. line \notin bad
  BY <1>5, <1>8, <1>9
<1>11. BuildLazada(c, revenue, classified, relaxed).lines = revenue \ bad
  <2> HIDE DEF revenue
  <2> QED BY DEF BuildLazada
<1> QED
  BY <1>6, <1>8, <1>10, <1>11

-----------------------------------------------------------------------------
(* Every outcome is the result of a run. *)

\* A result names what it was asked, and is told apart from no run.
LEMMA ResultAsked ==
  ASSUME NEW dep, NEW input, NEW w, NEW stores, NEW team
  PROVE  /\ RunResult(dep, input, w, stores, team).asked
              = [input |-> input, stores |-> stores, team |-> team]
         /\ RunResult(dep, input, w, stores, team) # NoRun
<1>1. RunResult(dep, input, w, stores, team).asked
        = [input |-> input, stores |-> stores, team |-> team]
  BY DEF RunResult, Concluded
<1>2. RunResult(dep, input, w, stores, team).status # "none"
  BY DEF RunResult, Concluded, Status
<1> QED
  BY <1>1, <1>2 DEF NoRun

\* At first there is no run.
LEMMA InitRuns ==
  Init => RunsAreResults
BY DEF Init, RunsAreResults, ExportsOf, NoRun

\* A run's outcome is a result when it is written, and stays one: the exports it
\* read stay staged and the deployment is the same.
LEMMA StepRuns ==
  RunsAreResults /\ [Next]_vars => RunsAreResults'
<1> SUFFICES ASSUME RunsAreResults, [Next]_vars PROVE RunsAreResults'
  OBVIOUS
<1> USE DEF RunsAreResults, inputVars, decisionVars
<1>1. ASSUME NEW f \in setup.exports, Stage(f) PROVE RunsAreResults'
  BY <1>1 DEF Stage, ExportsOf
<1>10. ASSUME NEW f \in tree, BackfillIndex(f) PROVE RunsAreResults'
  BY <1>10 DEF BackfillIndex
<1>2. ASSUME NEW w \in setup.windows, NEW job \in setup.jobs, RunWindow(w, job)
      PROVE  RunsAreResults'
  <2> DEFINE stores == RosterDeclaration(declared[w], job)
             team == Merge(refs[w], job.refs)
             result == RunResult(setup, tree, w, stores, team)
  <2>1. outcome' = [outcome EXCEPT ![w] = result] /\ UNCHANGED inputVars
    BY <1>2 DEF RunWindow
  <2>2. result.asked = [input |-> tree, stores |-> stores, team |-> team]
    BY ResultAsked
  <2> HIDE DEF result, stores, team
  <2>3. outcome'[w] = result /\ DOMAIN outcome' = DOMAIN outcome
    BY <2>1
  <2>4. result = RunResult(setup, result.asked.input, w, result.asked.stores, result.asked.team)
    BY <2>2 DEF result
  <2> QED
    BY <2>1, <2>2, <2>3, <2>4
<1>3. ASSUME NEW w \in setup.windows, NEW stores \in setup.declarations, Declare(w, stores)
      PROVE  RunsAreResults'
  BY <1>3 DEF Declare
<1>4. ASSUME NEW w \in setup.windows, NEW supplied \in setup.references, Supply(w, supplied)
      PROVE  RunsAreResults'
  BY <1>4 DEF Supply
<1>5. ASSUME UNCHANGED <<inputVars, outcome>> PROVE RunsAreResults'
  BY <1>5
<1>6. ASSUME NEW fingerprint, NEW disposition, Mark(fingerprint, disposition)
      PROVE  RunsAreResults'
  BY <1>5, <1>6 DEF Mark
<1>7. ASSUME NEW clerk, NEW fingerprint, BeginClear(clerk, fingerprint) PROVE RunsAreResults'
  BY <1>5, <1>7 DEF BeginClear
<1>8. ASSUME NEW clear, EndClear(clear) PROVE RunsAreResults'
  BY <1>5, <1>8 DEF EndClear
<1>9. CASE UNCHANGED vars
  BY <1>5, <1>9 DEF vars
<1> QED
  BY <1>1, <1>2, <1>3, <1>4, <1>6, <1>7, <1>8, <1>9, <1>10 DEF Next

\* The latest outcome of a window is the result the pipeline gives of exports
\* staged then: what the other theorems reason from.  (worker.py: _execute,
\* pipeline.py: run.)
THEOREM OutcomesAreResults == Spec => []RunsAreResults
<1>1. Init => RunsAreResults
  BY InitRuns
<1>2. RunsAreResults /\ [Next]_vars => RunsAreResults'
  BY StepRuns
<1> QED
  BY <1>1, <1>2, PTL DEF Spec

\* What a run that is not refused leaves, and that the roster it relaxes is
\* all that sets its contract apart from the deployment's.
LEMMA ResultProduced ==
  ASSUME NEW dep, NEW input, NEW w, NEW stores, NEW team,
         RunResult(dep, input, w, stores, team).status # "hard_stop"
  PROVE  LET r    == RunResult(dep, input, w, stores, team)
             work == Settle(dep, input, w, stores)
         IN  /\ ~Refused(dep, input, w, stores)
             /\ r.status = Status(Variances(dep, work, Masters(dep), team),
                                  NotChecked(dep, work.figures, team.perStore))
             /\ r.book = work.book /\ r.classified = work.classified
             /\ r.found = work.found /\ r.exceptions = work.exceptions
             /\ r.checks = work.checks
BY DEF RunResult, Concluded

\* Of what the proofs ask of a contract a declaration only adds to the optional stores.
LEMMA RelaxedContract ==
  ASSUME NEW dep \in Setups, NEW stores
  PROVE  LET c == PartialRoster(dep.contract, stores)
         IN  /\ c.aliases = dep.contract.aliases /\ c.bounds = dep.contract.bounds
             /\ c.expected = dep.contract.expected /\ c.mode = dep.contract.mode
             /\ c.revenueBucket = dep.contract.revenueBucket
             /\ c.optional = dep.contract.optional \cup Relaxed(dep.contract, stores)
BY SetupsAssumption DEF PartialRoster, ContractFields

\* What the assumption on deployments says of the exports a run may read.
LEMMA SetupFiles ==
  ASSUME NEW dep \in Setups, NEW input \in SUBSET ExportsOf(dep)
  PROVE  /\ Legible(input)
         /\ \A f \in input : f.window \in Windows /\ IsFiniteSet(f.rows)
         /\ \A f \in input : f.kind = "income" => \A r \in f.rows : "day" \in DOMAIN r
         /\ IsFiniteSet(input)
<1>1. IsFiniteSet(input)
  BY SetupsAssumption, FS_Subset
<1> QED
  BY <1>1, SetupsAssumption DEF Legible

\* A settlement of any exports has the settled orders on record.
LEMMA SettledOnRecord ==
  ASSUME NEW dep \in Setups, NEW input \in SUBSET ExportsOf(dep), NEW w, NEW stores
  PROVE  LET work == Settle(dep, input, w, stores)
         IN  IF dep.platform # "lazada"
             THEN \A row \in work.classified : FinalStatus(row.status) = "OK" =>
                    OnRecord(row, work.book.lines, work.exceptions.unmatched_orders)
             ELSE \A row \in work.classified :
                    row.bucket = dep.contract.revenueBucket /\ row.order # NoOrder =>
                      \E line \in work.book.lines :
                         line.store = row.store /\ line.order = row.order /\ line.sku = row.sku
<1> DEFINE c == PartialRoster(dep.contract, stores)
           relaxed == Relaxed(dep.contract, stores)
           work == Settle(dep, input, w, stores)
           income == ReadIncome(c, input, w)
<1> HIDE DEF c, relaxed, income
<1>1. ASSUME dep.platform = "tiktok"
      PROVE  \A row \in work.classified : FinalStatus(row.status) = "OK" =>
               OnRecord(row, work.book.lines, work.exceptions.unmatched_orders)
  <2> DEFINE classified == ClassifyTikTok(income)
             found == ResolveOrders(c, input, w, Settled("tiktok", classified), "settled")
  <2>1. work = WorkTikTok(c, Masters(dep), relaxed, classified, found)
    BY <1>1 DEF Settle, SettleTikTok, c, relaxed, income
  <2> HIDE DEF found
  <2>2. work.classified = ClassifyTikTok(income)
    BY <2>1 DEF WorkTikTok
  <2> HIDE DEF work
  <2> QED
    BY <2>1, <2>2, TikTokOnRecord
<1>2. ASSUME dep.platform # "tiktok", dep.platform # "lazada"
      PROVE  \A row \in work.classified : FinalStatus(row.status) = "OK" =>
               OnRecord(row, work.book.lines, work.exceptions.unmatched_orders)
  <2> DEFINE classified == ClassifyShopee(income)
             found == ResolveOrders(c, input, w, classified, "net")
  <2>1. work = WorkShopee(c, Masters(dep), relaxed, FilesOf(input, w, "income"), income, classified, found)
    BY <1>2 DEF Settle, SettleShopee, c, relaxed, income
  <2> HIDE DEF found
  <2>2. work.classified = ClassifyShopee(income)
    BY <2>1 DEF WorkShopee
  <2> HIDE DEF work
  <2> QED
    BY <2>1, <2>2, ShopeeOnRecord
<1>3. ASSUME dep.platform = "lazada"
      PROVE  \A row \in work.classified :
               row.bucket = dep.contract.revenueBucket /\ row.order # NoOrder =>
                 \E line \in work.book.lines :
                    line.store = row.store /\ line.order = row.order /\ line.sku = row.sku
  <2> DEFINE files == LedgerFiles(input, w)
             classified == ClassifyLedger(c, FeeMasters(dep), ReadLedger(files))
  <2>1. work = SettleLedger(c, FeeMasters(dep), input, w, relaxed)
    BY <1>3 DEF Settle, c, relaxed
  <2>2. /\ work.classified = classified
        /\ work.book = BuildLazada(c, RevenueLines(c, classified), classified, relaxed)
    BY <2>1 DEF SettleLedger
  <2>3. files \in SUBSET input
    BY DEF LedgerFiles, FilesOf
  <2>4. IsFiniteSet(files) /\ \A f \in files : IsFiniteSet(f.rows)
    <3> HIDE DEF files
    <3> QED BY <2>3, SetupFiles, FS_Subset
  <2> HIDE DEF files
  <2>5. IsFiniteSet(classified)
    BY <2>4, FiniteLedger
  <2>6. c.revenueBucket = dep.contract.revenueBucket
    BY RelaxedContract DEF c
  <2> HIDE DEF classified, work
  <2> QED
    BY <2>2, <2>5, <2>6, LedgerOnRecord
<1> QED
  BY <1>1, <1>2, <1>3

\* An order the income settles for invoicing is on a line of the workbook or
\* among the unmatched orders of its run, never both nor neither; a ledger's
\* revenue is on a line or has no order.  (pipeline.py: _run_tiktok, _run_shopee,
\* _run_lazada.)
THEOREM NothingSettledIsLost == Spec => []SettledIsOnRecord
<1>1. RunsAreResults => SettledIsOnRecord
  <2> SUFFICES ASSUME RunsAreResults, NEW w \in setup.windows, Produced(w)
               PROVE  LET r == outcome[w]
                      IN  IF Ordered
                          THEN \A row \in r.classified : FinalStatus(row.status) = "OK" =>
                                 OnRecord(row, r.book.lines, r.exceptions.unmatched_orders)
                          ELSE \A row \in r.classified : row.bucket = setup.contract.revenueBucket =>
                                 \/ row.order = NoOrder
                                 \/ \E line \in r.book.lines :
                                       /\ line.store = row.store /\ line.order = row.order
                                       /\ line.sku = row.sku
    BY DEF SettledIsOnRecord, OnRecord
  <2> DEFINE asked == outcome[w].asked
  <2>1. /\ setup \in Setups /\ asked.input \in SUBSET ExportsOf(setup)
        /\ outcome[w] = RunResult(setup, asked.input, w, asked.stores, asked.team)
        /\ outcome[w].status # "hard_stop"
    BY DEF RunsAreResults, Produced, NoRun
  <2> HIDE DEF asked
  <2> DEFINE work == Settle(setup, asked.input, w, asked.stores)
  <2>2. /\ outcome[w].book = work.book /\ outcome[w].classified = work.classified
        /\ outcome[w].exceptions = work.exceptions
    BY <2>1, ResultProduced
  <2> QED
    BY <2>1, <2>2, SettledOnRecord DEF Ordered
<1>2. QED
  BY <1>1, OutcomesAreResults, PTL

-----------------------------------------------------------------------------
(* The roster behind a workbook. *)

\* The stores of the orders are those of the order files with a row.
LEMMA StoresOfOrders ==
  ASSUME NEW dep, NEW c, c.aliases = dep.contract.aliases, NEW input, Legible(input), NEW w
  PROVE  Stores(ReadParts(c, "orders", FilesOf(input, w, "orders")))
           = Present(dep, input, w, {"orders"})
<1> DEFINE files == FilesOf(input, w, "orders")
           rows == ReadParts(c, "orders", files)
<1>1. \A store : CanonicalStore(c, store) = CanonicalStore(dep.contract, store)
  BY DEF CanonicalStore
<1>2. Legible(files)
  BY DEF Legible, FilesOf
<1>3. \A f \in files : f \in input /\ f.window = w /\ Kept(dep, w, f) = f.rows
                       /\ StoreOf(dep, f) = CanonicalStore(c, f.store)
  BY <1>1 DEF FilesOf, Kept, StoreOf, LedgerKinds
<1>4. ASSUME NEW row \in rows PROVE row.store \in Present(dep, input, w, {"orders"})
  <2>1. PICK f \in files : \E r \in f.rows : IsRowOf(c, f, r, row)
    <3> HIDE DEF files
    <3> QED BY <1>2, RowsComeFromFiles
  <2>2. row.store = StoreOf(dep, f) /\ Kept(dep, w, f) # {} /\ f.kind = "orders"
    BY <2>1, <1>3 DEF IsRowOf, FilesOf
  <2> QED
    BY <2>2, <1>3 DEF Present
<1>5. ASSUME NEW s \in Present(dep, input, w, {"orders"}) PROVE \E row \in rows : row.store = s
  <2>1. PICK f \in files : s = StoreOf(dep, f) /\ Kept(dep, w, f) # {}
    BY DEF Present, FilesOf
  <2>2. PICK r \in f.rows : TRUE
    BY <2>1, <1>3
  <2>3. PICK row \in rows : IsRowOf(c, f, r, row)
    <3> HIDE DEF files
    <3> QED BY <1>2, RowsAreRead
  <2> QED
    BY <2>1, <2>3, <1>3 DEF IsRowOf
<1> HIDE DEF rows
<1>6. Stores(rows) = Present(dep, input, w, {"orders"})
  BY <1>4, <1>5 DEF Stores
<1> QED
  BY <1>6 DEF rows

\* The stores of the income are those of the income files with a row within bounds.
LEMMA StoresOfIncome ==
  ASSUME NEW dep, NEW c, c.aliases = dep.contract.aliases, c.bounds = dep.contract.bounds,
         NEW input, Legible(input), NEW w,
         \A f \in input : f.kind = "income" => \A r \in f.rows : "day" \in DOMAIN r
  PROVE  Stores(ReadIncome(c, input, w)) = Present(dep, input, w, {"income"})
<1> DEFINE files == FilesOf(input, w, "income")
           rows == ReadIncome(c, input, w)
<1>1. \A store : CanonicalStore(c, store) = CanonicalStore(dep.contract, store)
  BY DEF CanonicalStore
<1>2. Legible(files) /\ \A f \in files : \A r \in f.rows : "day" \in DOMAIN r
  BY DEF Legible, FilesOf
<1>3. \A f \in files : /\ f \in input /\ f.window = w
                       /\ Kept(dep, w, f) = ApplySettlementBounds(c, w, f.rows)
                       /\ Kept(dep, w, f) \subseteq f.rows
                       /\ StoreOf(dep, f) = CanonicalStore(c, f.store)
  BY <1>1 DEF FilesOf, Kept, StoreOf, LedgerKinds, ApplySettlementBounds
<1>4. ASSUME NEW row \in rows PROVE row.store \in Present(dep, input, w, {"income"})
  <2>1. PICK f \in files : \E r \in ApplySettlementBounds(c, w, f.rows) : IsRowOf(c, f, r, row)
    BY <1>2, IncomeComesFromFiles
  <2>2. row.store = StoreOf(dep, f) /\ Kept(dep, w, f) # {} /\ f.kind = "income"
    BY <2>1, <1>3 DEF IsRowOf, FilesOf
  <2> QED
    BY <2>2, <1>3 DEF Present
<1>5. ASSUME NEW s \in Present(dep, input, w, {"income"}) PROVE \E row \in rows : row.store = s
  <2>1. PICK f \in files : s = StoreOf(dep, f) /\ Kept(dep, w, f) # {}
    BY DEF Present, FilesOf
  <2>2. PICK r \in ApplySettlementBounds(c, w, f.rows) : r \in f.rows
    BY <2>1, <1>3
  <2>3. PICK row \in rows : IsRowOf(c, f, r, row)
    BY <1>2, <2>2, IncomeIsRead
  <2> QED
    BY <2>1, <2>3, <1>3 DEF IsRowOf
<1> HIDE DEF rows
<1>6. Stores(rows) = Present(dep, input, w, {"income"})
  BY <1>4, <1>5 DEF Stores
<1> QED
  BY <1>6 DEF rows

\* The stores of the ledger are those of its files with a row; classifying and
\* summing up add none.
LEMMA StoresOfLedger ==
  ASSUME NEW dep, NEW c, NEW masters, NEW input, NEW w
  PROVE  LET ledger     == ReadLedger(LedgerFiles(input, w))
             classified == ClassifyLedger(c, masters, ledger)
         IN  /\ Stores(ledger) = Present(dep, input, w, LedgerKinds)
             /\ Stores(classified) \subseteq Stores(ledger)
             /\ Stores(RevenueLines(c, classified)) \subseteq Stores(classified)
<1> DEFINE files == LedgerFiles(input, w)
           ledger == ReadLedger(files)
           classified == ClassifyLedger(c, masters, ledger)
<1>1. files = {f \in input : f.window = w /\ f.kind \in LedgerKinds}
  BY DEF LedgerFiles, FilesOf
<1>2. \A f \in files : Kept(dep, w, f) = f.rows /\ StoreOf(dep, f) = f.store
  BY <1>1 DEF Kept, StoreOf, LedgerKinds
<1>3. \A f, r : LET row == FileRow(f, r) IN
        [row EXCEPT !.amount = ToNumber(row.amount)].store = f.store
  <2> SUFFICES ASSUME NEW f, NEW r
               PROVE  LET row == FileRow(f, r) IN
                        [row EXCEPT !.amount = ToNumber(row.amount)].store = f.store
    OBVIOUS
  <2> DEFINE row == FileRow(f, r)
  <2>1. "store" \in DOMAIN row /\ row.store = f.store
    BY FileRowColumns
  <2> HIDE DEF row
  <2> QED
    BY <2>1 DEF row
<1> HIDE DEF files
<1> DEFINE Parsed(row) == [row EXCEPT !.amount = ToNumber(row.amount)]
<1>4. /\ ledger = {Parsed(row) : row \in ReadFiles(files)}
      /\ \A row \in ReadFiles(files) : \E f \in files : \E r \in f.rows : row = FileRow(f, r)
      /\ \A f \in files : \A r \in f.rows : FileRow(f, r) \in ReadFiles(files)
  BY DEF ReadLedger, ReadFiles, FileRows
<1>5. \A f, r : Parsed(FileRow(f, r)).store = f.store
  BY <1>3
<1> HIDE DEF Parsed, ledger
<1>6. \A row \in ledger : \E f \in files : \E r \in f.rows : row.store = f.store
  BY <1>4, <1>5
<1>7. \A f \in files : \A r \in f.rows : \E row \in ledger : row.store = f.store
  BY <1>4, <1>5
<1>8. Stores(ledger) = {f.store : f \in {f \in files : f.rows # {}}}
  <2> HIDE DEF ledger
  <2> QED BY <1>6, <1>7 DEF Stores
<1>9. Stores(ledger) = Present(dep, input, w, LedgerKinds)
  <2> HIDE DEF ledger
  <2>1. ASSUME NEW s \in Stores(ledger) PROVE s \in Present(dep, input, w, LedgerKinds)
    <3>1. PICK f \in files : f.rows # {} /\ s = f.store
      BY <1>8
    <3> QED
      BY <3>1, <1>1, <1>2 DEF Present
  <2>2. ASSUME NEW s \in Present(dep, input, w, LedgerKinds) PROVE s \in Stores(ledger)
    <3>1. PICK f \in input : /\ f.window = w /\ f.kind \in LedgerKinds
                             /\ Kept(dep, w, f) # {} /\ s = StoreOf(dep, f)
      BY DEF Present
    <3>2. f \in files
      BY <3>1, <1>1
    <3> QED
      BY <3>1, <3>2, <1>2, <1>8
  <2> QED
    BY <2>1, <2>2
<1>10. ASSUME NEW row \in classified PROVE row.store \in Stores(ledger)
  <2> DEFINE Rest(x) == [bucket |-> BucketOf(masters.fees, x.fee),
                         rate   |-> VatFactor(c, masters.vat, x.sku)]
  <2>3. PICK x \in ledger : row = With(x, Rest(x))
    BY DEF ClassifyLedger
  <2>1. DOMAIN Rest(x) = {"bucket", "rate"}
    OBVIOUS
  <2> HIDE DEF Rest
  <2>2. "store" \in DOMAIN x
    <3>1. \A f, r : "store" \in DOMAIN FileRow(f, r)
      BY FileRowColumns
    <3> QED
      BY <3>1, <1>4 DEF Parsed
  <2> QED
    BY <2>1, <2>2, <2>3, WithOld DEF Stores
<1>11. ASSUME NEW line \in RevenueLines(c, classified) PROVE line.store \in Stores(classified)
  <2> HIDE DEF classified
  <2>1. PICK key \in Groups(RevenueRows(c, classified), {"store", "order", "sku"}) :
          line = RevenueLine(c, classified, key)
    BY DEF RevenueLines
  <2>2. DOMAIN key = {"store", "order", "sku"}
    BY GroupsOfRows
  <2>3. PICK row \in RevenueRows(c, classified) : \A k \in {"store", "order", "sku"} : key[k] = row[k]
    BY GroupsOfRows
  <2>4. line.store = key.store
    BY <2>1, <2>2, RevenueLineColumns
  <2>5. key.store = row.store /\ row \in classified
    BY <2>3 DEF RevenueRows
  <2> QED
    BY <2>4, <2>5 DEF Stores
<1>12. Stores(classified) \subseteq Stores(ledger)
  <2> HIDE DEF classified, ledger
  <2> QED BY <1>10 DEF Stores
<1>13. Stores(RevenueLines(c, classified)) \subseteq Stores(classified)
  <2> HIDE DEF classified
  <2> QED BY <1>11 DEF Stores
<1> QED
  BY <1>9, <1>12, <1>13 DEF files, ledger

\* Rows the roster's check lets pass.
LEMMA ArmedRoster ==
  ASSUME NEW c, NEW rows, c.expected # {}, ~CheckStoresRefused(c, rows)
  PROVE  c.expected \ Stores(rows) \subseteq c.optional /\ Stores(rows) \subseteq c.expected
BY DEF CheckStoresRefused, Stores

\* The lines are of stores the income has.
LEMMA StoresOfLines ==
  ASSUME NEW c, NEW vat, NEW platform, NEW income, NEW orders,
         NEW settled \in SUBSET Classified(platform, income)
  PROVE  LET joined == ExplodeToSku(settled, orders)
         IN  /\ Stores(ComputeTikTok(c, vat, joined)) \subseteq Stores(income)
             /\ Stores(ComputeShopee(c, vat, joined)) \subseteq Stores(income)
<1> DEFINE joined == ExplodeToSku(settled, orders)
<1>1. \A p \in settled : IsOrder(p) /\ \E i \in income : Pair(i) = Pair(p)
  BY ClassifiedOrders
<1>2. \A line \in joined : IsOrder(line) /\ \E p \in settled : Pair(p) = Pair(line)
  BY <1>1, JoinedLines
<1> HIDE DEF joined
<1>3. SameOrders(joined, ComputeTikTok(c, vat, joined)) /\ SameOrders(joined, ComputeShopee(c, vat, joined))
  BY <1>2, ComputedOrders
<1>4. ASSUME NEW sku, SameOrders(joined, sku) PROVE Stores(sku) \subseteq Stores(income)
  <2> SUFFICES ASSUME NEW line \in sku PROVE \E i \in income : i.store = line.store
    BY DEF Stores
  <2>1. PICK j \in joined : Pair(line) = Pair(j)
    BY <1>4 DEF SameOrders
  <2>2. PICK p \in settled : Pair(p) = Pair(j)
    BY <1>2
  <2>3. PICK i \in income : Pair(i) = Pair(p)
    BY <1>1
  <2> QED
    BY <2>1, <2>2, <2>3 DEF Pair
<1> QED
  BY <1>3, <1>4 DEF joined

\* A store a declaration excuses, none of whose files has a row, is on the workbook.
LEMMA AbsentAreNamed ==
  ASSUME NEW dep \in Setups, NEW input \in SUBSET ExportsOf(dep), NEW w, NEW stores
  PROVE  Relaxed(dep.contract, stores) \ Present(dep, input, w, {"orders", "income"} \cup LedgerKinds)
           \subseteq Settle(dep, input, w, stores).book.absent
<1> DEFINE c == PartialRoster(dep.contract, stores)
           relaxed == Relaxed(dep.contract, stores)
           work == Settle(dep, input, w, stores)
           income == ReadIncome(c, input, w)
           all == Present(dep, input, w, {"orders", "income"} \cup LedgerKinds)
<1>1. Stores(income) \subseteq all
  <2>1. Stores(income) = Present(dep, input, w, {"income"})
    BY RelaxedContract, SetupFiles, StoresOfIncome
  <2> QED
    BY <2>1 DEF Present
<1>2. Present(dep, input, w, LedgerKinds) \subseteq all
  BY DEF Present
<1> HIDE DEF c, relaxed, income, all
<1>3. ASSUME dep.platform = "tiktok" PROVE relaxed \ all \subseteq work.book.absent
  <2> DEFINE good == Settled("tiktok", ClassifyTikTok(income))
             found == ResolveOrders(c, input, w, good, "settled")
             sku == ComputeTikTok(c, Masters(dep).vat, ExplodeToSku(good, found.orders))
  <2>1. work.book = BuildTikTok(c, sku, relaxed)
    BY <1>3 DEF Settle, SettleTikTok, WorkTikTok, c, relaxed, income
  <2>2. good \in SUBSET Classified("tiktok", income)
    BY DEF Settled, Classified
  <2> HIDE DEF good, found
  <2>3. Stores(sku) \subseteq Stores(income)
    BY <2>2, StoresOfLines
  <2> HIDE DEF sku, work
  <2>4. work.book.absent = relaxed \ Stores(sku)
    BY <2>1 DEF BuildTikTok, RosterStamp
  <2> QED
    BY <1>1, <2>3, <2>4
<1>4. ASSUME dep.platform # "tiktok", dep.platform # "lazada"
      PROVE  relaxed \ all \subseteq work.book.absent
  <2> DEFINE classified == ClassifyShopee(income)
             found == ResolveOrders(c, input, w, classified, "net")
             sku == ComputeShopee(c, Masters(dep).vat, ExplodeToSku(classified, found.orders))
  <2>1. work.book = BuildShopee(c, sku, relaxed)
    BY <1>4 DEF Settle, SettleShopee, WorkShopee, c, relaxed, income
  <2>2. classified \in SUBSET Classified("shopee", income)
    BY DEF Classified
  <2> HIDE DEF classified, found
  <2>3. Stores(sku) \subseteq Stores(income)
    BY <2>2, StoresOfLines
  <2> HIDE DEF sku, work
  <2>4. work.book.absent = relaxed \ Stores(sku)
    BY <2>1 DEF BuildShopee, RosterStamp
  <2> QED
    BY <1>1, <2>3, <2>4
<1>5. ASSUME dep.platform = "lazada" PROVE relaxed \ all \subseteq work.book.absent
  <2> DEFINE ledger == ReadLedger(LedgerFiles(input, w))
             classified == ClassifyLedger(c, FeeMasters(dep), ledger)
             revenue == RevenueLines(c, classified)
  <2>1. work.book = BuildLazada(c, revenue, classified, relaxed)
    BY <1>5 DEF Settle, SettleLedger, c, relaxed
  <2>2. Stores(classified) \subseteq all /\ Stores(revenue) \subseteq all
    BY <1>2, StoresOfLedger
  <2> HIDE DEF classified, revenue, work
  <2>3. work.book.absent = relaxed \ Stores(revenue \cup classified)
    BY <2>1 DEF BuildLazada, RosterStamp
  <2>4. Stores(revenue \cup classified) \subseteq all
    BY <2>2 DEF Stores
  <2> QED
    BY <2>3, <2>4
<1> QED
  BY <1>3, <1>4, <1>5 DEF relaxed, all

\* A run not refused has, of each kind of file, the stores it must and no other.
LEMMA RosterOfRun ==
  ASSUME NEW dep \in Setups, NEW input \in SUBSET ExportsOf(dep), NEW w, NEW stores,
         dep.contract.expected # {}, ~Refused(dep, input, w, stores),
         NEW kinds \in IF dep.platform # "lazada" THEN {{"orders"}, {"income"}} ELSE {LedgerKinds}
  PROVE  /\ dep.contract.expected \ Present(dep, input, w, kinds)
                \subseteq Relaxed(dep.contract, stores) \cup dep.contract.optional
         /\ Present(dep, input, w, kinds) \subseteq dep.contract.expected
<1> DEFINE c == PartialRoster(dep.contract, stores)
<1>1. /\ c.expected = dep.contract.expected /\ c.aliases = dep.contract.aliases
      /\ c.bounds = dep.contract.bounds
      /\ c.optional = dep.contract.optional \cup Relaxed(dep.contract, stores)
  BY RelaxedContract
<1>2. /\ dep.platform # "lazada" => ~OrdersRefused(dep.platform, c, input, w)
      /\ dep.platform = "lazada" => ~LedgerRunRefused(c, FeeMasters(dep), input, w)
  BY DEF Refused
<1> HIDE DEF c
<1>3. ASSUME NEW rows, ~CheckStoresRefused(c, rows), Stores(rows) = Present(dep, input, w, kinds)
      PROVE  /\ dep.contract.expected \ Present(dep, input, w, kinds)
                    \subseteq Relaxed(dep.contract, stores) \cup dep.contract.optional
             /\ Present(dep, input, w, kinds) \subseteq dep.contract.expected
  <2>1. c.expected \ Stores(rows) \subseteq c.optional /\ Stores(rows) \subseteq c.expected
    BY <1>1, <1>3, ArmedRoster
  <2> QED
    BY <1>1, <1>3, <2>1
<1>4. CASE dep.platform # "lazada" /\ kinds = {"orders"}
  <2>1. ~CheckStoresRefused(c, ReadParts(c, "orders", FilesOf(input, w, "orders")))
    BY <1>2, <1>4 DEF OrdersRefused
  <2>2. Stores(ReadParts(c, "orders", FilesOf(input, w, "orders"))) = Present(dep, input, w, kinds)
    BY <1>1, <1>4, SetupFiles, StoresOfOrders
  <2> QED
    BY <1>3, <2>1, <2>2
<1>5. CASE dep.platform # "lazada" /\ kinds = {"income"}
  <2>1. ~CheckStoresRefused(c, ReadIncome(c, input, w))
    BY <1>2, <1>5 DEF OrdersRefused
  <2>2. Stores(ReadIncome(c, input, w)) = Present(dep, input, w, kinds)
    BY <1>1, <1>5, SetupFiles, StoresOfIncome
  <2> QED
    BY <1>3, <2>1, <2>2
<1>6. CASE dep.platform = "lazada" /\ kinds = LedgerKinds
  <2>1. ~CheckStoresRefused(c, ReadLedger(LedgerFiles(input, w)))
    BY <1>2, <1>6 DEF LedgerRunRefused
  <2>2. Stores(ReadLedger(LedgerFiles(input, w))) = Present(dep, input, w, kinds)
    BY <1>6, StoresOfLedger
  <2> QED
    BY <1>3, <2>1, <2>2
<1> QED
  BY <1>4, <1>5, <1>6

\* Behind a workbook the exports of each kind are of every expected store but the
\* excused and the optional, and of none besides; an excused store that has none
\* is named on the workbook.  (ingest.py: check_stores; pipeline.py:
\* _partial_roster.)
THEOREM RosterStaysArmed == Spec => []RosterHolds
<1>1. RunsAreResults => RosterHolds
  <2> SUFFICES ASSUME RunsAreResults, NEW w \in setup.windows, Produced(w),
                      setup.contract.expected # {}
               PROVE  LET r == outcome[w]
                          excused == IF r.asked.stores = {} THEN setup.contract.expected
                                     ELSE IF r.asked.stores = NotDeclared THEN {} ELSE r.asked.stores
                          PresentIn(kinds) == Present(setup, r.asked.input, w, kinds)
                      IN  /\ \A kinds \in (IF Ordered THEN {{"orders"}, {"income"}} ELSE {LedgerKinds}) :
                                /\ setup.contract.expected \ PresentIn(kinds)
                                      \subseteq excused \cup setup.contract.optional
                                /\ PresentIn(kinds) \subseteq setup.contract.expected
                          /\ excused \ PresentIn({"orders", "income"} \cup LedgerKinds)
                                \subseteq r.book.absent
    BY DEF RosterHolds
  <2> DEFINE asked == outcome[w].asked
             excused == IF asked.stores = {} THEN setup.contract.expected
                        ELSE IF asked.stores = NotDeclared THEN {} ELSE asked.stores
  <2>1. /\ setup \in Setups /\ asked.input \in SUBSET ExportsOf(setup)
        /\ outcome[w] = RunResult(setup, asked.input, w, asked.stores, asked.team)
        /\ outcome[w].status # "hard_stop"
    BY DEF RunsAreResults, Produced, NoRun
  <2>2. excused = Relaxed(setup.contract, asked.stores)
    BY NotDeclaredAssumption DEF Relaxed
  <2> HIDE DEF asked
  <2>3. /\ ~Refused(setup, asked.input, w, asked.stores)
        /\ outcome[w].book = Settle(setup, asked.input, w, asked.stores).book
    BY <2>1, ResultProduced
  <2>4. \A kinds \in (IF Ordered THEN {{"orders"}, {"income"}} ELSE {LedgerKinds}) :
          /\ setup.contract.expected \ Present(setup, asked.input, w, kinds)
                \subseteq excused \cup setup.contract.optional
          /\ Present(setup, asked.input, w, kinds) \subseteq setup.contract.expected
    <3> HIDE DEF excused
    <3> QED BY <2>1, <2>2, <2>3, RosterOfRun DEF Ordered
  <2>5. excused \ Present(setup, asked.input, w, {"orders", "income"} \cup LedgerKinds)
          \subseteq outcome[w].book.absent
    <3> HIDE DEF excused
    <3> QED BY <2>1, <2>2, <2>3, AbsentAreNamed
  <2> QED
    BY <2>4, <2>5 DEF asked
<1>2. QED
  BY <1>1, OutcomesAreResults, PTL

-----------------------------------------------------------------------------
(* The order of windows. *)

\* The order of ordinals as texts is transitive ...
LEMMA TextTransitive ==
  ASSUME NEW a \in Seq(Nat), NEW b \in Seq(Nat), NEW d \in Seq(Nat),
         TextBefore(a, b), TextBefore(b, d)
  PROVE  TextBefore(a, d)
<1>1. PICK n \in 0..Len(a) : /\ \A i \in 1..n : i <= Len(b) /\ a[i] = b[i]
                             /\ n < Len(b)
                             /\ n = Len(a) \/ a[n + 1] < b[n + 1]
  BY DEF TextBefore
<1>2. PICK m \in 0..Len(b) : /\ \A i \in 1..m : i <= Len(d) /\ b[i] = d[i]
                             /\ m < Len(d)
                             /\ m = Len(b) \/ b[m + 1] < d[m + 1]
  BY DEF TextBefore
<1>3. Len(a) \in Nat /\ Len(b) \in Nat /\ Len(d) \in Nat
  OBVIOUS
<1>4. CASE n < m
  <2>1. \A i \in 1..n : i <= Len(d) /\ a[i] = d[i]
    BY <1>1, <1>2, <1>3, <1>4
  <2>2. n + 1 \in 1..m
    BY <1>1, <1>2, <1>3, <1>4
  <2>3. b[n + 1] = d[n + 1] /\ n < Len(d)
    BY <1>2, <1>3, <2>2
  <2> QED
    BY <1>1, <2>1, <2>3 DEF TextBefore
<1>5. CASE m < n
  <2>1. ASSUME NEW i \in 1..m PROVE i <= Len(d) /\ a[i] = d[i]
    <3>1. i \in 1..n
      BY <1>3, <1>5
    <3> QED
      BY <1>1, <1>2, <3>1
  <2>2. m \in Nat /\ n \in Nat /\ m + 1 \in 1..n /\ m # Len(b)
    <3>1. m \in Nat /\ n \in Nat /\ n < Len(b)
      BY <1>1, <1>3
    <3> QED
      BY <3>1, <1>3, <1>5
  <2>3. a[m + 1] = b[m + 1] /\ m \in 0..Len(a)
    BY <1>1, <1>3, <2>2
  <2> QED
    BY <1>2, <2>1, <2>2, <2>3 DEF TextBefore
<1>6. CASE m = n
  <2>1. \A i \in 1..n : i <= Len(d) /\ a[i] = d[i]
    BY <1>1, <1>2, <1>3, <1>6
  <2>2. n = Len(a) \/ a[n + 1] < d[n + 1]
    <3> SUFFICES ASSUME n # Len(a) PROVE a[n + 1] < d[n + 1]
      OBVIOUS
    <3>1. n + 1 \in 1..Len(a) /\ n + 1 \in 1..Len(b) /\ n + 1 \in 1..Len(d)
      BY <1>1, <1>2, <1>3, <1>6
    <3>2. a[n + 1] \in Nat /\ b[n + 1] \in Nat /\ d[n + 1] \in Nat
      BY <3>1
    <3> QED
      BY <1>1, <1>2, <1>6, <3>2
  <2> QED
    BY <1>2, <1>6, <2>1, <2>2 DEF TextBefore
<1> QED
  BY <1>1, <1>2, <1>3, <1>4, <1>5, <1>6

\* ... and total: where two texts first differ, one is before the other.
LEMMA TextTotal ==
  ASSUME NEW a \in Seq(Nat), NEW b \in Seq(Nat), a # b
  PROVE  TextBefore(a, b) \/ TextBefore(b, a)
<1> DEFINE Agree(n) == n + 1 <= Len(a) /\ n + 1 <= Len(b) /\ a[n + 1] = b[n + 1]
           Differ == {n \in Nat : (n < Len(a) \/ n < Len(b)) /\ ~Agree(n)}
<1>1. Len(a) \in Nat /\ Len(b) \in Nat
  OBVIOUS
<1>2. Differ # {}
  <2> SUFFICES ASSUME Differ = {} PROVE FALSE
    OBVIOUS
  <2>1. \A n \in Nat : n < Len(a) \/ n < Len(b) => Agree(n)
    OBVIOUS
  <2>2. Len(a) = Len(b)
    <3>1. CASE Len(a) < Len(b)
      BY <2>1, <1>1, <3>1
    <3>2. CASE Len(b) < Len(a)
      BY <2>1, <1>1, <3>2
    <3> QED
      BY <1>1, <3>1, <3>2
  <2>3. \A i \in 1..Len(a) : a[i] = b[i]
    <3> SUFFICES ASSUME NEW i \in 1..Len(a) PROVE a[i] = b[i]
      OBVIOUS
    <3>1. i - 1 \in Nat /\ i - 1 < Len(a) /\ (i - 1) + 1 = i
      BY <1>1
    <3>2. Agree(i - 1)
      BY <2>1, <3>1
    <3> QED
      BY <3>1, <3>2
  <2> QED
    BY <2>2, <2>3, SeqEqual
<1>3. PICK n \in Differ : \A m \in Differ : n <= m
  <2>1. Differ \in SUBSET Nat
    OBVIOUS
  <2> HIDE DEF Differ
  <2> QED BY <1>2, <2>1, Least
<1>4. n \in Nat /\ (n < Len(a) \/ n < Len(b)) /\ ~Agree(n)
  BY <1>3
<1>5. \A i \in 1..n : i <= Len(a) /\ i <= Len(b) /\ a[i] = b[i]
  <2> SUFFICES ASSUME NEW i \in 1..n PROVE i <= Len(a) /\ i <= Len(b) /\ a[i] = b[i]
    OBVIOUS
  <2>1. i - 1 \in Nat /\ i - 1 < n /\ (i - 1) + 1 = i
    BY <1>4
  <2>2. i - 1 \notin Differ
    BY <1>3, <1>4, <2>1
  <2>3. Agree(i - 1)
    BY <1>1, <1>4, <2>1, <2>2
  <2> QED
    BY <2>1, <2>3
<1>6. n <= Len(a) /\ n <= Len(b)
  <2>1. CASE n = 0
    BY <1>1, <2>1
  <2>2. CASE n # 0
    <3>1. n \in 1..n
      BY <1>4, <2>2
    <3> QED
      BY <1>5, <3>1
  <2> QED
    BY <2>1, <2>2
<1>7. n \in 0..Len(a) /\ n \in 0..Len(b)
  BY <1>1, <1>4, <1>6
<1> HIDE DEF Differ, Agree
<1>8. CASE n = Len(a)
  <2>1. n < Len(b)
    BY <1>1, <1>4, <1>8
  <2>2. TextBefore(a, b)
    BY <1>5, <1>8, <1>7, <2>1 DEF TextBefore
  <2> QED
    BY <2>2
<1>9. CASE n = Len(b)
  <2>1. n < Len(a)
    BY <1>1, <1>4, <1>9
  <2>2. TextBefore(b, a)
    BY <1>5, <1>9, <1>7, <2>1 DEF TextBefore
  <2> QED
    BY <2>2
<1>10. CASE n < Len(a) /\ n < Len(b)
  <2>1. n + 1 \in 1..Len(a) /\ n + 1 \in 1..Len(b)
    BY <1>1, <1>4, <1>10
  <2>2. a[n + 1] \in Nat /\ b[n + 1] \in Nat /\ a[n + 1] # b[n + 1]
    BY <1>1, <1>4, <2>1 DEF Agree
  <2>3. a[n + 1] < b[n + 1] => TextBefore(a, b)
    BY <1>5, <1>10, <1>7 DEF TextBefore
  <2>4. b[n + 1] < a[n + 1] => TextBefore(b, a)
    BY <1>5, <1>10, <1>7 DEF TextBefore
  <2> QED
    BY <2>2, <2>3, <2>4
<1> QED
  BY <1>1, <1>4, <1>6, <1>8, <1>9, <1>10

\* A common first character does not count.
LEMMA TextPrefixed ==
  ASSUME NEW a \in Seq(Nat), NEW b \in Seq(Nat), NEW x \in Nat, TextBefore(a, b)
  PROVE  TextBefore(<<x>> \o a, <<x>> \o b)
<1>1. PICK n \in 0..Len(a) : /\ \A i \in 1..n : i <= Len(b) /\ a[i] = b[i]
                             /\ n < Len(b)
                             /\ n = Len(a) \/ a[n + 1] < b[n + 1]
  BY DEF TextBefore
<1> DEFINE u == <<x>> \o a
           v == <<x>> \o b
<1>2. /\ Len(a) \in Nat /\ Len(b) \in Nat
      /\ Len(u) = Len(a) + 1 /\ Len(v) = Len(b) + 1
      /\ u[1] = x /\ v[1] = x
      /\ \A i \in 1..Len(a) : u[i + 1] = a[i]
      /\ \A i \in 1..Len(b) : v[i + 1] = b[i]
  <2>1. <<x>> \in Seq(Nat) /\ Len(<<x>>) = 1 /\ <<x>>[1] = x
    OBVIOUS
  <2> QED
    BY <2>1, ConcatProperties
<1> HIDE DEF u, v
<1>3. n + 1 \in 0..Len(u) /\ n + 1 < Len(v)
  BY <1>1, <1>2
<1>4. \A i \in 1..(n + 1) : i <= Len(v) /\ u[i] = v[i]
  <2> SUFFICES ASSUME NEW i \in 1..(n + 1) PROVE i <= Len(v) /\ u[i] = v[i]
    OBVIOUS
  <2>1. CASE i = 1
    BY <1>1, <1>2, <2>1
  <2>2. CASE i # 1
    <3>1. i - 1 \in 1..n /\ i - 1 \in 1..Len(a) /\ (i - 1) + 1 = i
      BY <1>1, <1>2, <2>2
    <3>2. i - 1 \in 1..Len(b) /\ a[i - 1] = b[i - 1]
      BY <1>1, <1>2, <3>1
    <3>3. u[i] = a[i - 1] /\ v[i] = b[i - 1]
      BY <1>2, <3>1, <3>2
    <3> QED
      BY <1>2, <3>2, <3>3
  <2> QED
    BY <2>1, <2>2
<1>5. n + 1 = Len(u) \/ u[n + 2] < v[n + 2]
  <2> SUFFICES ASSUME n # Len(a) PROVE u[n + 2] < v[n + 2]
    BY <1>2
  <2>1. n + 1 \in 1..Len(a) /\ n + 1 \in 1..Len(b) /\ (n + 1) + 1 = n + 2
    BY <1>1, <1>2
  <2>2. u[n + 2] = a[n + 1] /\ v[n + 2] = b[n + 1]
    BY <1>2, <2>1
  <2> QED
    BY <1>1, <2>2
<1>6. (n + 1) + 1 = n + 2
  BY <1>1, <1>2
<1>7. TextBefore(u, v)
  BY <1>3, <1>4, <1>5, <1>6 DEF TextBefore
<1> QED
  BY <1>7 DEF u, v

\* Of the windows of a series the earlier is transitive ...
LEMMA EarlierTransitive ==
  ASSUME NEW u \in Windows, NEW v \in Windows, NEW w \in Windows, Earlier(u, v), Earlier(v, w)
  PROVE  Earlier(u, w)
<1>1. u.ordinal \in Seq(Nat) /\ v.ordinal \in Seq(Nat) /\ w.ordinal \in Seq(Nat)
  BY DEF Windows
<1>2. TextBefore(u.ordinal, w.ordinal)
  BY <1>1, TextTransitive DEF Earlier
<1> QED
  BY <1>2 DEF Earlier, SameSeries

\* ... and total.
LEMMA EarlierTotal ==
  ASSUME NEW u \in Windows, NEW v \in Windows, SameSeries(u, v), u # v
  PROVE  Earlier(u, v) \/ Earlier(v, u)
<1>1. u.ordinal \in Seq(Nat) /\ v.ordinal \in Seq(Nat)
  BY DEF Windows
<1>2. u.ordinal # v.ordinal
  BY DEF Windows, SameSeries
<1>3. TextBefore(u.ordinal, v.ordinal) \/ TextBefore(v.ordinal, u.ordinal)
  BY <1>1, <1>2, TextTotal
<1> QED
  BY <1>3 DEF Earlier, SameSeries

-----------------------------------------------------------------------------
(* Who lends the lines of an order. *)

\* The rows of a lender's order files, as read, are rows of the files.
LEMMA LentRows ==
  ASSUME NEW c, NEW files, Legible(files)
  PROVE  LET rows == NormalizeParts(c, "orders", ReadFiles(files))
         IN  /\ \A row \in rows : \E f \in files : \E r \in f.rows : IsRowOf(c, f, r, row)
             /\ \A f \in files : \A r \in f.rows : \E row \in rows : IsRowOf(c, f, r, row)
<1> DEFINE rows == NormalizeParts(c, "orders", ReadFiles(files))
<1>1. \A f \in files : \A r \in f.rows :
        IsRowOf(c, f, r, NormalizeRow(c, "orders", FileRow(f, r)))
  <2> SUFFICES ASSUME NEW f \in files, NEW r \in f.rows
               PROVE  IsRowOf(c, f, r, NormalizeRow(c, "orders", FileRow(f, r)))
    OBVIOUS
  <2> DEFINE raw == FileRow(f, r)
  <2>1. /\ raw.store = f.store /\ raw.window = f.window /\ raw.order = r.order
        /\ {"store", "window", "order"} \subseteq DOMAIN raw
        /\ "day" \in DOMAIN r => "day" \in DOMAIN raw /\ raw.day = r.day
    BY FileRowColumns DEF Legible
  <2> HIDE DEF raw
  <2>2. IsRowOf(c, f, r, NormalizeRow(c, "orders", raw))
    BY <2>1, NormalizedColumns DEF IsRowOf
  <2> QED
    BY <2>2 DEF raw
<1>2. \A row \in rows : \E f \in files : \E r \in f.rows :
        row = NormalizeRow(c, "orders", FileRow(f, r))
  BY DEF NormalizeParts, ReadFiles, FileRows
<1>3. \A f \in files : \A r \in f.rows : NormalizeRow(c, "orders", FileRow(f, r)) \in rows
  BY DEF NormalizeParts, ReadFiles, FileRows
<1> HIDE DEF rows
<1>4. /\ \A row \in rows : \E f \in files : \E r \in f.rows : IsRowOf(c, f, r, row)
      /\ \A f \in files : \A r \in f.rows : \E row \in rows : IsRowOf(c, f, r, row)
  BY <1>1, <1>2, <1>3
<1> QED
  BY <1>4 DEF rows

\* A borrowed line is a row of an order file of an earlier window.
LEMMA BorrowedLine ==
  ASSUME NEW c, NEW input, Legible(input), NEW w, NEW needed,
         NEW row \in BorrowOrderLines(c, input, w, needed)
  PROVE  \E f \in input :
            /\ f.kind = "orders" /\ f.window = row.window
            /\ row.window \in PredecessorWindows(input, w)
            /\ \E r \in f.rows : IsRowOf(c, f, r, row)
            /\ Pair(row) \in needed
            /\ Pair(row) \in Remaining(c, input, w, row.window, needed)
<1>1. PICK v \in PredecessorWindows(input, w) : row \in SuppliedBy(c, input, w, v, needed)
  BY DEF BorrowOrderLines
<1> DEFINE files == Prefiltered(c, FilesOf(input, v, "orders"), needed)
<1>2. /\ row \in NormalizeParts(c, "orders", ReadFiles(files))
      /\ Pair(row) \in needed /\ Pair(row) \in Remaining(c, input, w, v, needed)
  BY <1>1 DEF SuppliedBy, PredecessorLines
<1>3. \A f \in files : f \in input /\ f.window = v /\ f.kind = "orders"
  BY DEF Prefiltered, FilesOf
<1>4. Legible(files)
  BY <1>3 DEF Legible
<1> HIDE DEF files
<1>5. PICK f \in files : \E r \in f.rows : IsRowOf(c, f, r, row)
  BY <1>2, <1>4, LentRows
<1>6. row.window = v
  BY <1>3, <1>5 DEF IsRowOf
<1> QED
  BY <1>1, <1>2, <1>3, <1>5, <1>6

\* A window that can be read and has a needed order has lines of it to lend.
LEMMA LenderHasLines ==
  ASSUME NEW c, NEW input, Legible(input), NEW needed, NEW f \in input, f.kind = "orders",
         f.store # NoStore, NEW r \in f.rows, <<CanonicalStore(c, f.store), r.order>> \in needed,
         ~PredecessorRefused(c, Prefiltered(c, FilesOf(input, f.window, "orders"), needed))
  PROVE  <<CanonicalStore(c, f.store), r.order>>
            \in Pairs(PredecessorLines(c, input, f.window, needed))
<1> DEFINE files == Prefiltered(c, FilesOf(input, f.window, "orders"), needed)
<1>1. Legible(files)
  BY DEF Prefiltered, FilesOf, Legible
<1>2. f \in files
  <2>1. <<CanonicalStore(c, f.store), r.order>>[1] = CanonicalStore(c, f.store)
    OBVIOUS
  <2> QED
    BY <2>1 DEF Prefiltered, FilesOf
<1>3. PredecessorLines(c, input, f.window, needed)
        = {row \in NormalizeParts(c, "orders", ReadFiles(files)) : Pair(row) \in needed}
  BY DEF PredecessorLines
<1> HIDE DEF files
<1>4. PICK row \in NormalizeParts(c, "orders", ReadFiles(files)) : IsRowOf(c, f, r, row)
  BY <1>1, <1>2, LentRows
<1>5. Pair(row) = <<CanonicalStore(c, f.store), r.order>>
  BY <1>4 DEF IsRowOf, Pair
<1> QED
  BY <1>3, <1>4, <1>5 DEF Pairs

\* The nearest window of the series that has the order is the one that lends.
LEMMA NearestLends ==
  ASSUME NEW c, NEW input, Legible(input), \A f \in input : f.window \in Windows,
         NEW w \in Windows, NEW needed, c.mode = "apply", ~BorrowRefused(c, input, w, needed),
         NEW row \in BorrowOrderLines(c, input, w, needed),
         NEW f \in input, f.kind = "orders", f.store # NoStore,
         NEW r \in f.rows, Pair(row) = <<CanonicalStore(c, f.store), r.order>>,
         Earlier(f.window, w), f.window # row.window
  PROVE  Earlier(f.window, row.window)
<1> DEFINE u == f.window
           v == row.window
<1>1. /\ v \in PredecessorWindows(input, w) /\ v \in Windows
      /\ Pair(row) \in needed /\ Pair(row) \in Remaining(c, input, w, v, needed)
  BY BorrowedLine
<1>2. Earlier(v, w)
  BY <1>1 DEF PredecessorWindows
<1>3. u \in Windows /\ u \in PredecessorWindows(input, w)
  BY DEF PredecessorWindows, FilesOf
<1>4. SUFFICES ASSUME ~Earlier(u, v) PROVE FALSE
  OBVIOUS
<1>5. Earlier(v, u)
  <2>1. SameSeries(u, v)
    BY <1>2 DEF Earlier, SameSeries
  <2> QED
    BY <1>1, <1>3, <1>4, <2>1, EarlierTotal
<1>6. Pair(row) \in Remaining(c, input, w, u, needed)
  <2>1. ASSUME NEW x \in PredecessorWindows(input, w), Earlier(u, x) PROVE Earlier(v, x)
    <3>1. x \in Windows
      BY DEF PredecessorWindows
    <3> QED
      BY <1>1, <1>3, <1>5, <2>1, <3>1, EarlierTransitive
  <2> QED
    BY <1>1, <2>1 DEF Remaining
<1>7. ~PredecessorRefused(c, Prefiltered(c, FilesOf(input, u, "orders"), needed))
  BY <1>3, <1>6 DEF BorrowRefused
<1>8. Pair(row) \in Pairs(PredecessorLines(c, input, u, needed))
  BY <1>1, <1>7, LenderHasLines
<1> QED
  BY <1>1, <1>3, <1>5, <1>8 DEF Remaining

\* What a run of orders borrows, and from what it was refused.
LEMMA ResolvedLines ==
  ASSUME NEW dep, NEW input, NEW w, NEW stores, dep.platform # "lazada"
  PROVE  LET c       == PartialRoster(dep.contract, stores)
             orders  == ReadParts(c, "orders", FilesOf(input, w, "orders"))
             settled == Settled(dep.platform, Classified(dep.platform, ReadIncome(c, input, w)))
             found   == Settle(dep, input, w, stores).found
         IN  /\ found.borrowed = IF c.mode = "off" THEN {}
                                 ELSE BorrowOrderLines(c, input, w, Needed(orders, settled))
             /\ found.applied => c.mode = "apply"
             /\ ~Refused(dep, input, w, stores) /\ c.mode # "off" =>
                  ~BorrowRefused(c, input, w, Needed(orders, settled))
<1> DEFINE c == PartialRoster(dep.contract, stores)
           relaxed == Relaxed(dep.contract, stores)
           orders == ReadParts(c, "orders", FilesOf(input, w, "orders"))
           income == ReadIncome(c, input, w)
           settled == Settled(dep.platform, Classified(dep.platform, income))
           found == Settle(dep, input, w, stores).found
<1>1. ~Refused(dep, input, w, stores) /\ c.mode # "off" =>
        ~BorrowRefused(c, input, w, Needed(orders, settled))
  BY DEF Refused, OrdersRefused, ResolveRefused
<1>2. \E column : found = Resolve(c, input, w, orders, settled, column)
  <2>1. CASE dep.platform = "tiktok"
    <3>1. Settle(dep, input, w, stores) = SettleTikTok(c, Masters(dep), input, w, relaxed)
      BY <2>1 DEF Settle
    <3>2. found = ResolveOrders(c, input, w, Settled("tiktok", ClassifyTikTok(income)), "settled")
      <4> HIDE DEF c, relaxed
      <4> QED BY <3>1 DEF SettleTikTok, WorkTikTok
    <3>3. settled = Settled("tiktok", ClassifyTikTok(income))
      BY <2>1 DEF Classified
    <3> QED
      BY <3>2, <3>3 DEF ResolveOrders
  <2>2. CASE dep.platform # "tiktok"
    <3>1. Settle(dep, input, w, stores) = SettleShopee(c, Masters(dep), input, w, relaxed)
      BY <2>2 DEF Settle
    <3>2. found = ResolveOrders(c, input, w, ClassifyShopee(income), "net")
      <4> HIDE DEF c, relaxed
      <4> QED BY <3>1 DEF SettleShopee, WorkShopee
    <3>3. settled = ClassifyShopee(income)
      BY <2>2 DEF Classified, Settled
    <3> QED
      BY <3>2, <3>3 DEF ResolveOrders
  <2> QED
    BY <2>1, <2>2
<1> HIDE DEF c, orders, settled, found
<1>3. PICK column : found = Resolve(c, input, w, orders, settled, column)
  BY <1>2
<1>4. /\ found.borrowed = IF c.mode = "off" THEN {}
                          ELSE BorrowOrderLines(c, input, w, Needed(orders, settled))
      /\ found.applied => c.mode = "apply"
  BY <1>3 DEF Resolve, Found
<1> QED
  BY <1>1, <1>4 DEF c, orders, settled, found

\* A run of ledgers borrows nothing.
LEMMA LedgerBorrowsNothing ==
  ASSUME NEW dep, NEW input, NEW w, NEW stores, dep.platform = "lazada"
  PROVE  /\ Settle(dep, input, w, stores).found.borrowed = {}
         /\ ~Settle(dep, input, w, stores).found.applied
BY DEF Settle, SettleLedger

\* The order lines a run borrows come from an earlier window of its series, and
\* no window between them, nor its own, has the order in a file.  (backfill.py:
\* borrow_order_lines.)
THEOREM NearestLender == Spec => []NearestWindowLends
<1>1. RunsAreResults => NearestWindowLends
  <2> SUFFICES ASSUME RunsAreResults, NEW w \in setup.windows, Produced(w),
                      outcome[w].found.applied, NEW row \in outcome[w].found.borrowed
               PROVE  /\ Earlier(row.window, w)
                      /\ \A f \in outcome[w].asked.input :
                            HasOrder(f, row.store, row.order) /\ f.window # row.window =>
                              \/ Earlier(f.window, row.window)
                              \/ ~(Earlier(f.window, w) \/ f.window = w)
    BY DEF NearestWindowLends
  <2> DEFINE asked == outcome[w].asked
             input == asked.input
             stores == asked.stores
             c == PartialRoster(setup.contract, stores)
             orders == ReadParts(c, "orders", FilesOf(input, w, "orders"))
             settled == Settled(setup.platform, Classified(setup.platform, ReadIncome(c, input, w)))
             needed == Needed(orders, settled)
  <2>1. /\ setup \in Setups /\ input \in SUBSET ExportsOf(setup) /\ w \in Windows
        /\ outcome[w] = RunResult(setup, input, w, stores, asked.team)
        /\ outcome[w].status # "hard_stop"
    BY SetupsAssumption DEF RunsAreResults, Produced, NoRun
  <2> HIDE DEF asked, input, stores
  <2>2. /\ ~Refused(setup, input, w, stores)
        /\ outcome[w].found = Settle(setup, input, w, stores).found
    BY <2>1, ResultProduced
  <2>3. setup.platform # "lazada"
    BY <2>2, LedgerBorrowsNothing
  <2>4. /\ c.mode = "apply" /\ ~BorrowRefused(c, input, w, needed)
        /\ row \in BorrowOrderLines(c, input, w, needed)
    BY <2>2, <2>3, ResolvedLines
  <2>5. c.aliases = setup.contract.aliases
    BY <2>1, RelaxedContract
  <2>6. Legible(input) /\ \A f \in input : f.window \in Windows
    BY <2>1, SetupFiles
  <2> HIDE DEF c, settled, needed
  <2>7. Pair(row) \in needed /\ Earlier(row.window, w)
    BY <2>4, <2>6, BorrowedLine DEF PredecessorWindows
  <2>8. ASSUME NEW f \in input, HasOrder(f, row.store, row.order), f.window # row.window,
               Earlier(f.window, w) \/ f.window = w
        PROVE  Earlier(f.window, row.window)
    <3>1. PICK r \in f.rows : r.order = row.order
      BY <2>8 DEF HasOrder
    <3>2. /\ f.kind = "orders" /\ f.store # NoStore
          /\ Pair(row) = <<CanonicalStore(c, f.store), r.order>>
      BY <2>5, <2>8, <3>1 DEF HasOrder, CanonicalStore, Pair
    <3>3. CASE Earlier(f.window, w)
      BY <2>1, <2>4, <2>6, <2>8, <3>2, <3>3, NearestLends
    <3>4. CASE f.window = w
      <4>1. Legible(FilesOf(input, w, "orders")) /\ f \in FilesOf(input, w, "orders")
        BY <2>6, <3>2, <3>4 DEF Legible, FilesOf
      <4>2. PICK x \in orders : IsRowOf(c, f, r, x)
        BY <4>1, RowsAreRead
      <4>3. Pair(x) = Pair(row)
        BY <3>2, <4>2 DEF IsRowOf, Pair
      <4>4. Pair(row) \in Pairs(orders)
        BY <4>2, <4>3 DEF Pairs
      <4> QED
        BY <2>7, <4>4 DEF needed, Needed
    <3> QED
      BY <2>8, <3>3, <3>4
  <2> QED
    BY <2>7, <2>8 DEF input, asked
<1>2. QED
  BY <1>1, OutcomesAreResults, PTL

\* What the log was told is a report: the index has staged exports only, and a
\* run reads all that are staged when it starts.
LEMMA ReportsOfTheIndex ==
  Spec => [](RunsAreResults /\ ReportsAreOfTheIndex)
<1>1. Init => ReportsAreOfTheIndex
  BY DEF Init, ReportsAreOfTheIndex, NoRun
<1>2. RunsAreResults /\ ReportsAreOfTheIndex /\ [Next]_vars => ReportsAreOfTheIndex'
  <2> SUFFICES ASSUME RunsAreResults, ReportsAreOfTheIndex, [Next]_vars
               PROVE  ReportsAreOfTheIndex'
    OBVIOUS
  <2> USE DEF inputVars, decisionVars
  <2>1. ASSUME NEW f, Stage(f) PROVE ReportsAreOfTheIndex'
    BY <2>1 DEF Stage, ReportsAreOfTheIndex
  <2>2. ASSUME NEW f \in tree, BackfillIndex(f) PROVE ReportsAreOfTheIndex'
    BY <2>2 DEF BackfillIndex, ReportsAreOfTheIndex
  <2>3. ASSUME NEW w \in setup.windows, NEW job, RunWindow(w, job) PROVE ReportsAreOfTheIndex'
    <3> DEFINE stores == RosterDeclaration(declared[w], job)
               team == Merge(refs[w], job.refs)
               result == RunResult(setup, tree, w, stores, team)
               report == Report(setup, index, w)
    <3>1. /\ outcome' = [outcome EXCEPT ![w] = result]
          /\ told' = [told EXCEPT ![w] = report]
          /\ UNCHANGED <<setup, tree, index>>
      BY <2>3 DEF RunWindow
    <3>2. result.asked.input = tree
      <4>1. result.asked = [input |-> tree, stores |-> stores, team |-> team]
        BY ResultAsked
      <4> HIDE DEF result, stores, team
      <4> QED BY <4>1
    <3>3. report.index = index
      BY DEF Report
    <3>4. report = Report(setup, report.index, w)
      BY <3>3
    <3> HIDE DEF result, report, stores, team
    <3>5. /\ outcome'[w] = result /\ told'[w] = report /\ DOMAIN told' = DOMAIN told
          /\ \A v \in setup.windows \ {w} : outcome'[v] = outcome[v] /\ told'[v] = told[v]
      BY <3>1 DEF RunsAreResults, ReportsAreOfTheIndex
    <3>6. told'[w].index \subseteq outcome'[w].asked.input /\ told'[w] = Report(setup, told'[w].index, w)
      BY <3>2, <3>3, <3>4, <3>5 DEF ReportsAreOfTheIndex
    <3>7. \A v \in setup.windows \ {w} : outcome'[v] # NoRun =>
            /\ told'[v].index \subseteq outcome'[v].asked.input
            /\ told'[v] = Report(setup, told'[v].index, v)
      BY <3>5 DEF ReportsAreOfTheIndex
    <3> QED
      BY <3>1, <3>5, <3>6, <3>7 DEF ReportsAreOfTheIndex
  <2>4. ASSUME UNCHANGED <<setup, tree, index, outcome, told>> PROVE ReportsAreOfTheIndex'
    BY <2>4 DEF ReportsAreOfTheIndex
  <2>5. ASSUME NEW w, NEW stores, Declare(w, stores) PROVE ReportsAreOfTheIndex'
    BY <2>4, <2>5 DEF Declare
  <2>6. ASSUME NEW w, NEW supplied, Supply(w, supplied) PROVE ReportsAreOfTheIndex'
    BY <2>4, <2>6 DEF Supply
  <2>7. ASSUME NEW fingerprint, NEW disposition, Mark(fingerprint, disposition)
        PROVE  ReportsAreOfTheIndex'
    BY <2>4, <2>7 DEF Mark
  <2>8. ASSUME NEW clerk, NEW fingerprint, BeginClear(clerk, fingerprint)
        PROVE  ReportsAreOfTheIndex'
    BY <2>4, <2>8 DEF BeginClear
  <2>9. ASSUME NEW clear, EndClear(clear) PROVE ReportsAreOfTheIndex'
    BY <2>4, <2>9 DEF EndClear
  <2>10. CASE UNCHANGED vars
    BY <2>4, <2>10 DEF vars
  <2> QED
    BY <2>1, <2>2, <2>3, <2>5, <2>6, <2>7, <2>8, <2>9, <2>10 DEF Next
<1> QED
  BY <1>1, <1>2, InitRuns, StepRuns, PTL DEF Spec

\* The rows the index has of an export read under the store it was recorded under.
LEMMA RowsAsRead ==
  ASSUME NEW f, AsRead(f)
  PROVE  /\ IndexRows(setup.contract, Upload(setup, f))
              = {<<CanonicalStore(setup.contract, f.store), r.order>> : r \in f.rows}
         /\ Upload(setup, f).kind = f.kind /\ Upload(setup, f).window = f.window
BY DEF AsRead, IndexRows, Upload

\* The order index, asked before a run opens a file, has named every window the
\* run then borrowed lines of, for their store and order, as far as the exports
\* that show it were in the index by then and under the store they are read as:
\* the index is written apart from the upload, perhaps later, perhaps never.
\* (order_index.py; worker.py: _report_order_coverage.)
THEOREM EveryLenderWasNamed == Spec => []LendersWereNamed
<1>1. RunsAreResults /\ ReportsAreOfTheIndex => LendersWereNamed
  <2> SUFFICES ASSUME RunsAreResults, ReportsAreOfTheIndex, NEW w \in setup.windows, Produced(w),
                      NEW row \in outcome[w].found.borrowed,
                      NEW i \in told[w].index, Shows(i, "income", w, row),
                      NEW f \in told[w].index, Shows(f, "orders", row.window, row),
                      \A g \in told[w].index : g.kind = "orders" /\ g.window = w => AsRead(g)
               PROVE  [store |-> row.store, order |-> row.order, window |-> row.window]
                        \in told[w].holders
    BY DEF LendersWereNamed
  <2> DEFINE asked == outcome[w].asked
             input == asked.input
             stores == asked.stores
             base == setup.contract
             c == PartialRoster(base, stores)
             orders == ReadParts(c, "orders", FilesOf(input, w, "orders"))
             income == ReadIncome(c, input, w)
             settled == Settled(setup.platform, Classified(setup.platform, income))
             needed == Needed(orders, settled)
             known == {Upload(setup, g) : g \in told[w].index}
  <2>1. /\ setup \in Setups /\ input \in SUBSET ExportsOf(setup) /\ w \in Windows
        /\ outcome[w] = RunResult(setup, input, w, stores, asked.team)
        /\ outcome[w].status # "hard_stop"
    BY SetupsAssumption DEF RunsAreResults, Produced, NoRun
  <2>2. /\ told[w].index \subseteq input
        /\ told[w].holders = Holders(base, known, w)
    <3>1. outcome[w] # NoRun
      BY DEF Produced, NoRun
    <3>2. told[w].index \subseteq input /\ told[w] = Report(setup, told[w].index, w)
      BY <3>1 DEF ReportsAreOfTheIndex
    <3>3. Report(setup, told[w].index, w).holders = Holders(base, known, w)
      BY DEF Report
    <3> HIDE DEF known, base
    <3> QED BY <3>2, <3>3
  <2> HIDE DEF asked, input, stores
  <2>3. /\ setup.platform # "lazada"
        /\ outcome[w].found = Settle(setup, input, w, stores).found
    BY <2>1, ResultProduced, LedgerBorrowsNothing
  <2>4. row \in BorrowOrderLines(c, input, w, needed)
    BY <2>3, ResolvedLines
  <2>5. \A store : CanonicalStore(c, store) = CanonicalStore(base, store)
    BY <2>1, RelaxedContract DEF CanonicalStore
  <2>6. Legible(input) /\ \A g \in input : g.window \in Windows
    BY <2>1, SetupFiles
  <2> HIDE DEF c, orders, income, settled, needed
  <2>7. Earlier(row.window, w) /\ row.window \in Windows /\ Pair(row) \in needed
    BY <2>4, <2>6, BorrowedLine DEF PredecessorWindows
  <2>8. /\ Upload(setup, f) \in known /\ Upload(setup, f).kind = "orders"
        /\ Upload(setup, f).window = row.window
        /\ Pair(row) \in IndexRows(base, Upload(setup, f))
    BY RowsAsRead DEF Shows, Pair
  <2>9. PeriodBefore(row.window, w)
    <3>1. /\ row.window.ordinal \in Seq(Nat) /\ w.ordinal \in Seq(Nat) /\ w.letter \in Nat
          /\ TextBefore(row.window.ordinal, w.ordinal)
          /\ row.window.month = w.month /\ row.window.letter = w.letter
      BY <2>1, <2>7 DEF Windows, Earlier, SameSeries
    <3>2. TextBefore(<<w.letter>> \o row.window.ordinal, <<w.letter>> \o w.ordinal)
      BY <3>1, TextPrefixed
    <3> QED
      BY <3>1, <3>2 DEF PeriodBefore
  <2>10. Pair(row) \in Indexed(base, known, w, Settling)
    <3>1. /\ Upload(setup, i) \in known /\ Upload(setup, i).kind = "income"
          /\ Upload(setup, i).window = w
          /\ Pair(row) \in IndexRows(base, Upload(setup, i))
      BY RowsAsRead DEF Shows, Pair
    <3> HIDE DEF known, base
    <3> QED
      BY <3>1 DEF Indexed, Settling
  <2>11. Pair(row) \notin Indexed(base, known, w, {"orders"})
    <3> SUFFICES ASSUME Pair(row) \in Indexed(base, known, w, {"orders"}) PROVE FALSE
      OBVIOUS
    <3>1. PICK u \in known : u.window = w /\ u.kind = "orders" /\ Pair(row) \in IndexRows(base, u)
      <4> HIDE DEF known, base
      <4> QED BY DEF Indexed
    <3>2. PICK g \in told[w].index : u = Upload(setup, g)
      BY <3>1
    <3>3. g.kind = "orders" /\ g.window = w /\ AsRead(g)
      BY <3>1, <3>2 DEF Upload
    <3>4. PICK r \in g.rows : Pair(row) = <<CanonicalStore(c, g.store), r.order>>
      BY <2>5, <3>1, <3>2, <3>3, RowsAsRead
    <3>5. g \in FilesOf(input, w, "orders") /\ Legible(FilesOf(input, w, "orders"))
      BY <2>2, <2>6, <3>3 DEF Legible, FilesOf
    <3>6. PICK x \in orders : IsRowOf(c, g, r, x)
      BY <3>5, RowsAreRead DEF orders
    <3>7. Pair(row) \in Pairs(orders)
      BY <3>4, <3>6 DEF IsRowOf, Pair, Pairs
    <3> QED
      BY <2>7, <3>7 DEF needed, Needed
  <2>12. [store |-> row.store, order |-> row.order, window |-> row.window]
           \in Holders(base, known, w)
    <3> DEFINE lent == Upload(setup, f)
               both == <<Pair(row), lent>>
               candidates == {q \in Missing(base, known, w) \X {g \in known : g.kind = "orders"} :
                                /\ PeriodBefore(q[2].window, w)
                                /\ q[1] \in IndexRows(base, q[2])}
    <3>1. Pair(row) \in Missing(base, known, w)
      BY <2>10, <2>11 DEF Missing
    <3> HIDE DEF known, base
    <3>2. both[1] = Pair(row) /\ both[2] = lent /\ both[1][1] = row.store /\ both[1][2] = row.order
      BY DEF Pair
    <3> HIDE DEF lent
    <3>3. both \in candidates
      BY <2>8, <2>9, <3>1 DEF lent
    <3>4. Holders(base, known, w)
            = {[store |-> p[1][1], order |-> p[1][2], window |-> p[2].window] : p \in candidates}
      BY DEF Holders
    <3> HIDE DEF both, candidates
    <3>5. [store |-> both[1][1], order |-> both[1][2], window |-> both[2].window]
            \in Holders(base, known, w)
      BY <3>3, <3>4
    <3> QED
      BY <2>8, <3>2, <3>5 DEF lent
  <2> QED
    BY <2>2, <2>12
<1> QED
  BY <1>1, ReportsOfTheIndex, PTL

-----------------------------------------------------------------------------
(* The history of the decisions. *)

\* With HistoryReplays, inductive.
HistoryIsSeq == \E S : history \in Seq(S)

HistoryInv == HistoryIsSeq /\ HistoryReplays

\* The step adds an event and leaves the ones before it.
Appended(e) ==
  /\ Len(history') = Len(history) + 1
  /\ \A i \in 1..Len(history) : history'[i] = history[i]
  /\ history'[Len(history) + 1] = e

\* What appending an event makes of the history.
LEMMA EventAppended ==
  ASSUME NEW e, HistoryIsSeq, history' = Append(history, e)
  PROVE  HistoryIsSeq' /\ Appended(e) /\ Len(history) \in Nat
<1>1. PICK T : history \in Seq(T)
  BY DEF HistoryIsSeq
<1> DEFINE S == T \cup {e}
<1>2. history \in Seq(S) /\ e \in S
  BY <1>1
<1> HIDE DEF S
<1>3. history' \in Seq(S) /\ Len(history) \in Nat /\ Appended(e)
  BY <1>2, AppendProperties, LenProperties DEF Appended
<1> QED
  BY <1>3 DEF HistoryIsSeq

\* What an event changes of the marks in force: it ends that of its exception.
LEMMA InForceAfter ==
  ASSUME NEW e, Len(history) \in Nat, Appended(e)
  PROVE  /\ InForce' = {i \in InForce : history[i].fingerprint # e.fingerprint}
                          \cup (IF e.action = "mark" THEN {Len(history) + 1} ELSE {})
         /\ \A n \in 1..(Len(history) + 1) : \A i \in 1..(n - 1) : MarkedUntil(i, n)' <=> MarkedUntil(i, n)
<1> PICK last \in Nat : last = Len(history) + 1
  OBVIOUS
<1>1. \A n \in 1..last : \A i \in 1..(n - 1) : MarkedUntil(i, n)' <=> MarkedUntil(i, n)
  <2> SUFFICES ASSUME NEW n \in 1..last, NEW i \in 1..(n - 1)
               PROVE  MarkedUntil(i, n)' <=> MarkedUntil(i, n)
    OBVIOUS
  <2>1. i \in 1..Len(history) /\ \A j \in (i + 1)..(n - 1) : j \in 1..Len(history)
    OBVIOUS
  <2>2. history'[i] = history[i] /\ \A j \in (i + 1)..(n - 1) : history'[j] = history[j]
    BY <2>1 DEF Appended
  <2> QED
    BY <2>2 DEF MarkedUntil
<1>2. \A i \in 1..Len(history) : MarkedUntil(i, last + 1)' <=>
        MarkedUntil(i, last) /\ history[i].fingerprint # e.fingerprint
  <2> SUFFICES ASSUME NEW i \in 1..Len(history)
               PROVE  MarkedUntil(i, last + 1)' <=>
                        MarkedUntil(i, last) /\ history[i].fingerprint # e.fingerprint
    OBVIOUS
  <2>1. \A j : j \in (i + 1)..((last + 1) - 1) <=> j \in (i + 1)..(last - 1) \/ j = last
    OBVIOUS
  <2>2. \A j \in (i + 1)..(last - 1) : j \in 1..Len(history)
    OBVIOUS
  <2>3. /\ history'[i] = history[i] /\ history'[last] = e
        /\ \A j \in (i + 1)..(last - 1) : history'[j] = history[j]
    BY <2>2 DEF Appended
  <2> QED
    BY <2>1, <2>3 DEF MarkedUntil
<1>3. MarkedUntil(last, last + 1)' <=> e.action = "mark"
  <2>1. \A j : j \notin (last + 1)..((last + 1) - 1)
    OBVIOUS
  <2> QED
    BY <2>1 DEF MarkedUntil, Appended
<1>4. \A i : i \in 1..Len(history') <=> i \in 1..Len(history) \/ i = last
  BY DEF Appended
<1>5. \A i : i \in InForce' <=> i \in 1..Len(history') /\ MarkedUntil(i, last + 1)'
  BY DEF InForce, Appended
<1>6. \A i : i \in InForce <=> i \in 1..Len(history) /\ MarkedUntil(i, last)
  BY DEF InForce
<1>7. last \notin 1..Len(history)
  OBVIOUS
<1>8. InForce' = {i \in InForce : history[i].fingerprint # e.fingerprint}
                    \cup (IF e.action = "mark" THEN {last} ELSE {})
  BY <1>2, <1>3, <1>4, <1>5, <1>6, <1>7
<1> QED
  BY <1>1, <1>8

\* A mark keeps the history and the decisions in step ...
LEMMA DecidedAfterMark ==
  ASSUME NEW fingerprint, NEW disposition, HistoryInv, Mark(fingerprint, disposition)
  PROVE  HistoryInv'
<1> DEFINE e == [fingerprint |-> fingerprint, action |-> "mark", disposition |-> disposition]
           last == Len(history) + 1
<1>1. /\ history' = Append(history, e)
      /\ decision' = With(decision, [f \in {fingerprint} |-> disposition])
  BY DEF Mark
<1>2. e.fingerprint = fingerprint /\ e.action = "mark" /\ e.disposition = disposition
  OBVIOUS
<1> HIDE DEF e
<1>3. HistoryIsSeq' /\ Appended(e) /\ Len(history) \in Nat
  BY <1>1, EventAppended DEF HistoryInv
<1>4. /\ InForce' = {i \in InForce : history[i].fingerprint # fingerprint} \cup {last}
      /\ \A n \in 1..last : \A i \in 1..(n - 1) : MarkedUntil(i, n)' <=> MarkedUntil(i, n)
  BY <1>2, <1>3, InForceAfter
<1>5. /\ Len(history') = last /\ history'[last] = e
      /\ \A i \in 1..Len(history) : history'[i] = history[i]
      /\ \A i : i \in 1..last <=> i \in 1..Len(history) \/ i = last
      /\ \A i \in InForce : i \in 1..Len(history)
  BY <1>3 DEF Appended, InForce
<1>6. /\ DOMAIN decision' = DOMAIN decision \cup {fingerprint}
      /\ decision'[fingerprint] = disposition
      /\ \A f \in DOMAIN decision \ {fingerprint} : decision'[f] = decision[f]
  BY <1>1 DEF With
<1>7. /\ DOMAIN decision = {history[i].fingerprint : i \in InForce}
      /\ \A i \in InForce : decision[history[i].fingerprint] = history[i].disposition
      /\ \A n \in 1..Len(history) : history[n].action = "clear" =>
            \E i \in 1..(n - 1) : history[i].fingerprint = history[n].fingerprint /\ MarkedUntil(i, n)
  BY DEF HistoryInv, HistoryReplays
<1> HIDE DEF last
<1>8. DOMAIN decision' = {history'[i].fingerprint : i \in InForce'}
  BY <1>2, <1>4, <1>5, <1>6, <1>7
<1>9. \A i \in InForce' : decision'[history'[i].fingerprint] = history'[i].disposition
  BY <1>2, <1>4, <1>5, <1>6, <1>7
<1>10. ASSUME NEW n \in 1..last, history'[n].action = "clear"
       PROVE  \E i \in 1..(n - 1) :
                 history'[i].fingerprint = history'[n].fingerprint /\ MarkedUntil(i, n)'
  <2>1. n \in 1..Len(history) /\ history[n].action = "clear" /\ history'[n] = history[n]
    BY <1>2, <1>5, <1>10
  <2>2. PICK i \in 1..(n - 1) : history[i].fingerprint = history[n].fingerprint /\ MarkedUntil(i, n)
    BY <1>7, <2>1
  <2>3. i \in 1..Len(history)
    BY <1>3, <2>1
  <2> QED
    BY <1>4, <1>5, <2>1, <2>2, <2>3
<1> QED
  BY <1>3, <1>5, <1>8, <1>9, <1>10 DEF HistoryInv, HistoryReplays

\* ... and so does a clear, whether or not another one was first.
LEMMA DecidedAfterClear ==
  ASSUME NEW clear, HistoryInv, EndClear(clear)
  PROVE  HistoryInv'
<1> DEFINE fingerprint == clear.fingerprint
           e == [fingerprint |-> clear.fingerprint, action |-> "clear",
                 disposition |-> clear.released]
           last == Len(history) + 1
<1>1. /\ decision' = Restrict(decision, DOMAIN decision \ {fingerprint})
      /\ history' = IF fingerprint \in DOMAIN decision THEN Append(history, e) ELSE history
  BY DEF EndClear
<1>2. e.fingerprint = fingerprint /\ e.action = "clear"
  OBVIOUS
<1>3. /\ DOMAIN decision = {history[i].fingerprint : i \in InForce}
      /\ \A i \in InForce : decision[history[i].fingerprint] = history[i].disposition
      /\ \A n \in 1..Len(history) : history[n].action = "clear" =>
            \E i \in 1..(n - 1) : history[i].fingerprint = history[n].fingerprint /\ MarkedUntil(i, n)
  BY DEF HistoryInv, HistoryReplays
<1>4. /\ DOMAIN decision' = DOMAIN decision \ {fingerprint}
      /\ \A f \in DOMAIN decision \ {fingerprint} : decision'[f] = decision[f]
  BY <1>1 DEF Restrict
<1> HIDE DEF e, fingerprint
<1>5. CASE fingerprint \notin DOMAIN decision
  <2>1. history' = history /\ DOMAIN decision' = DOMAIN decision
        /\ \A f \in DOMAIN decision : decision'[f] = decision[f]
    BY <1>1, <1>4, <1>5
  <2>2. InForce' = InForce /\ \A i, n : MarkedUntil(i, n)' <=> MarkedUntil(i, n)
    BY <2>1 DEF InForce, MarkedUntil
  <2>3. HistoryIsSeq'
    BY <2>1 DEF HistoryInv, HistoryIsSeq
  <2>4. \A i \in InForce : history[i].fingerprint \in DOMAIN decision
    BY <1>3
  <2> QED
    BY <1>3, <2>1, <2>2, <2>3, <2>4 DEF HistoryInv, HistoryReplays
<1>6. CASE fingerprint \in DOMAIN decision
  <2>1. HistoryIsSeq' /\ Appended(e) /\ Len(history) \in Nat
    BY <1>1, <1>6, EventAppended DEF HistoryInv
  <2>2. /\ InForce' = {i \in InForce : history[i].fingerprint # fingerprint}
        /\ \A n \in 1..last : \A i \in 1..(n - 1) : MarkedUntil(i, n)' <=> MarkedUntil(i, n)
    BY <1>2, <2>1, InForceAfter
  <2>3. /\ Len(history') = last /\ history'[last] = e
        /\ \A i \in 1..Len(history) : history'[i] = history[i]
        /\ \A i : i \in 1..last <=> i \in 1..Len(history) \/ i = last
        /\ \A i \in InForce : i \in 1..(last - 1) /\ i \in 1..Len(history) /\ MarkedUntil(i, last)
        /\ last \in 1..last
    BY <2>1 DEF Appended, InForce
  <2> HIDE DEF last
  <2>4. DOMAIN decision' = {history'[i].fingerprint : i \in InForce'}
    BY <1>3, <1>4, <2>2, <2>3
  <2>5. \A i \in InForce' : decision'[history'[i].fingerprint] = history'[i].disposition
    <3> SUFFICES ASSUME NEW i \in InForce'
                 PROVE  decision'[history'[i].fingerprint] = history'[i].disposition
      OBVIOUS
    <3>1. i \in InForce /\ history[i].fingerprint # fingerprint /\ history'[i] = history[i]
      BY <2>2, <2>3
    <3>2. history[i].fingerprint \in DOMAIN decision
      BY <1>3, <3>1
    <3> QED
      BY <1>3, <1>4, <3>1, <3>2
  <2>6. ASSUME NEW n \in 1..last, history'[n].action = "clear"
        PROVE  \E i \in 1..(n - 1) :
                  history'[i].fingerprint = history'[n].fingerprint /\ MarkedUntil(i, n)'
    <3>1. CASE n = last
      <4>1. PICK i \in InForce : history[i].fingerprint = fingerprint
        BY <1>3, <1>6
      <4>2. i \in 1..(n - 1) /\ MarkedUntil(i, n) /\ history'[i].fingerprint = fingerprint
        BY <2>3, <3>1, <4>1
      <4>3. MarkedUntil(i, n)'
        BY <2>2, <2>3, <3>1, <4>2
      <4> QED
        BY <1>2, <2>3, <3>1, <4>2, <4>3
    <3>2. CASE n \in 1..Len(history)
      <4>1. history[n].action = "clear" /\ history'[n] = history[n]
        BY <2>3, <2>6, <3>2
      <4>2. PICK i \in 1..(n - 1) :
               history[i].fingerprint = history[n].fingerprint /\ MarkedUntil(i, n)
        BY <1>3, <3>2, <4>1
      <4>3. i \in 1..Len(history)
        BY <2>1, <3>2
      <4> QED
        BY <2>2, <2>3, <4>1, <4>2, <4>3
    <3> QED
      BY <2>3, <3>1, <3>2
  <2> QED
    BY <2>1, <2>3, <2>4, <2>5, <2>6 DEF HistoryInv, HistoryReplays
<1> QED
  BY <1>5, <1>6

\* What is decided of an exception is what the events say: the last is a mark, of
\* the disposition in force, and a clear follows a mark, however marks and clears
\* cross.  (repository_m5.py: set_ and clear_exception_disposition.)
THEOREM DecisionsReplay == Spec => []HistoryReplays
<1>1. Init => HistoryInv
  <2> SUFFICES ASSUME Init PROVE HistoryInv
    OBVIOUS
  <2>1. history = << >> /\ Len(history) = 0 /\ decision = << >>
    BY DEF Init
  <2>2. InForce = {} /\ DOMAIN decision = {}
    BY <2>1 DEF InForce
  <2> QED
    BY <2>1, <2>2 DEF HistoryInv, HistoryIsSeq, HistoryReplays
<1>2. HistoryInv /\ [Next]_vars => HistoryInv'
  <2> SUFFICES ASSUME HistoryInv, [Next]_vars PROVE HistoryInv'
    OBVIOUS
  <2>1. ASSUME UNCHANGED <<decision, history>> PROVE HistoryInv'
    BY <2>1 DEF HistoryInv, HistoryIsSeq, HistoryReplays, InForce, MarkedUntil
  <2>2. ASSUME NEW f, Stage(f) PROVE HistoryInv'
    BY <2>1, <2>2 DEF Stage, decisionVars
  <2>3. ASSUME NEW w, NEW job, RunWindow(w, job) PROVE HistoryInv'
    BY <2>1, <2>3 DEF RunWindow, decisionVars
  <2>4. ASSUME NEW w, NEW stores, Declare(w, stores) PROVE HistoryInv'
    BY <2>1, <2>4 DEF Declare, decisionVars
  <2>5. ASSUME NEW w, NEW supplied, Supply(w, supplied) PROVE HistoryInv'
    BY <2>1, <2>5 DEF Supply, decisionVars
  <2>6. ASSUME NEW fingerprint, NEW disposition, Mark(fingerprint, disposition) PROVE HistoryInv'
    BY <2>6, DecidedAfterMark
  <2>7. ASSUME NEW clerk, NEW fingerprint, BeginClear(clerk, fingerprint) PROVE HistoryInv'
    BY <2>1, <2>7 DEF BeginClear
  <2>8. ASSUME NEW clear, EndClear(clear) PROVE HistoryInv'
    BY <2>8, DecidedAfterClear
  <2>9. CASE UNCHANGED vars
    BY <2>1, <2>9 DEF vars, decisionVars
  <2>10. ASSUME NEW f, BackfillIndex(f) PROVE HistoryInv'
    BY <2>1, <2>10 DEF BackfillIndex, decisionVars
  <2> QED
    BY <2>2, <2>3, <2>4, <2>5, <2>6, <2>7, <2>8, <2>9, <2>10 DEF Next
<1>3. HistoryInv => HistoryReplays
  BY DEF HistoryInv
<1> QED
  BY <1>1, <1>2, <1>3, PTL DEF Spec

-----------------------------------------------------------------------------
(* A run reads its window, and the order files of the earlier ones. *)

\* Two sets of exports a window reads alike: the same files of its own and to borrow from ...
LEMMA SameFiles ==
  ASSUME NEW one, NEW two, NEW w, Read(w, one) = Read(w, two)
  PROVE  /\ \A kind : FilesOf(one, w, kind) = FilesOf(two, w, kind)
         /\ \A v : Earlier(v, w) => FilesOf(one, v, "orders") = FilesOf(two, v, "orders")
         /\ PredecessorWindows(one, w) = PredecessorWindows(two, w)
<1>1. \A f : f.window = w \/ (f.kind = "orders" /\ Earlier(f.window, w)) => (f \in one <=> f \in two)
  BY DEF Read
<1>2. \A kind : FilesOf(one, w, kind) = FilesOf(two, w, kind)
  BY <1>1 DEF FilesOf
<1>3. \A v : Earlier(v, w) => FilesOf(one, v, "orders") = FilesOf(two, v, "orders")
  BY <1>1 DEF FilesOf
<1>4. \A input, v : v \in PredecessorWindows(input, w)
                     <=> Earlier(v, w) /\ FilesOf(input, v, "orders") # {}
  BY DEF PredecessorWindows, FilesOf
<1>5. PredecessorWindows(one, w) = PredecessorWindows(two, w)
  BY <1>3, <1>4
<1> QED
  BY <1>2, <1>3, <1>5

\* ... the same lines borrowed ...
LEMMA SameBorrowing ==
  ASSUME NEW one, NEW two, NEW w, Read(w, one) = Read(w, two), NEW c, NEW needed
  PROVE  /\ BorrowOrderLines(c, one, w, needed) = BorrowOrderLines(c, two, w, needed)
         /\ BorrowRefused(c, one, w, needed) <=> BorrowRefused(c, two, w, needed)
<1> DEFINE windows == PredecessorWindows(one, w)
<1>1. /\ windows = PredecessorWindows(two, w)
      /\ \A v \in windows : FilesOf(one, v, "orders") = FilesOf(two, v, "orders")
  BY SameFiles DEF PredecessorWindows
<1>2. \A v \in windows : PredecessorLines(c, one, v, needed) = PredecessorLines(c, two, v, needed)
  BY <1>1 DEF PredecessorLines
<1>3. ASSUME NEW v PROVE Remaining(c, one, w, v, needed) = Remaining(c, two, w, v, needed)
  <2> DEFINE nearer == {u \in windows : Earlier(v, u)}
  <2>1. {Pairs(PredecessorLines(c, one, u, needed)) : u \in nearer}
          = {Pairs(PredecessorLines(c, two, u, needed)) : u \in nearer}
    BY <1>2
  <2>2. Remaining(c, one, w, v, needed)
          = needed \ UNION {Pairs(PredecessorLines(c, one, u, needed)) : u \in nearer}
    BY DEF Remaining
  <2>3. Remaining(c, two, w, v, needed)
          = needed \ UNION {Pairs(PredecessorLines(c, two, u, needed)) : u \in nearer}
    BY <1>1 DEF Remaining
  <2> QED
    BY <2>1, <2>2, <2>3
<1> HIDE DEF windows
<1>4. \A v \in windows : SuppliedBy(c, one, w, v, needed) = SuppliedBy(c, two, w, v, needed)
  BY <1>2, <1>3 DEF SuppliedBy
<1>5. BorrowOrderLines(c, one, w, needed) = BorrowOrderLines(c, two, w, needed)
  BY <1>1, <1>4 DEF BorrowOrderLines, windows
<1>6. BorrowRefused(c, one, w, needed) <=> BorrowRefused(c, two, w, needed)
  BY <1>1, <1>3 DEF BorrowRefused, windows
<1> QED
  BY <1>5, <1>6

\* ... the same settlement ...
LEMMA SameSettlement ==
  ASSUME NEW one, NEW two, NEW w, Read(w, one) = Read(w, two), NEW dep, NEW stores
  PROVE  /\ Refused(dep, one, w, stores) <=> Refused(dep, two, w, stores)
         /\ Settle(dep, one, w, stores) = Settle(dep, two, w, stores)
<1> DEFINE c == PartialRoster(dep.contract, stores)
           relaxed == Relaxed(dep.contract, stores)
<1>1. \A kind : FilesOf(one, w, kind) = FilesOf(two, w, kind)
  BY SameFiles
<1>2. ReadIncome(c, one, w) = ReadIncome(c, two, w)
  BY <1>1 DEF ReadIncome
<1>3. LedgerFiles(one, w) = LedgerFiles(two, w)
  BY <1>1 DEF LedgerFiles
<1> HIDE DEF c, relaxed
<1>4. \A orders, settled, column :
        /\ Resolve(c, one, w, orders, settled, column) = Resolve(c, two, w, orders, settled, column)
        /\ ResolveRefused(c, one, w, orders, settled) <=> ResolveRefused(c, two, w, orders, settled)
  BY SameBorrowing DEF Resolve, ResolveRefused
<1>5. \A settled, column :
        ResolveOrders(c, one, w, settled, column) = ResolveOrders(c, two, w, settled, column)
  BY <1>1, <1>4 DEF ResolveOrders
<1>6. OrdersRefused(dep.platform, c, one, w) <=> OrdersRefused(dep.platform, c, two, w)
  BY <1>1, <1>2, <1>4 DEF OrdersRefused
<1>7. LedgerRunRefused(c, FeeMasters(dep), one, w) <=> LedgerRunRefused(c, FeeMasters(dep), two, w)
  BY <1>3 DEF LedgerRunRefused
<1>8. SettleTikTok(c, Masters(dep), one, w, relaxed) = SettleTikTok(c, Masters(dep), two, w, relaxed)
  BY <1>2, <1>5 DEF SettleTikTok
<1>9. SettleShopee(c, Masters(dep), one, w, relaxed) = SettleShopee(c, Masters(dep), two, w, relaxed)
  BY <1>1, <1>2, <1>5 DEF SettleShopee
<1>10. SettleLedger(c, FeeMasters(dep), one, w, relaxed)
         = SettleLedger(c, FeeMasters(dep), two, w, relaxed)
  BY <1>3 DEF SettleLedger
<1>11. Refused(dep, one, w, stores) <=> Refused(dep, two, w, stores)
  BY <1>6, <1>7 DEF Refused, c
<1>12. Settle(dep, one, w, stores) = Settle(dep, two, w, stores)
  BY <1>8, <1>9, <1>10 DEF Settle, c, relaxed
<1> QED
  BY <1>11, <1>12

\* ... and the same result.
LEMMA SameResult ==
  ASSUME NEW one, NEW two, NEW w, Read(w, one) = Read(w, two), NEW dep, NEW stores, NEW team
  PROVE  LET before == RunResult(dep, one, w, stores, team)
             after  == RunResult(dep, two, w, stores, team)
         IN  /\ after.status = before.status
             /\ before.status # "hard_stop" =>
                  after.book = before.book /\ after.exceptions = before.exceptions
<1> DEFINE before == RunResult(dep, one, w, stores, team)
           after == RunResult(dep, two, w, stores, team)
<1>1. /\ Refused(dep, one, w, stores) <=> Refused(dep, two, w, stores)
      /\ Settle(dep, one, w, stores) = Settle(dep, two, w, stores)
  BY SameSettlement
<1>2. CASE Refused(dep, one, w, stores)
  BY <1>1, <1>2 DEF RunResult
<1>3. CASE ~Refused(dep, one, w, stores)
  <2>1. before.status # "hard_stop" /\ after.status # "hard_stop"
    BY <1>1, <1>3 DEF RunResult, Concluded, Status
  <2> QED
    BY <1>1, <2>1, ResultProduced
<1> QED
  BY <1>2, <1>3

\* Two runs of a window that read the same exports under the same declaration and
\* totals have the same verdict, workbook and exceptions, whatever else arrived in
\* between.  (pipeline.py: run; backfill.py: predecessor_windows.)
THEOREM SameInputSameResult == Spec => ReRunsReproduce
<1>1. RunsAreResults /\ [Next]_vars => [\A w \in setup.windows : Reproduced(w)]_vars
  <2> SUFFICES ASSUME RunsAreResults, Next, NEW w \in setup.windows PROVE Reproduced(w)
    OBVIOUS
  <2>1. ASSUME outcome'[w] = outcome[w] PROVE Reproduced(w)
    BY <2>1 DEF Reproduced
  <2>2. ASSUME NEW v \in setup.windows, NEW job, RunWindow(v, job) PROVE Reproduced(w)
    <3> DEFINE stores == RosterDeclaration(declared[v], job)
               team == Merge(refs[v], job.refs)
               after == RunResult(setup, tree, v, stores, team)
               asked == outcome[w].asked
    <3>1. outcome' = [outcome EXCEPT ![v] = after]
      BY <2>2 DEF RunWindow
    <3>2. after.asked = [input |-> tree, stores |-> stores, team |-> team]
      BY ResultAsked
    <3> HIDE DEF stores, team
    <3>3. CASE v # w
      <4> HIDE DEF after
      <4> QED BY <2>1, <3>1, <3>3
    <3>4. CASE v = w
      <4>1. outcome'[w] = after
        <5> HIDE DEF after
        <5> QED BY <3>1, <3>4 DEF RunsAreResults
      <4>2. outcome[w].status # "none" =>
              outcome[w] = RunResult(setup, asked.input, w, asked.stores, asked.team)
        BY DEF RunsAreResults, NoRun
      <4>3. ASSUME outcome[w].status # "none", Read(w, tree) = Read(w, asked.input),
                   stores = asked.stores, team = asked.team
            PROVE  /\ after.status = outcome[w].status
                   /\ Produced(w) => /\ after.book = outcome[w].book
                                     /\ after.exceptions = outcome[w].exceptions
        <5>1. Produced(w) => outcome[w].status # "hard_stop"
          BY DEF Produced
        <5>2. Read(w, asked.input) = Read(w, tree)
          BY <4>3
        <5> HIDE DEF asked
        <5> QED
          BY <3>4, <4>2, <4>3, <5>1, <5>2, SameResult
      <4> HIDE DEF after
      <4> QED
        BY <3>2, <4>1, <4>3 DEF Reproduced
    <3> QED
      BY <3>3, <3>4
  <2>3. ASSUME UNCHANGED outcome PROVE Reproduced(w)
    BY <2>1, <2>3
  <2>4. ASSUME NEW f, Stage(f) PROVE Reproduced(w)
    BY <2>3, <2>4 DEF Stage
  <2>5. ASSUME NEW v, NEW stores, Declare(v, stores) PROVE Reproduced(w)
    BY <2>3, <2>5 DEF Declare
  <2>6. ASSUME NEW v, NEW supplied, Supply(v, supplied) PROVE Reproduced(w)
    BY <2>3, <2>6 DEF Supply
  <2>7. ASSUME NEW fingerprint, NEW disposition, Mark(fingerprint, disposition) PROVE Reproduced(w)
    BY <2>3, <2>7 DEF Mark
  <2>8. ASSUME NEW clerk, NEW fingerprint, BeginClear(clerk, fingerprint) PROVE Reproduced(w)
    BY <2>3, <2>8 DEF BeginClear
  <2>9. ASSUME NEW clear, EndClear(clear) PROVE Reproduced(w)
    BY <2>3, <2>9 DEF EndClear
  <2>10. ASSUME NEW f, BackfillIndex(f) PROVE Reproduced(w)
    BY <2>3, <2>10 DEF BackfillIndex
  <2> QED
    BY <2>2, <2>4, <2>5, <2>6, <2>7, <2>8, <2>9, <2>10 DEF Next
<1>2. QED
  BY <1>1, OutcomesAreResults, PTL DEF Spec, ReRunsReproduce

-----------------------------------------------------------------------------
\* A collection of sets that has the empty one and, with a set, every set of
\* one more element of S has S, if S is finite.
LEMMA SetInductive ==
  ASSUME NEW S, IsFiniteSet(S), NEW P, {} \in P,
         \A T \in SUBSET S : \A x \in S \ T : T \in P => T \cup {x} \in P
  PROVE  S \in P
<1> DEFINE A == {n \in Nat : \A T \in SUBSET S : Cardinality(T) = n => T \in P}
<1>1. \A T \in SUBSET S : IsFiniteSet(T) /\ Cardinality(T) \in Nat
  BY FS_Subset, FS_CardinalityType
<1>2. 0 \in A
  BY <1>1, FS_EmptySet
<1>3. \A n \in Nat : n \in A => n + 1 \in A
  <2> SUFFICES ASSUME NEW n \in Nat, n \in A, NEW T \in SUBSET S, Cardinality(T) = n + 1
              PROVE  T \in P
    OBVIOUS
  <2>1. PICK x \in T : TRUE
    BY <1>1, FS_EmptySet
  <2>2. Cardinality(T \ {x}) = n
    BY <1>1, FS_RemoveElement
  <2>3. T \ {x} \in P
    BY <2>2
  <2>4. (T \ {x}) \cup {x} \in P
    BY <2>3
  <2>5. (T \ {x}) \cup {x} = T
    OBVIOUS
  <2> QED
    BY <2>4, <2>5
<1>4. Nat \subseteq A
  <2> HIDE DEF A
  <2> QED BY <1>2, <1>3, NatInductive
<1> QED
  BY <1>1, <1>4

-----------------------------------------------------------------------------
(* Sums over a finite set. *)

\* The element a fold takes next.
Picked(S) == CHOOSE x \in S : TRUE

\* g adds f up over every subset of S.
Adds(f, S, g) ==
  g = [s \in SUBSET S |-> IF s = {} THEN 0 ELSE f[Picked(s)] + g[s \ {Picked(s)}]]

\* What f comes to over S.
Total(f, S) == MapThenSumSet(LAMBDA x : f[x], S)

\* Over the subsets of a finite set f can be added up.
LEMMA AdderExists ==
  ASSUME NEW f, NEW S, IsFiniteSet(S)
  PROVE  \E g : Adds(f, S, g)
<1> DEFINE Layer(n) == {s \in SUBSET S : Cardinality(s) <= n}
           A == {n \in Nat : \E g : g = [s \in Layer(n) |->
                   IF s = {} THEN 0 ELSE f[Picked(s)] + g[s \ {Picked(s)}]]}
<1>1. \A T \in SUBSET S : IsFiniteSet(T) /\ Cardinality(T) \in Nat
  BY FS_Subset, FS_CardinalityType
<1>2. \A s \in SUBSET S : s # {} => /\ Picked(s) \in s
                                    /\ s \ {Picked(s)} \in SUBSET S
                                    /\ Cardinality(s \ {Picked(s)}) = Cardinality(s) - 1
  BY <1>1, FS_RemoveElement DEF Picked
<1>3. 0 \in A
  <2>1. Layer(0) = {{}}
    BY <1>1, FS_EmptySet
  <2> DEFINE g == [s \in Layer(0) |-> 0]
  <2>2. g = [s \in Layer(0) |-> IF s = {} THEN 0 ELSE f[Picked(s)] + g[s \ {Picked(s)}]]
    BY <2>1
  <2> QED
    BY <2>2
<1>4. \A n \in Nat : n \in A => n + 1 \in A
  <2> SUFFICES ASSUME NEW n \in Nat, NEW g,
                      g = [s \in Layer(n) |->
                             IF s = {} THEN 0 ELSE f[Picked(s)] + g[s \ {Picked(s)}]]
              PROVE  n + 1 \in A
    OBVIOUS
  <2> DEFINE h == [s \in Layer(n + 1) |->
                     IF s = {} THEN 0 ELSE f[Picked(s)] + g[s \ {Picked(s)}]]
  <2>1. \A s \in Layer(n) : s \in Layer(n + 1) /\ h[s] = g[s]
    <3>1. \A s \in Layer(n) : s \in Layer(n + 1)
      BY <1>1
    <3> HIDE DEF Layer
    <3> QED BY <3>1
  <2>2. \A s \in Layer(n + 1) : s # {} => s \ {Picked(s)} \in Layer(n)
    BY <1>1, <1>2
  <2>3. h = [s \in Layer(n + 1) |->
               IF s = {} THEN 0 ELSE f[Picked(s)] + h[s \ {Picked(s)}]]
    <3> HIDE DEF Layer
    <3> QED BY <2>1, <2>2
  <2> HIDE DEF h, Layer
  <2> QED
    BY <2>3
<1>5. Cardinality(S) \in A
  <2> HIDE DEF A
  <2> QED BY <1>1, <1>3, <1>4, NatInductive
<1>6. Layer(Cardinality(S)) = SUBSET S
  <2> SUFFICES ASSUME NEW s \in SUBSET S PROVE Cardinality(s) <= Cardinality(S)
    OBVIOUS
  <2> QED BY FS_Subset
<1>7. QED
  <2> PICK g : g = [s \in Layer(Cardinality(S)) |->
                      IF s = {} THEN 0 ELSE f[Picked(s)] + g[s \ {Picked(s)}]]
    BY <1>5
  <2> HIDE DEF Layer
  <2> QED BY <1>6 DEF Adds

\* Two that add up f agree on the sets both know.
LEMMA AddersAgree ==
  ASSUME NEW f, NEW S, NEW T, T \subseteq S, IsFiniteSet(S), NEW g, NEW h,
         Adds(f, S, g), Adds(f, T, h)
  PROVE  g[T] = h[T]
<1> DEFINE A == {n \in Nat : \A s \in SUBSET T : Cardinality(s) <= n => g[s] = h[s]}
<1>1. \A s \in SUBSET T : IsFiniteSet(s) /\ Cardinality(s) \in Nat
  BY FS_Subset, FS_CardinalityType
<1>2. \A s \in SUBSET T : s # {} => /\ Picked(s) \in s
                                    /\ s \ {Picked(s)} \in SUBSET T
                                    /\ Cardinality(s \ {Picked(s)}) = Cardinality(s) - 1
  BY <1>1, FS_RemoveElement DEF Picked
<1>3. \A s \in SUBSET T :
        /\ g[s] = IF s = {} THEN 0 ELSE f[Picked(s)] + g[s \ {Picked(s)}]
        /\ h[s] = IF s = {} THEN 0 ELSE f[Picked(s)] + h[s \ {Picked(s)}]
  BY DEF Adds
<1>4. 0 \in A
  <2>1. \A s \in SUBSET T : Cardinality(s) <= 0 => s = {}
    BY <1>1, FS_EmptySet
  <2> QED BY <2>1, <1>3
<1>5. \A n \in Nat : n \in A => n + 1 \in A
  <2> SUFFICES ASSUME NEW n \in Nat, n \in A, NEW s \in SUBSET T, Cardinality(s) <= n + 1
              PROVE  g[s] = h[s]
    OBVIOUS
  <2>1. CASE s = {}
    BY <2>1, <1>3
  <2>2. CASE s # {}
    <3>1. Cardinality(s \ {Picked(s)}) <= n
      BY <2>2, <1>1, <1>2
    <3>2. g[s \ {Picked(s)}] = h[s \ {Picked(s)}]
      BY <2>2, <1>2, <3>1
    <3> QED BY <2>2, <3>2, <1>3
  <2> QED BY <2>1, <2>2
<1>6. Cardinality(T) \in A
  <2> HIDE DEF A
  <2> QED BY <1>1, <1>4, <1>5, NatInductive
<1> QED
  BY <1>6, <1>1

\* What adds f up has its total.
LEMMA TotalIs ==
  ASSUME NEW f, NEW S, IsFiniteSet(S), NEW g, Adds(f, S, g)
  PROVE  Total(f, S) = g[S]
<1>1. \E h : Adds(f, S, h) /\ Total(f, S) = h[S]
  BY DEF Adds, Total, MapThenSumSet, MapThenFoldSet, Picked
<1> QED
  BY <1>1, AddersAgree

\* A total takes an element and goes on with the others.
LEMMA TotalStep ==
  ASSUME NEW f, NEW S, IsFiniteSet(S)
  PROVE  Total(f, S) = IF S = {} THEN 0 ELSE f[Picked(S)] + Total(f, S \ {Picked(S)})
<1>1. PICK g : Adds(f, S, g)
  BY AdderExists
<1>2. Total(f, S) = g[S]
  BY <1>1, TotalIs
<1>3. g[S] = IF S = {} THEN 0 ELSE f[Picked(S)] + g[S \ {Picked(S)}]
  BY <1>1 DEF Adds
<1>4. ASSUME NEW T, T = S \ {Picked(S)} PROVE Total(f, T) = g[T]
  <2>1. IsFiniteSet(T)
    BY <1>4, FS_Subset
  <2>2. PICK h : Adds(f, T, h)
    BY <2>1, AdderExists
  <2>3. g[T] = h[T]
    BY <1>1, <1>4, <2>2, AddersAgree
  <2>4. Total(f, T) = h[T]
    BY <2>1, <2>2, TotalIs
  <2> QED
    BY <2>3, <2>4
<1> QED
  BY <1>2, <1>3, <1>4

\* Nothing comes to 0.
LEMMA TotalEmpty ==
  ASSUME NEW f
  PROVE  Total(f, {}) = 0
BY TotalStep, FS_EmptySet

\* Numbers come to a number.
LEMMA TotalInt ==
  ASSUME NEW f, NEW S, IsFiniteSet(S), \A x \in S : f[x] \in Int
  PROVE  Total(f, S) \in Int
<1> DEFINE A == {n \in Nat : \A T \in SUBSET S : Cardinality(T) = n => Total(f, T) \in Int}
<1>1. \A T \in SUBSET S : IsFiniteSet(T) /\ Cardinality(T) \in Nat
  BY FS_Subset, FS_CardinalityType
<1>2. \A T \in SUBSET S : T # {} =>
         /\ Picked(T) \in T
         /\ T \ {Picked(T)} \in SUBSET S
         /\ Cardinality(T \ {Picked(T)}) = Cardinality(T) - 1
         /\ Total(f, T) = f[Picked(T)] + Total(f, T \ {Picked(T)})
  BY <1>1, FS_RemoveElement, TotalStep DEF Picked
<1>3. 0 \in A
  BY <1>1, FS_EmptySet, TotalEmpty
<1>4. \A n \in Nat : n \in A => n + 1 \in A
  <2> SUFFICES ASSUME NEW n \in Nat, n \in A, NEW T \in SUBSET S, Cardinality(T) = n + 1
              PROVE  Total(f, T) \in Int
    OBVIOUS
  <2>1. T # {}
    BY <1>1, FS_EmptySet
  <2>2. Total(f, T \ {Picked(T)}) \in Int
    BY <2>1, <1>2
  <2> QED BY <2>1, <2>2, <1>2
<1>5. Cardinality(S) \in A
  <2> HIDE DEF A
  <2> QED BY <1>1, <1>3, <1>4, NatInductive
<1> QED
  BY <1>5, <1>1

\* It does not matter which element is taken first.
LEMMA TotalRemove ==
  ASSUME NEW f, NEW S, IsFiniteSet(S), \A x \in S : f[x] \in Int, NEW x \in S
  PROVE  Total(f, S) = f[x] + Total(f, S \ {x})
<1> DEFINE A == {n \in Nat : \A T \in SUBSET S : Cardinality(T) = n =>
                   \A y \in T : Total(f, T) = f[y] + Total(f, T \ {y})}
<1>1. \A T \in SUBSET S : IsFiniteSet(T) /\ Cardinality(T) \in Nat /\ Total(f, T) \in Int
  BY FS_Subset, FS_CardinalityType, TotalInt
<1>2. 0 \in A
  BY <1>1, FS_EmptySet
<1>3. \A n \in Nat : n \in A => n + 1 \in A
  <2> SUFFICES ASSUME NEW n \in Nat, n \in A, NEW T \in SUBSET S, Cardinality(T) = n + 1,
                      NEW y \in T
              PROVE  Total(f, T) = f[y] + Total(f, T \ {y})
    OBVIOUS
  <2> DEFINE z == Picked(T)
  <2>1. z \in T /\ Total(f, T) = f[z] + Total(f, T \ {z})
    BY <1>1, TotalStep DEF Picked
  <2>2. CASE y = z
    BY <2>1, <2>2
  <2>3. CASE y # z
    <3>1. /\ T \ {z} \in SUBSET S /\ T \ {y} \in SUBSET S
          /\ Cardinality(T \ {z}) = n /\ Cardinality(T \ {y}) = n
      <4>1. z \in T /\ IsFiniteSet(T)
        BY <2>1, <1>1
      <4> HIDE DEF z
      <4>2. \A t \in T : Cardinality(T \ {t}) = Cardinality(T) - 1
        BY <4>1, FS_RemoveElement
      <4> QED BY <4>1, <4>2
    <3>2. Total(f, T \ {z}) = f[y] + Total(f, (T \ {z}) \ {y})
      <4> HIDE DEF z
      <4> QED BY <3>1, <2>1, <2>3
    <3>3. Total(f, T \ {y}) = f[z] + Total(f, (T \ {y}) \ {z})
      <4> HIDE DEF z
      <4> QED BY <3>1, <2>1, <2>3
    <3>4. (T \ {y}) \ {z} = (T \ {z}) \ {y}
      OBVIOUS
    <3>5. f[y] \in Int /\ f[z] \in Int /\ Total(f, (T \ {z}) \ {y}) \in Int
      BY <2>1, <1>1
    <3> HIDE DEF z
    <3>6. Total(f, T \ {y}) = f[z] + Total(f, (T \ {z}) \ {y})
      BY <3>3, <3>4
    <3>7. Total(f, T) = f[z] + (f[y] + Total(f, (T \ {z}) \ {y}))
      BY <2>1, <3>2
    <3> QED BY <3>5, <3>6, <3>7
  <2> HIDE DEF z
  <2> QED BY <2>2, <2>3
<1>4. Cardinality(S) \in A
  <2> HIDE DEF A
  <2> QED BY <1>1, <1>2, <1>3, NatInductive
<1> QED
  BY <1>4, <1>1

\* One more element.
LEMMA TotalAdd ==
  ASSUME NEW f, NEW S, IsFiniteSet(S), \A y \in S : f[y] \in Int,
         NEW x, x \notin S, f[x] \in Int
  PROVE  Total(f, S \cup {x}) = f[x] + Total(f, S)
<1>1. IsFiniteSet(S \cup {x}) /\ (S \cup {x}) \ {x} = S
  BY FS_AddElement
<1> QED
  BY <1>1, TotalRemove

\* Functions that agree on a set have one total over it.
LEMMA TotalSame ==
  ASSUME NEW f, NEW g, NEW S, IsFiniteSet(S), \A x \in S : f[x] \in Int /\ f[x] = g[x]
  PROVE  Total(f, S) = Total(g, S)
<1> DEFINE P == {T \in SUBSET S : Total(f, T) = Total(g, T)}
<1>1. {} \in P
  BY TotalEmpty
<1>2. \A T \in SUBSET S : \A x \in S \ T : T \in P => T \cup {x} \in P
  <2> SUFFICES ASSUME NEW T \in SUBSET S, NEW x \in S \ T, T \in P PROVE T \cup {x} \in P
    OBVIOUS
  <2>1. IsFiniteSet(T)
    BY FS_Subset
  <2>2. Total(f, T \cup {x}) = f[x] + Total(f, T)
    BY <2>1, TotalAdd
  <2>3. Total(g, T \cup {x}) = g[x] + Total(g, T)
    BY <2>1, TotalAdd
  <2> QED BY <2>2, <2>3
<1> HIDE DEF P
<1>3. S \in P
  BY <1>1, <1>2, SetInductive
<1> QED
  BY <1>3 DEF P

\* Over two sets that have nothing in common.
LEMMA TotalUnion ==
  ASSUME NEW f, NEW S, NEW R, IsFiniteSet(S), IsFiniteSet(R), S \cap R = {},
         \A x \in S \cup R : f[x] \in Int
  PROVE  Total(f, S \cup R) = Total(f, S) + Total(f, R)
<1> DEFINE P == {T \in SUBSET S : Total(f, T \cup R) = Total(f, T) + Total(f, R)}
<1>0. Total(f, R) \in Int
  BY TotalInt
<1>1. {} \in P
  BY <1>0, TotalEmpty
<1>2. \A T \in SUBSET S : \A x \in S \ T : T \in P => T \cup {x} \in P
  <2> SUFFICES ASSUME NEW T \in SUBSET S, NEW x \in S \ T, T \in P PROVE T \cup {x} \in P
    OBVIOUS
  <2>1. IsFiniteSet(T) /\ IsFiniteSet(T \cup R) /\ Total(f, T) \in Int
    BY FS_Subset, FS_Union, TotalInt
  <2>2. Total(f, T \cup {x}) = f[x] + Total(f, T)
    BY <2>1, TotalAdd
  <2>3. Total(f, (T \cup R) \cup {x}) = f[x] + Total(f, T \cup R)
    BY <2>1, TotalAdd
  <2>4. (T \cup R) \cup {x} = (T \cup {x}) \cup R
    OBVIOUS
  <2>5. Total(f, (T \cup {x}) \cup R) = f[x] + (Total(f, T) + Total(f, R))
    BY <2>3, <2>4
  <2> QED BY <2>1, <2>2, <2>5, <1>0
<1> HIDE DEF P
<1>3. S \in P
  BY <1>1, <1>2, SetInductive
<1> QED
  BY <1>3 DEF P

\* Counting the same things under other names.
LEMMA TotalRenamed ==
  ASSUME NEW f, NEW g, NEW h, NEW S, IsFiniteSet(S),
         \A x \in S : f[x] \in Int /\ f[x] = g[h[x]],
         \A x, y \in S : h[x] = h[y] => x = y
  PROVE  Total(g, {h[x] : x \in S}) = Total(f, S)
<1> DEFINE Named(T) == {h[x] : x \in T}
           P == {T \in SUBSET S : IsFiniteSet(Named(T)) /\ Total(g, Named(T)) = Total(f, T)}
<1>1. {} \in P
  <2>1. Named({}) = {}
    OBVIOUS
  <2> QED BY <2>1, TotalEmpty, FS_EmptySet
<1>2. \A T \in SUBSET S : \A x \in S \ T : T \in P => T \cup {x} \in P
  <2> SUFFICES ASSUME NEW T \in SUBSET S, NEW x \in S \ T, T \in P PROVE T \cup {x} \in P
    OBVIOUS
  <2>1. IsFiniteSet(T)
    BY FS_Subset
  <2>2. Total(f, T \cup {x}) = f[x] + Total(f, T)
    BY <2>1, TotalAdd
  <2>3. Named(T \cup {x}) = Named(T) \cup {h[x]} /\ h[x] \notin Named(T)
    OBVIOUS
  <2>4. \A y \in Named(T) : g[y] \in Int
    OBVIOUS
  <2>5. IsFiniteSet(Named(T)) /\ Total(g, Named(T)) = Total(f, T)
    OBVIOUS
  <2> HIDE DEF Named
  <2>6. Total(g, Named(T) \cup {h[x]}) = g[h[x]] + Total(g, Named(T))
    BY <2>3, <2>4, <2>5, TotalAdd
  <2>7. IsFiniteSet(Named(T) \cup {h[x]})
    BY <2>5, FS_AddElement
  <2> QED BY <2>2, <2>3, <2>5, <2>6, <2>7
<1>3. S \in P
  <2> HIDE DEF P
  <2> QED BY <1>1, <1>2, SetInductive
<1> QED
  BY <1>3

\* Zeros come to 0.
LEMMA TotalZero ==
  ASSUME NEW f, NEW S, IsFiniteSet(S), \A x \in S : f[x] = 0
  PROVE  Total(f, S) = 0
<1> DEFINE P == {T \in SUBSET S : Total(f, T) = 0}
<1>1. {} \in P
  BY TotalEmpty
<1>2. \A T \in SUBSET S : \A x \in S \ T : T \in P => T \cup {x} \in P
  <2> SUFFICES ASSUME NEW T \in SUBSET S, NEW x \in S \ T, T \in P PROVE T \cup {x} \in P
    OBVIOUS
  <2>1. IsFiniteSet(T)
    BY FS_Subset
  <2>2. Total(f, T \cup {x}) = f[x] + Total(f, T)
    BY <2>1, TotalAdd
  <2> QED BY <2>2
<1> HIDE DEF P
<1>3. S \in P
  BY <1>1, <1>2, SetInductive
<1> QED
  BY <1>3 DEF P

\* A sum is the sum, over the values of a key, of the sums of their elements.
LEMMA TotalByKey ==
  ASSUME NEW f, NEW S, IsFiniteSet(S), \A x \in S : f[x] \in Int,
         NEW key, NEW K, IsFiniteSet(K), \A x \in S : key[x] \in K
  PROVE  Total(f, S) = Total([k \in K |-> Total(f, {x \in S : key[x] = k})], K)
<1> DEFINE Part(T, k) == {x \in T : key[x] = k}
           Parts(T) == [k \in K |-> Total(f, Part(T, k))]
           P == {T \in SUBSET S : Total(f, T) = Total(Parts(T), K)}
<1>1. {} \in P
  <2>1. \A k \in K : Parts({})[k] = 0
    <3> SUFFICES ASSUME NEW k \in K PROVE Total(f, Part({}, k)) = 0
      OBVIOUS
    <3>1. Part({}, k) = {}
      OBVIOUS
    <3> QED BY <3>1, TotalEmpty
  <2> HIDE DEF Parts
  <2>2. Total(Parts({}), K) = 0
    BY <2>1, TotalZero
  <2> QED BY <2>2, TotalEmpty
<1>2. \A T \in SUBSET S : \A x \in S \ T : T \in P => T \cup {x} \in P
  <2> SUFFICES ASSUME NEW T \in SUBSET S, NEW x \in S \ T, T \in P PROVE T \cup {x} \in P
    OBVIOUS
  <2> DEFINE U == T \cup {x}
             k == key[x]
             F == Parts(T)
             G == Parts(U)
  <2>1. IsFiniteSet(T) /\ IsFiniteSet(U) /\ k \in K
    BY FS_Subset
  <2>2. \A j \in K : /\ IsFiniteSet(Part(T, j)) /\ IsFiniteSet(Part(U, j))
                     /\ \A y \in Part(U, j) : f[y] \in Int
                     /\ \A y \in Part(T, j) : f[y] \in Int
    <3> SUFFICES ASSUME NEW j \in K PROVE IsFiniteSet(Part(T, j)) /\ IsFiniteSet(Part(U, j))
      OBVIOUS
    <3> QED BY <2>1, FS_Subset
  <2>3. \A j \in K : F[j] \in Int /\ G[j] \in Int
    <3> SUFFICES ASSUME NEW j \in K
                 PROVE  Total(f, Part(T, j)) \in Int /\ Total(f, Part(U, j)) \in Int
      OBVIOUS
    <3> HIDE DEF Part
    <3> QED BY <2>2, TotalInt
  <2>4. G[k] = f[x] + F[k]
    <3>1. Part(U, k) = Part(T, k) \cup {x} /\ x \notin Part(T, k)
      OBVIOUS
    <3> HIDE DEF Part
    <3>2. Total(f, Part(U, k)) = f[x] + Total(f, Part(T, k))
      BY <2>1, <2>2, <3>1, TotalAdd
    <3> QED BY <3>2, <2>1
  <2>5. \A j \in K \ {k} : G[j] = F[j]
    <3> SUFFICES ASSUME NEW j \in K \ {k} PROVE Total(f, Part(U, j)) = Total(f, Part(T, j))
      OBVIOUS
    <3>1. Part(U, j) = Part(T, j)
      OBVIOUS
    <3> QED BY <3>1
  <2>6. Total(f, U) = f[x] + Total(f, T) /\ f[x] \in Int /\ Total(f, T) = Total(F, K)
    BY <2>1, TotalAdd
  <2> HIDE DEF U, k, F, G, Parts, Part
  <2>7. Total(F, K) = F[k] + Total(F, K \ {k}) /\ Total(G, K) = G[k] + Total(G, K \ {k})
    BY <2>1, <2>3, TotalRemove
  <2>8. IsFiniteSet(K \ {k})
    BY FS_Subset
  <2>9. Total(F, K \ {k}) = Total(G, K \ {k}) /\ Total(F, K \ {k}) \in Int
    BY <2>3, <2>5, <2>8, TotalSame, TotalInt
  <2>10. F[k] \in Int
    BY <2>1, <2>3
  <2>11. Total(f, U) = Total(G, K)
    BY <2>4, <2>6, <2>7, <2>9, <2>10
  <2> QED BY <2>11 DEF U, G
<1> HIDE DEF P
<1>3. S \in P
  BY <1>1, <1>2, SetInductive
<1> QED
  BY <1>3 DEF P

-----------------------------------------------------------------------------
(* Sums of a column. *)

\* The column of the rows, as a function of the row.
ColumnOf(rows, column) == [row \in rows |-> row[column]]

\* The rows have a number in the column.
Numbers(rows, column) == \A row \in rows : row[column] \in Int

\* SumOf is a total, of the column over the rows or over some of them.
LEMMA SumOfIs ==
  ASSUME NEW rows, IsFiniteSet(rows), NEW column
  PROVE  SumOf(rows, column) = Total(ColumnOf(rows, column), rows)
<1> DEFINE f == ColumnOf(rows, column)
<1>1. PICK g : Adds(f, rows, g)
  BY AdderExists
<1>2. \A s \in SUBSET rows : s # {} => f[Picked(s)] = Picked(s)[column]
  BY DEF Picked, ColumnOf
<1>3. \E h : /\ h = [s \in SUBSET rows |->
                       IF s = {} THEN 0 ELSE Picked(s)[column] + h[s \ {Picked(s)}]]
             /\ SumOf(rows, column) = h[rows]
  <2>1. g = [s \in SUBSET rows |->
               IF s = {} THEN 0 ELSE Picked(s)[column] + g[s \ {Picked(s)}]]
    <3> HIDE DEF f
    <3> QED BY <1>1, <1>2 DEF Adds
  <2> QED
    BY <2>1 DEF SumOf, MapThenSumSet, MapThenFoldSet, Picked
<1>4. PICK h : /\ h = [s \in SUBSET rows |->
                         IF s = {} THEN 0 ELSE Picked(s)[column] + h[s \ {Picked(s)}]]
               /\ SumOf(rows, column) = h[rows]
  BY <1>3
<1> HIDE DEF f
<1>5. Adds(f, rows, h)
  BY <1>2, <1>4 DEF Adds
<1> QED
  BY <1>4, <1>5, TotalIs DEF f

\* What some of the rows come to, by the column's values in all of them.
LEMMA SumOfSome ==
  ASSUME NEW rows, IsFiniteSet(rows), NEW column, Numbers(rows, column), NEW some \in SUBSET rows
  PROVE  /\ SumOf(some, column) = Total(ColumnOf(rows, column), some)
         /\ SumOf(some, column) \in Int
<1>1. IsFiniteSet(some)
  BY FS_Subset
<1>2. \A row \in some : /\ ColumnOf(some, column)[row] \in Int
                        /\ ColumnOf(some, column)[row] = ColumnOf(rows, column)[row]
  BY DEF ColumnOf, Numbers
<1>3. SumOf(some, column) = Total(ColumnOf(some, column), some)
  BY <1>1, SumOfIs
<1> QED
  BY <1>1, <1>2, <1>3, TotalSame, TotalInt

\* Two disjoint sets of rows.
LEMMA SumOfBoth ==
  ASSUME NEW rows, IsFiniteSet(rows), NEW column, Numbers(rows, column),
         NEW some \in SUBSET rows
  PROVE  SumOf(rows, column) = SumOf(some, column) + SumOf(rows \ some, column)
<1> DEFINE f == ColumnOf(rows, column)
           rest == rows \ some
<1>1. IsFiniteSet(some) /\ IsFiniteSet(rest) /\ some \cap rest = {} /\ some \cup rest = rows
  BY FS_Subset
<1>2. \A row \in some \cup rest : f[row] \in Int
  BY DEF ColumnOf, Numbers
<1>3. Total(f, some \cup rest) = Total(f, some) + Total(f, rest)
  <2> HIDE DEF f, rest
  <2> QED BY <1>1, <1>2, TotalUnion
<1>4. /\ SumOf(some, column) = Total(f, some) /\ SumOf(rest, column) = Total(f, rest)
      /\ SumOf(rows, column) = Total(f, rows)
  BY SumOfSome
<1> QED
  BY <1>1, <1>3, <1>4

\* The rows with a row's key.
Alike(rows, columns, row) == {x \in rows : Restrict(x, columns) = Restrict(row, columns)}

\* The rows whose key one of the sums has.
Covered(rows, columns, sums) ==
  {row \in rows : \E m \in sums : Restrict(row, columns) = Restrict(m, columns)}

(***************************************************************************)
(* Rows that sum the groups of others come to what the others in these     *)
(* groups do.                                                              *)
(***************************************************************************)
LEMMA SumOfGroups ==
  ASSUME NEW rows, IsFiniteSet(rows), NEW column, Numbers(rows, column), NEW columns,
         NEW sums, IsFiniteSet(sums), NEW summed,
         \A m, n \in sums : Restrict(m, columns) = Restrict(n, columns) => m = n,
         \A m \in sums : m[summed] = SumOf(Alike(rows, columns, m), column)
  PROVE  /\ Numbers(sums, summed)
         /\ SumOf(sums, summed) = SumOf(Covered(rows, columns, sums), column)
<1> DEFINE key == [row \in rows |-> Restrict(row, columns)]
           name == [m \in sums |-> Restrict(m, columns)]
           K == {name[m] : m \in sums}
           mine == {row \in rows : \E m \in sums : Restrict(row, columns) = Restrict(m, columns)}
           f == ColumnOf(rows, column)
           Group(k) == {row \in mine : key[row] = k}
           F == [k \in K |-> Total(f, Group(k))]
<1>1. IsFiniteSet(K) /\ IsFiniteSet(mine) /\ mine \in SUBSET rows
  <2>1. DOMAIN name = sums
    OBVIOUS
  <2>2. mine \in SUBSET rows
    OBVIOUS
  <2> HIDE DEF name, mine
  <2> QED BY <2>1, <2>2, FiniteImage, FS_Subset
<1>2. \A row \in mine : f[row] \in Int /\ key[row] \in K
  <2> SUFFICES ASSUME NEW row \in mine PROVE f[row] \in Int /\ key[row] \in K
    OBVIOUS
  <2>1. f[row] \in Int /\ key[row] = Restrict(row, columns)
    BY DEF ColumnOf, Numbers
  <2>2. PICK m \in sums : Restrict(row, columns) = Restrict(m, columns)
    OBVIOUS
  <2>3. name[m] = Restrict(m, columns)
    OBVIOUS
  <2> QED BY <2>1, <2>2, <2>3
<1>3. Total(f, mine) = Total(F, K)
  <2> HIDE DEF f, key, K, mine
  <2> QED BY <1>1, <1>2, TotalByKey
<1>4. \A m \in sums : /\ Group(name[m]) = {row \in rows : Restrict(row, columns) = Restrict(m, columns)}
                      /\ Group(name[m]) \in SUBSET rows
                      /\ name[m] \in K
  OBVIOUS
<1>5. \A m \in sums : /\ m[summed] = F[name[m]] /\ m[summed] \in Int
  <2> SUFFICES ASSUME NEW m \in sums PROVE m[summed] = F[name[m]] /\ m[summed] \in Int
    OBVIOUS
  <2> DEFINE some == {row \in rows : Restrict(row, columns) = Restrict(m, columns)}
  <2>1. m[summed] = SumOf(some, column)
    BY DEF Alike
  <2>2. some \in SUBSET rows /\ Group(name[m]) = some /\ name[m] \in K
    BY <1>4
  <2>3. F[name[m]] = Total(f, Group(name[m]))
    BY <2>2
  <2> HIDE DEF some, F, f, Group, name, K
  <2>4. SumOf(some, column) = Total(f, some) /\ SumOf(some, column) \in Int
    BY <2>2, SumOfSome DEF f
  <2> QED BY <2>1, <2>2, <2>3, <2>4
<1>6. Numbers(sums, summed)
  BY <1>5 DEF Numbers
<1>7. Total(F, K) = SumOf(sums, summed)
  <2> DEFINE g == ColumnOf(sums, summed)
  <2>1. \A m \in sums : g[m] \in Int /\ g[m] = F[name[m]]
    BY <1>5 DEF ColumnOf
  <2>2. \A m, n \in sums : name[m] = name[n] => m = n
    OBVIOUS
  <2>3. SumOf(sums, summed) = Total(g, sums)
    BY SumOfIs
  <2> HIDE DEF g, F, name
  <2>4. Total(F, {name[m] : m \in sums}) = Total(g, sums)
    BY <2>1, <2>2, TotalRenamed
  <2> QED BY <2>3, <2>4
<1>8. SumOf(mine, column) = Total(f, mine)
  BY <1>1, SumOfSome
<1> HIDE DEF f, mine, F, K
<1>9. SumOf(mine, column) = SumOf(sums, summed)
  BY <1>3, <1>7, <1>8
<1> QED
  BY <1>6, <1>9 DEF mine, Covered

\* A finite set of numbers that is not empty has a largest.
LEMMA MaxIs ==
  ASSUME NEW S, IsFiniteSet(S), S \subseteq Int, S # {}
  PROVE  Max(S) \in S /\ \A x \in S : x <= Max(S)
<1> DEFINE P == {T \in SUBSET S : T # {} => \E m \in T : \A x \in T : x <= m}
<1>1. {} \in P
  OBVIOUS
<1>2. \A T \in SUBSET S : \A x \in S \ T : T \in P => T \cup {x} \in P
  <2> SUFFICES ASSUME NEW T \in SUBSET S, NEW x \in S \ T, T \in P
               PROVE  \E m \in T \cup {x} : \A y \in T \cup {x} : y <= m
    OBVIOUS
  <2>1. CASE T = {}
    BY <2>1
  <2>2. CASE T # {}
    <3>1. PICK m \in T : \A y \in T : y <= m
      BY <2>2
    <3>2. m \in Int /\ x \in Int /\ \A y \in T : y \in Int
      OBVIOUS
    <3>3. CASE x <= m
      BY <3>1, <3>3
    <3>4. CASE ~(x <= m)
      BY <3>1, <3>2, <3>4
    <3> QED BY <3>3, <3>4
  <2> QED BY <2>1, <2>2
<1> HIDE DEF P
<1>3. S \in P
  BY <1>1, <1>2, SetInductive
<1>4. \E m \in S : \A x \in S : x <= m
  BY <1>3 DEF P
<1> QED
  BY <1>4 DEF Max

-----------------------------------------------------------------------------
(* The amounts of the rows a run reads. *)

\* The files' rows have the columns of the kind, and amounts in them.
HasAmounts(kind, files) ==
  /\ IsFiniteSet(files)
  /\ \A f \in files :
        /\ IsFiniteSet(f.rows)
        /\ \A r \in f.rows :
              /\ Columns(kind) \ Unmapped(f) \subseteq DOMAIN r
              /\ \A k \in Amounts(kind) \ Unmapped(f) : r[k] \in Int \cup {Unreadable}

\* The amounts of a kind are columns of it, and no names.
LEMMA KindColumns ==
  ASSUME NEW kind
  PROVE  /\ Amounts(kind) \subseteq Columns(kind)
         /\ {"store", "file", "window", "brand", "type", "created", "fee", "sku"} \cap Amounts(kind) = {}
         /\ {"store", "file", "window", "brand"} \cap Columns(kind) = {}
BY DEF Amounts, Columns

\* A row read has its kind's columns, with numbers or cells that do not parse.
LEMMA RowsReadHave ==
  ASSUME NEW kind, NEW files, HasAmounts(kind, files), NEW row \in ReadFiles(files)
  PROVE  /\ Columns(kind) \cup {"store"} \subseteq DOMAIN row
         /\ \A k \in Amounts(kind) : row[k] \in Int \cup {Unreadable}
<1>1. PICK f \in files : \E r \in f.rows : row = FileRow(f, r)
  BY DEF ReadFiles, FileRows
<1>2. PICK r \in f.rows : row = FileRow(f, r)
  BY <1>1
<1>3. /\ Columns(kind) \ Unmapped(f) \subseteq DOMAIN r
      /\ \A k \in Amounts(kind) \ Unmapped(f) : r[k] \in Int \cup {Unreadable}
  BY DEF HasAmounts
<1> DEFINE read == With(r, [store |-> f.store, file |-> f.file, window |-> f.window])
<1>4. /\ (Columns(kind) \ Unmapped(f)) \cup {"store"} \subseteq DOMAIN read
      /\ \A k \in Amounts(kind) \ Unmapped(f) : read[k] = r[k]
  BY <1>3, KindColumns DEF With
<1>5. row = With(read, [k \in Unmapped(f) |-> 0])
  BY <1>2 DEF FileRow
<1> HIDE DEF read
<1>6. /\ DOMAIN row = DOMAIN read \cup Unmapped(f)
      /\ \A k \in DOMAIN row : row[k] = IF k \in Unmapped(f) THEN 0 ELSE read[k]
  BY <1>5 DEF With
<1> QED
  BY <1>3, <1>4, <1>6, KindColumns

\* Parsing makes numbers of the amounts.
\* A normalised part has numbers.
LEMMA PartsHaveAmounts ==
  ASSUME NEW c, NEW kind, NEW files, HasAmounts(kind, files)
  PROVE  \A rows \in SUBSET ReadFiles(files) :
            LET parts == NormalizeParts(c, kind, rows)
            IN  /\ IsFiniteSet(parts)
                /\ \A row \in parts : Columns(kind) \cup {"store"} \subseteq DOMAIN row
                /\ \A k \in Amounts(kind) : Numbers(parts, k)
<1> SUFFICES ASSUME NEW rows \in SUBSET ReadFiles(files)
    PROVE  /\ IsFiniteSet(NormalizeParts(c, kind, rows))
           /\ \A row \in NormalizeParts(c, kind, rows) : Columns(kind) \cup {"store"} \subseteq DOMAIN row
           /\ \A k \in Amounts(kind) : Numbers(NormalizeParts(c, kind, rows), k)
  OBVIOUS
<1>1. IsFiniteSet(rows)
  BY FiniteRead, FS_Subset DEF HasAmounts
<1> DEFINE g == [row \in rows |-> NormalizeRow(c, kind, row)]
<1>2. NormalizeParts(c, kind, rows) = {g[row] : row \in rows} /\ DOMAIN g = rows
  BY DEF NormalizeParts
<1>3. IsFiniteSet({g[row] : row \in rows})
  <2> HIDE DEF g
  <2> QED BY <1>1, <1>2, FiniteImage
<1>4. ASSUME NEW row \in rows
      PROVE  /\ Columns(kind) \cup {"store"} \subseteq DOMAIN NormalizeRow(c, kind, row)
             /\ \A k \in Amounts(kind) : NormalizeRow(c, kind, row)[k] \in Int
  <2>1. /\ Columns(kind) \cup {"store"} \subseteq DOMAIN row
        /\ \A k \in Amounts(kind) : row[k] \in Int \cup {Unreadable}
    BY RowsReadHave
  <2>2. DOMAIN NormalizeRow(c, kind, row) = DOMAIN row
    BY DEF NormalizeRow
  <2>3. ASSUME NEW k \in Amounts(kind) PROVE NormalizeRow(c, kind, row)[k] \in Int
    <3>1. k \in DOMAIN row
      BY <2>1, KindColumns
    <3>2. NormalizeRow(c, kind, row)[k] = ToNumber(row[k])
      BY <3>1, KindColumns DEF NormalizeRow
    <3> QED BY <2>1, <3>2 DEF ToNumber
  <2> QED BY <2>1, <2>2, <2>3
<1>5. \A x \in NormalizeParts(c, kind, rows) : \E row \in rows : x = NormalizeRow(c, kind, row)
  BY DEF NormalizeParts
<1> HIDE DEF g
<1> QED
  BY <1>2, <1>3, <1>4, <1>5 DEF Numbers

\* The brand of a row is that of its store.
LEMMA IncomeAmounts ==
  ASSUME NEW c, NEW input, NEW w, HasAmounts("income", FilesOf(input, w, "income"))
  PROVE  LET income == ReadIncome(c, input, w)
         IN  /\ IsFiniteSet(income)
             /\ \A k \in Amounts("income") : Numbers(income, k)
             /\ \A x, y \in income : x.store = y.store => x.brand = y.brand
<1> DEFINE files == FilesOf(input, w, "income")
           parts == ReadParts(c, "income", files)
           BrandIn(row) == IF NormStore(row.store) \in DOMAIN c.brands
                           THEN c.brands[NormStore(row.store)] ELSE row.store
           Branded(row) == With(row, [brand |-> BrandIn(row)])
           income == ReadIncome(c, input, w)
<1>1. /\ IsFiniteSet(parts)
      /\ \A row \in parts : Columns("income") \cup {"store"} \subseteq DOMAIN row
      /\ \A k \in Amounts("income") : Numbers(parts, k)
  <2>1. RawParts(c, files) \in SUBSET ReadFiles(files)
    BY DEF RawParts, Deduplicated
  <2> HIDE DEF files
  <2> QED BY <2>1, PartsHaveAmounts DEF ReadParts, files
<1>2. income \subseteq DeriveBrand(c, parts)
  BY DEF ReadIncome, ApplySettlementBounds
<1>3. DeriveBrand(c, parts) = {Branded(row) : row \in parts}
  BY DEF DeriveBrand
<1>4. IsFiniteSet(income)
  <2> DEFINE g == [row \in parts |-> Branded(row)]
  <2>1. DeriveBrand(c, parts) = {g[row] : row \in parts} /\ DOMAIN g = parts
    BY <1>3
  <2> HIDE DEF g, parts, income
  <2>2. IsFiniteSet({g[row] : row \in parts})
    BY <1>1, <2>1, FiniteImage
  <2> QED BY <1>2, <2>1, <2>2, FS_Subset
<1>5. ASSUME NEW row \in parts
      PROVE  /\ Branded(row).store = row.store
             /\ Branded(row).brand = BrandIn(row)
             /\ \A k \in Amounts("income") : Branded(row)[k] = row[k]
  <2>1. Columns("income") \cup {"store"} \subseteq DOMAIN row
    BY <1>1
  <2>2. \A k \in DOMAIN row : k # "brand" => Branded(row)[k] = row[k]
    BY WithOld
  <2>3. Branded(row).brand = BrandIn(row)
    BY DEF With
  <2> QED BY <2>1, <2>2, <2>3, KindColumns
<1>6. \A x \in income : \E row \in parts : x = Branded(row)
  BY <1>2, <1>3
<1>7. \A k \in Amounts("income") : Numbers(income, k)
  <2> HIDE DEF parts, income, Branded
  <2> QED BY <1>1, <1>5, <1>6 DEF Numbers
<1>8. ASSUME NEW x \in income, NEW y \in income, x.store = y.store PROVE x.brand = y.brand
  <2>1. PICK p \in parts : x = Branded(p)
    BY <1>6
  <2>2. PICK q \in parts : y = Branded(q)
    BY <1>6
  <2>3. x.store = p.store /\ y.store = q.store /\ x.brand = BrandIn(p) /\ y.brand = BrandIn(q)
    BY <1>5, <2>1, <2>2
  <2>4. BrandIn(p) = BrandIn(q)
    BY <1>8, <2>3
  <2> QED BY <2>3, <2>4
<1> QED
  BY <1>4, <1>7, <1>8

\* The income does not depend on the roster.
LEMMA IncomeOfRoster ==
  ASSUME NEW dep \in Setups, NEW stores, NEW input, NEW w
  PROVE  ReadIncome(PartialRoster(dep.contract, stores), input, w) = ReadIncome(dep.contract, input, w)
<1> DEFINE c == PartialRoster(dep.contract, stores)
           d == dep.contract
<1>1. /\ c.aliases = d.aliases /\ c.bounds = d.bounds /\ c.brands = d.brands
      /\ c.dedupeRows = d.dedupeRows /\ DOMAIN c = DOMAIN d
  BY SetupsAssumption DEF PartialRoster, ContractFields
<1> HIDE DEF c, d
<1>2. \A kind, row : NormalizeRow(c, kind, row) = NormalizeRow(d, kind, row)
  BY <1>1 DEF NormalizeRow, CanonicalStore
<1>3. \A kind, files : ReadParts(c, kind, files) = ReadParts(d, kind, files)
  BY <1>1, <1>2 DEF ReadParts, NormalizeParts, RawParts
<1>4. \A rows : DeriveBrand(c, rows) = DeriveBrand(d, rows)
  BY <1>1 DEF DeriveBrand
<1>5. \A rows : ApplySettlementBounds(c, w, rows) = ApplySettlementBounds(d, w, rows)
  BY <1>1 DEF ApplySettlementBounds
<1> QED
  BY <1>3, <1>4, <1>5 DEF ReadIncome, c, d

-----------------------------------------------------------------------------
(* Orders, as the groups of rows they are. *)

\* What tells the orders of a platform apart.
TikTokKey == {"store", "brand", "order", "type", "created"}
ShopeeKey == {"store", "brand", "order"}

\* The groups of finitely many rows are finitely many.
LEMMA FiniteGroups ==
  ASSUME NEW rows, IsFiniteSet(rows), NEW columns
  PROVE  IsFiniteSet(Groups(rows, columns))
<1> DEFINE g == [row \in rows |-> Restrict(row, columns)]
<1>1. Groups(rows, columns) = {g[row] : row \in rows} /\ DOMAIN g = rows
  BY DEF Groups
<1> HIDE DEF g
<1> QED BY <1>1, FiniteImage

\* The members of a group are the rows alike.
LEMMA GroupMembers ==
  ASSUME NEW rows, NEW columns, NEW key \in Groups(rows, columns), NEW row,
         \A k \in columns : row[k] = key[k]
  PROVE  /\ Restrict(row, columns) = key /\ DOMAIN key = columns
         /\ Members(rows, key) = Alike(rows, columns, row)
         /\ Members(rows, key) # {}
<1>1. PICK i \in rows : key = Restrict(i, columns)
  BY DEF Groups
<1>2. DOMAIN key = columns /\ Restrict(row, columns) = key
  BY <1>1 DEF Restrict
<1>3. Members(rows, key) = Alike(rows, columns, row)
  BY <1>2 DEF Members, Alike
<1>4. i \in Members(rows, key)
  BY <1>1, <1>2 DEF Members
<1> QED
  BY <1>2, <1>3, <1>4

\* A TikTok order is the rows with its key, of which it is the only one; what it
\* settles is what they do, and it is good only if they are of a sale.
LEMMA TikTokGroups ==
  ASSUME NEW income, IsFiniteSet(income)
  PROVE  LET typed == {x \in income : x.type # NoType}
             orders == ClassifyTikTok(income)
         IN  /\ IsFiniteSet(orders)
             /\ \A row \in orders :
                  /\ row.settled = SumOf(Alike(typed, TikTokKey, row), "settled")
                  /\ Alike(typed, TikTokKey, row) # {}
                  /\ row.status = "Good" => row.type = "Order"
                  /\ DOMAIN row = TikTokKey \cup {"day", "gross", "net", "refund", "settled",
                                                  "listed", "refunded", "status"}
             /\ \A x \in typed : \E row \in orders : Restrict(row, TikTokKey) = Restrict(x, TikTokKey)
             /\ \A m, n \in orders : Restrict(m, TikTokKey) = Restrict(n, TikTokKey) => m = n
<1> DEFINE typed == {x \in income : x.type # NoType}
           orders == ClassifyTikTok(income)
           keys == Groups(typed, TikTokKey)
           amounts == {"gross", "net", "refund", "settled", "listed", "refunded"}
           Dated(key) == With(key, [day |-> Earliest(Members(typed, key), "day")])
           Collapsed(key) == With(Dated(key), Sums(Members(typed, key), amounts))
           Order(key) == With(Collapsed(key), [status |-> TikTokStatus(Collapsed(key))])
<1>1. orders = {Order(key) : key \in keys}
  BY DEF ClassifyTikTok, TikTokKey
<1>2. IsFiniteSet(keys)
  BY FiniteGroups, FS_Subset
<1>3. IsFiniteSet(orders)
  <2> DEFINE g == [key \in keys |-> Order(key)]
  <2>1. orders = {g[key] : key \in keys} /\ DOMAIN g = keys
    BY <1>1
  <2> HIDE DEF g, keys, orders
  <2> QED BY <1>2, <2>1, FiniteImage
<1>4. ASSUME NEW key \in keys
      PROVE  /\ \A k \in TikTokKey : Order(key)[k] = key[k]
             /\ Order(key).settled = SumOf(Members(typed, key), "settled")
             /\ Order(key).status = "Good" => Order(key).type = "Order"
             /\ DOMAIN Order(key) = TikTokKey \cup amounts \cup {"day", "status"}
  <2>1. DOMAIN key = TikTokKey
    BY GroupsOfRows
  <2> DEFINE members == Members(typed, key)
             sums == Sums(members, amounts)
  <2>2. DOMAIN sums = amounts /\ sums["settled"] = SumOf(members, "settled")
    BY DEF Sums
  <2> HIDE DEF typed, keys, members, sums
  <2>3. /\ DOMAIN Dated(key) = TikTokKey \cup {"day"}
        /\ \A k \in TikTokKey : Dated(key)[k] = key[k]
    BY <2>1 DEF With, TikTokKey
  <2> HIDE DEF Dated
  <2>4. /\ DOMAIN Collapsed(key) = TikTokKey \cup {"day"} \cup amounts
        /\ \A k \in TikTokKey : Collapsed(key)[k] = key[k]
        /\ Collapsed(key).settled = SumOf(members, "settled")
    BY <2>2, <2>3 DEF With, TikTokKey, sums, members
  <2> HIDE DEF Collapsed
  <2>5. /\ DOMAIN Order(key) = TikTokKey \cup amounts \cup {"day", "status"}
        /\ \A k \in TikTokKey : Order(key)[k] = key[k]
        /\ Order(key).settled = SumOf(members, "settled")
        /\ Order(key).status = TikTokStatus(Collapsed(key))
    BY <2>4 DEF With, TikTokKey
  <2>6. TikTokStatus(Collapsed(key)) = "Good" => Collapsed(key).type = "Order"
    BY DEF TikTokStatus
  <2>7. Order(key).type = Collapsed(key).type
    BY <2>4, <2>5 DEF TikTokKey
  <2> QED BY <2>5, <2>6, <2>7 DEF members
<1> HIDE DEF Order, orders
<1>5. ASSUME NEW row \in orders
      PROVE  /\ row.settled = SumOf(Alike(typed, TikTokKey, row), "settled")
             /\ Alike(typed, TikTokKey, row) # {}
             /\ row.status = "Good" => row.type = "Order"
             /\ DOMAIN row = TikTokKey \cup amounts \cup {"day", "status"}
             /\ Restrict(row, TikTokKey) \in keys /\ row = Order(Restrict(row, TikTokKey))
  <2>1. PICK key \in keys : row = Order(key)
    BY <1>1
  <2>2. \A k \in TikTokKey : row[k] = key[k]
    BY <1>4, <2>1
  <2>3. Restrict(row, TikTokKey) = key /\ Members(typed, key) = Alike(typed, TikTokKey, row)
        /\ Members(typed, key) # {}
    <3> HIDE DEF typed
    <3> QED BY <2>2, GroupMembers
  <2> QED
    BY <1>4, <2>1, <2>3
<1>6. ASSUME NEW x \in typed
      PROVE  \E row \in orders : Restrict(row, TikTokKey) = Restrict(x, TikTokKey)
  <2> DEFINE key == Restrict(x, TikTokKey)
  <2>1. key \in keys
    BY DEF Groups
  <2>2. \A k \in TikTokKey : Order(key)[k] = key[k]
    BY <1>4, <2>1
  <2>3. Restrict(Order(key), TikTokKey) = key
    <3> HIDE DEF typed, key
    <3> QED BY <2>1, <2>2, GroupMembers
  <2> QED BY <1>1, <2>1, <2>3
<1>7. \A m, n \in orders : Restrict(m, TikTokKey) = Restrict(n, TikTokKey) => m = n
  BY <1>5
<1> QED
  BY <1>3, <1>5, <1>6, <1>7 DEF orders

\* A Shopee order is the sales with its key; its refund and its vouchers are what
\* they have, and an order of "ok" has no refund.
LEMMA ShopeeGroups ==
  ASSUME NEW income, IsFiniteSet(income)
  PROVE  LET sales == {x \in income : x.type = "Order"}
             orders == ClassifyShopee(income)
         IN  /\ IsFiniteSet(orders)
             /\ \A row \in orders :
                  /\ row.refund = SumOf(Alike(sales, ShopeeKey, row), "refund")
                  /\ row.vouchers = SumOf(Alike(sales, ShopeeKey, row), "vouchers")
                  /\ Alike(sales, ShopeeKey, row) # {}
                  /\ row.status = "ok" => row.refund = 0
                  /\ DOMAIN row = ShopeeKey \cup {"day", "created", "net", "refund", "gross",
                                                  "vouchers", "status"}
             /\ \A m, n \in orders : Restrict(m, ShopeeKey) = Restrict(n, ShopeeKey) => m = n
<1> DEFINE sales == {x \in income : x.type = "Order"}
           orders == ClassifyShopee(income)
           keys == Groups(sales, ShopeeKey)
           amounts == {"net", "refund", "gross", "vouchers"}
           Dated(key) == With(key, [day |-> Earliest(Members(sales, key), "day"),
                                    created |-> Earliest(Members(sales, key), "created")])
           Collapsed(key) == With(Dated(key), Sums(Members(sales, key), amounts))
           Order(key) == With(Collapsed(key), [status |-> ShopeeStatus(Collapsed(key))])
<1>1. orders = {Order(key) : key \in keys}
  BY DEF ClassifyShopee, ShopeeKey
<1>2. IsFiniteSet(keys)
  BY FiniteGroups, FS_Subset
<1>3. IsFiniteSet(orders)
  <2> DEFINE g == [key \in keys |-> Order(key)]
  <2>1. orders = {g[key] : key \in keys} /\ DOMAIN g = keys
    BY <1>1
  <2> HIDE DEF g, keys, orders
  <2> QED BY <1>2, <2>1, FiniteImage
<1>4. ASSUME NEW key \in keys
      PROVE  /\ \A k \in ShopeeKey : Order(key)[k] = key[k]
             /\ Order(key).refund = SumOf(Members(sales, key), "refund")
             /\ Order(key).vouchers = SumOf(Members(sales, key), "vouchers")
             /\ Order(key).status = "ok" => Order(key).refund = 0
             /\ DOMAIN Order(key) = ShopeeKey \cup amounts \cup {"day", "created", "status"}
  <2>1. DOMAIN key = ShopeeKey
    BY GroupsOfRows
  <2> DEFINE members == Members(sales, key)
             sums == Sums(members, amounts)
  <2>2. DOMAIN sums = amounts /\ sums["refund"] = SumOf(members, "refund")
        /\ sums["vouchers"] = SumOf(members, "vouchers")
    BY DEF Sums
  <2> HIDE DEF sales, keys, members, sums
  <2>3. /\ DOMAIN Dated(key) = ShopeeKey \cup {"day", "created"}
        /\ \A k \in ShopeeKey : Dated(key)[k] = key[k]
    BY <2>1 DEF With, ShopeeKey
  <2> HIDE DEF Dated
  <2>4. /\ DOMAIN Collapsed(key) = ShopeeKey \cup {"day", "created"} \cup amounts
        /\ \A k \in ShopeeKey : Collapsed(key)[k] = key[k]
        /\ Collapsed(key).refund = SumOf(members, "refund")
        /\ Collapsed(key).vouchers = SumOf(members, "vouchers")
    BY <2>2, <2>3 DEF With, ShopeeKey, sums, members
  <2> HIDE DEF Collapsed
  <2>5. /\ DOMAIN Order(key) = ShopeeKey \cup amounts \cup {"day", "created", "status"}
        /\ \A k \in ShopeeKey : Order(key)[k] = key[k]
        /\ Order(key).refund = SumOf(members, "refund")
        /\ Order(key).vouchers = SumOf(members, "vouchers")
        /\ Order(key).status = ShopeeStatus(Collapsed(key))
    BY <2>4 DEF With, ShopeeKey
  <2>6. ShopeeStatus(Collapsed(key)) = "ok" => Collapsed(key).refund = 0
    BY DEF ShopeeStatus
  <2> QED BY <2>4, <2>5, <2>6 DEF members
<1> HIDE DEF Order, orders
<1>5. ASSUME NEW row \in orders
      PROVE  /\ row.refund = SumOf(Alike(sales, ShopeeKey, row), "refund")
             /\ row.vouchers = SumOf(Alike(sales, ShopeeKey, row), "vouchers")
             /\ Alike(sales, ShopeeKey, row) # {}
             /\ row.status = "ok" => row.refund = 0
             /\ DOMAIN row = ShopeeKey \cup amounts \cup {"day", "created", "status"}
             /\ row = Order(Restrict(row, ShopeeKey))
  <2>1. PICK key \in keys : row = Order(key)
    BY <1>1
  <2>2. \A k \in ShopeeKey : row[k] = key[k]
    BY <1>4, <2>1
  <2>3. Restrict(row, ShopeeKey) = key /\ Members(sales, key) = Alike(sales, ShopeeKey, row)
        /\ Members(sales, key) # {}
    <3> HIDE DEF sales
    <3> QED BY <2>2, GroupMembers
  <2> QED
    BY <1>4, <2>1, <2>3
<1>6. \A m, n \in orders : Restrict(m, ShopeeKey) = Restrict(n, ShopeeKey) => m = n
  BY <1>5
<1> QED
  BY <1>3, <1>5, <1>6 DEF orders

-----------------------------------------------------------------------------
(* The amounts of the lines of orders. *)

\* The amounts of an order file.
OrderAmounts == {"price", "qty", "discount"}

\* An order's lines have numbers.
LEMMA OrderLineAmounts ==
  ASSUME NEW orders, IsFiniteSet(orders), \A k \in OrderAmounts : Numbers(orders, k)
  PROVE  /\ IsFiniteSet(OrderLines(orders))
         /\ \A k \in OrderAmounts : Numbers(OrderLines(orders), k)
<1> DEFINE columns == {"store", "order", "sku", "price"}
           keys == Groups(orders, columns)
           Summed(key) == Sums(Members(orders, key), {"qty", "discount"})
           g == [key \in keys |-> With(key, Summed(key))]
<1>1. OrderLines(orders) = {g[key] : key \in keys} /\ DOMAIN g = keys
  BY DEF OrderLines
<1>2. IsFiniteSet(OrderLines(orders))
  <2> HIDE DEF columns, g
  <2> QED BY <1>1, FiniteGroups, FiniteImage
<1>3. ASSUME NEW key \in keys
      PROVE  \A k \in OrderAmounts : With(key, Summed(key))[k] \in Int
  <2>1. DOMAIN key = columns /\ \E o \in orders : \A k \in columns : key[k] = o[k]
    BY GroupsOfRows
  <2>2. key.price \in Int
    BY <2>1 DEF Numbers, OrderAmounts
  <2> DEFINE members == Members(orders, key)
  <2>3. members \in SUBSET orders
    BY DEF Members
  <2> HIDE DEF members
  <2>4. SumOf(members, "qty") \in Int /\ SumOf(members, "discount") \in Int
    BY <2>3, SumOfSome DEF OrderAmounts
  <2>5. DOMAIN Summed(key) = {"qty", "discount"} /\ \A k \in {"qty", "discount"} : Summed(key)[k] \in Int
    BY <2>4 DEF Sums, members
  <2> HIDE DEF Summed, keys
  <2> QED BY <2>1, <2>2, <2>5 DEF With, OrderAmounts
<1>4. \A line \in OrderLines(orders) : \E key \in keys : line = With(key, Summed(key))
  BY <1>1
<1> HIDE DEF keys, Summed
<1> QED
  BY <1>2, <1>3, <1>4 DEF Numbers

\* The order files a run may open.
OrderFiles(input) == {f \in input : f.kind = "orders"}

\* The rows the run goes on with, its own or borrowed, are of order files.
LEMMA ResolvedAmounts ==
  ASSUME NEW c, NEW input, NEW w, NEW settled, NEW column,
         HasAmounts("orders", OrderFiles(input))
  PROVE  LET orders == ResolveOrders(c, input, w, settled, column).orders
         IN  IsFiniteSet(orders) /\ \A k \in OrderAmounts : Numbers(orders, k)
<1> DEFINE every == NormalizeParts(c, "orders", ReadFiles(OrderFiles(input)))
           own == ReadParts(c, "orders", FilesOf(input, w, "orders"))
           needed == Needed(own, settled)
           borrowed == BorrowOrderLines(c, input, w, needed)
           orders == ResolveOrders(c, input, w, settled, column).orders
<1>1. /\ IsFiniteSet(every)
      /\ \A k \in Amounts("orders") : Numbers(every, k)
  BY PartsHaveAmounts
<1>2. own \subseteq every
  <2>1. RawParts(c, FilesOf(input, w, "orders")) \subseteq ReadFiles(OrderFiles(input))
    BY DEF RawParts, Deduplicated, FilesOf, ReadFiles, OrderFiles
  <2> QED BY <2>1 DEF ReadParts, NormalizeParts
<1>3. borrowed \subseteq every
  <2> HIDE DEF needed
  <2> SUFFICES ASSUME NEW row \in borrowed PROVE row \in every
    OBVIOUS
  <2>1. PICK v \in PredecessorWindows(input, w) : row \in SuppliedBy(c, input, w, v, needed)
    BY DEF BorrowOrderLines
  <2>2. row \in PredecessorLines(c, input, v, needed)
    BY <2>1 DEF SuppliedBy
  <2> DEFINE files == Prefiltered(c, FilesOf(input, v, "orders"), needed)
  <2>3. row \in NormalizeParts(c, "orders", ReadFiles(files))
    BY <2>2 DEF PredecessorLines
  <2>4. ReadFiles(files) \subseteq ReadFiles(OrderFiles(input))
    BY DEF ReadFiles, Prefiltered, FilesOf, OrderFiles
  <2> QED BY <2>3, <2>4 DEF NormalizeParts
<1> HIDE DEF every, own, needed, borrowed
<1>4. orders \subseteq own \cup borrowed
  BY DEF ResolveOrders, Resolve, Found, own, needed, borrowed
<1> HIDE DEF orders
<1>5. orders \subseteq every /\ IsFiniteSet(orders)
  BY <1>1, <1>2, <1>3, <1>4, FS_Subset
<1> QED
  BY <1>1, <1>5 DEF Numbers, Amounts, OrderAmounts, orders

\* The join of finitely many orders, none with the columns of a line.
LEMMA JoinedAmounts ==
  ASSUME NEW settled, IsFiniteSet(settled),
         \A p \in settled : DOMAIN p \cap ({"sku"} \cup OrderAmounts) = {},
         NEW orders, IsFiniteSet(orders), \A k \in OrderAmounts : Numbers(orders, k)
  PROVE  LET sku == ExplodeToSku(settled, orders)
         IN  /\ IsFiniteSet(sku)
             /\ \A k \in OrderAmounts : Numbers(sku, k)
             /\ \A line \in sku : OrderAmounts \cup {"sku"} \subseteq DOMAIN line
<1> DEFINE sku == ExplodeToSku(settled, orders)
           lines == OrderLines(orders)
<1>1. IsFiniteSet(lines) /\ \A k \in OrderAmounts : Numbers(lines, k)
  BY OrderLineAmounts
<1>2. IsFiniteSet(sku)
  <2> DEFINE joined == {p \in settled \X lines : Pair(p[1]) = Pair(p[2])}
             g == [pair \in joined |-> With(pair[2], pair[1])]
  <2>1. sku = {g[pair] : pair \in joined} /\ DOMAIN g = joined
    BY DEF ExplodeToSku
  <2>2. joined \subseteq settled \X lines
    OBVIOUS
  <2> HIDE DEF joined, g, lines
  <2>3. IsFiniteSet(settled \X lines)
    BY <1>1, FS_Product
  <2>4. IsFiniteSet(joined)
    BY <2>2, <2>3, FS_Subset
  <2> QED BY <2>1, <2>4, FiniteImage
<1>3. ASSUME NEW line \in sku
      PROVE  /\ \A k \in OrderAmounts : line[k] \in Int
             /\ OrderAmounts \cup {"sku"} \subseteq DOMAIN line
  <2>1. PICK p \in settled, o \in lines : line = With(o, p)
    BY JoinedPairs
  <2>2. DOMAIN o = {"store", "order", "sku", "price", "qty", "discount"}
    BY OrderLineColumns
  <2>3. \A k \in OrderAmounts : o[k] \in Int
    BY <1>1 DEF Numbers
  <2>4. DOMAIN line = DOMAIN o \cup DOMAIN p /\ \A k \in OrderAmounts : line[k] = o[k]
    BY <2>1, <2>2 DEF With, OrderAmounts
  <2> QED BY <2>2, <2>3, <2>4 DEF OrderAmounts
<1> QED
  BY <1>2, <1>3 DEF Numbers

\* Pricing adds numbers.
LEMMA PricedAmounts ==
  ASSUME NEW line, line.qty \in Int, "qty" \in DOMAIN line,
         NEW share, DOMAIN share = {"allocated"},
         NEW amount \in Int, NEW rate \in Nat \ {0}
  PROVE  LET priced == Priced(With(line, share), amount, rate)
         IN  priced.wv \in Int /\ priced.pre \in Int
<1> DEFINE one == With(line, share)
           wv == IF one.qty = 0 THEN 0 ELSE amount
           priced == With(one, [rate |-> rate, wv |-> wv, pre |-> PreVat(wv, rate)])
<1>2. wv \in Int
  OBVIOUS
<1>3. PreVat(wv, rate) \in Int
  <2> HIDE DEF wv
  <2> QED BY <1>2 DEF PreVat
<1>4. Priced(one, amount, rate) = priced
  BY DEF Priced
<1> HIDE DEF one, wv
<1>5. priced.wv = wv /\ priced.pre = PreVat(wv, rate)
  BY DEF With
<1> QED
  BY <1>2, <1>3, <1>4, <1>5 DEF one

\* And its share of the vouchers.
LEMMA PricedShare ==
  ASSUME NEW line, NEW share, DOMAIN share = {"allocated"}, NEW amount, NEW rate
  PROVE  Priced(With(line, share), amount, rate).allocated = share.allocated
BY DEF Priced, With

\* And keeps the other columns.
LEMMA PricedKeeps ==
  ASSUME NEW line, NEW share, DOMAIN share = {"allocated"}, NEW amount, NEW rate,
         NEW k \in DOMAIN line, k \notin {"allocated", "rate", "wv", "pre"}
  PROVE  LET priced == Priced(With(line, share), amount, rate)
         IN  k \in DOMAIN priced /\ priced[k] = line[k]
<1> DEFINE one == With(line, share)
           wv == IF one.qty = 0 THEN 0 ELSE amount
           new == [rate |-> rate, wv |-> wv, pre |-> PreVat(wv, rate)]
<1>1. k \in DOMAIN one /\ one[k] = line[k]
  BY WithOld
<1>2. DOMAIN new = {"rate", "wv", "pre"}
  OBVIOUS
<1>3. Priced(one, amount, rate) = With(one, new)
  BY DEF Priced
<1> HIDE DEF one, new
<1> QED
  BY <1>1, <1>2, <1>3, WithOld DEF one

\* The sale of an order's lines is a number.
LEMMA SaleIsNumber ==
  ASSUME NEW S, IsFiniteSet(S), \A k \in OrderAmounts : Numbers(S, k)
  PROVE  MapThenSumSet(NetOf, S) \in Int
<1> DEFINE f == [line \in S |-> NetOf(line)]
<1>1. PICK g : Adds(f, S, g)
  BY AdderExists
<1>2. \A s \in SUBSET S : s # {} => f[Picked(s)] = NetOf(Picked(s))
  BY DEF Picked
<1>3. g = [s \in SUBSET S |-> IF s = {} THEN 0 ELSE NetOf(Picked(s)) + g[s \ {Picked(s)}]]
  <2> HIDE DEF f
  <2> QED BY <1>1, <1>2 DEF Adds
<1>4. PICK h : /\ h = [s \in SUBSET S |->
                         IF s = {} THEN 0 ELSE NetOf(Picked(s)) + h[s \ {Picked(s)}]]
               /\ MapThenSumSet(NetOf, S) = h[S]
  BY <1>3 DEF MapThenSumSet, MapThenFoldSet, Picked
<1>5. \A line \in S : f[line] \in Int
  BY DEF NetOf, Numbers, OrderAmounts
<1> HIDE DEF f
<1>6. Adds(f, S, h)
  BY <1>2, <1>4 DEF Adds
<1>7. Total(f, S) \in Int /\ Total(f, S) = h[S]
  BY <1>5, <1>6, TotalIs, TotalInt
<1> QED
  BY <1>4, <1>7

\* The quotient by a number that is not zero.
LEMMA QuotientIsNumber ==
  ASSUME NEW p \in Int, NEW q \in Int, q # 0
  PROVE  Quotient(p, q) \in Int
BY DEF Quotient

-----------------------------------------------------------------------------
(* What a check says, and the lines of TikTok. *)

\* A declaration changes neither the tolerances nor the default rate.
LEMMA RelaxedTolerance ==
  ASSUME NEW dep \in Setups, NEW stores
  PROVE  LET c == PartialRoster(dep.contract, stores)
         IN  /\ c.tolerance = dep.contract.tolerance /\ c.vatDefault = dep.contract.vatDefault
             /\ c.rates = dep.contract.rates /\ c.promoBuckets = dep.contract.promoBuckets
             /\ c.revenueBucket = dep.contract.revenueBucket
BY SetupsAssumption DEF PartialRoster, ContractFields

\* A SKU's rate is one of the deployment's.
LEMMA RateOfSku ==
  ASSUME NEW dep \in Setups, NEW c, c.vatDefault = dep.contract.vatDefault, NEW sku
  PROVE  /\ VatFactor(c, Masters(dep).vat, sku) \in Nat \ {0}
         /\ VatFactor(c, FeeMasters(dep).vat, sku) \in Nat \ {0}
<1>1. Rates(dep) \subseteq Nat \ {0}
  BY AmountsAssumption
<1>2. ASSUME NEW name PROVE VatFactor(c, LoadMasters(name, dep.live, dep.snapshot).vat, sku) \in Rates(dep)
  <2> DEFINE vat == LoadMasters(name, dep.live, dep.snapshot).vat
             files == {dep.live[n] : n \in DOMAIN dep.live} \cup {dep.snapshot}
  <2>1. \E m \in files : vat = m.vat
    BY DEF LoadMasters
  <2>2. PICK m \in files : vat = m.vat
    BY <2>1
  <2> DEFINE RatesIn(n) == {n.vat[x] : x \in DOMAIN n.vat}
             listed == {RatesIn(n) : n \in files}
             default == dep.contract.vatDefault
  <2>3. Rates(dep) = {default} \cup UNION listed
    BY DEF Rates
  <2>4. sku \in DOMAIN m.vat => m.vat[sku] \in RatesIn(m)
    OBVIOUS
  <2>5. RatesIn(m) \in listed
    OBVIOUS
  <2>6. c.vatDefault = default
    OBVIOUS
  <2> HIDE DEF RatesIn, listed, default
  <2>8. RatesIn(m) \subseteq Rates(dep) /\ default \in Rates(dep)
    BY <2>3, <2>5
  <2> HIDE DEF vat
  <2> QED BY <2>2, <2>4, <2>6, <2>8 DEF VatFactor, vat
<1> QED
  BY <1>1, <1>2 DEF Masters, FeeMasters, LedgerMasters

\* What the assumption on amounts says of the exports a run may read.
LEMMA SetupAmounts ==
  ASSUME NEW dep \in Setups, NEW input \in SUBSET ExportsOf(dep), NEW w
  PROVE  /\ HasAmounts("orders", OrderFiles(input))
         /\ HasAmounts("income", FilesOf(input, w, "income"))
<1>1. IsFiniteSet(input) /\ \A f \in input : IsFiniteSet(f.rows)
  BY SetupFiles
<1>2. OrderFiles(input) \in SUBSET input /\ FilesOf(input, w, "income") \in SUBSET input
  BY DEF OrderFiles, FilesOf
<1>3. IsFiniteSet(OrderFiles(input)) /\ IsFiniteSet(FilesOf(input, w, "income"))
  BY <1>1, <1>2, FS_Subset
<1>4. \A f \in input : \A r \in f.rows :
        /\ Columns(f.kind) \ Unmapped(f) \subseteq DOMAIN r
        /\ \A k \in Amounts(f.kind) \ Unmapped(f) : r[k] \in Int \cup {Unreadable}
  BY AmountsAssumption
<1>5. /\ \A f \in OrderFiles(input) : f \in input /\ f.kind = "orders"
      /\ \A f \in FilesOf(input, w, "income") : f \in input /\ f.kind = "income"
  BY DEF OrderFiles, FilesOf
<1> QED
  BY <1>1, <1>3, <1>4, <1>5 DEF HasAmounts

\* A check that is not a breach is within its tolerance.
LEMMA Passed ==
  ASSUME NEW checks, Breaches(checks) = {}, NEW name, NEW variance, NEW tolerance,
         Check(name, variance, tolerance) \in checks
  PROVE  Abs(variance) <= tolerance
BY DEF Breaches, Check

\* The largest of finitely many numbers is none less than another.
LEMMA LargestIs ==
  ASSUME NEW K, IsFiniteSet(K), NEW f, \A k \in K : f[k] \in Int, NEW k \in K
  PROVE  f[k] <= Largest({f[j] : j \in K}) /\ Largest({f[j] : j \in K}) \in Int
<1> DEFINE D == {f[j] : j \in K}
           g == [j \in K |-> f[j]]
<1>1. D = {g[j] : j \in K} /\ DOMAIN g = K
  OBVIOUS
<1>2. IsFiniteSet(D)
  <2> HIDE DEF g, D
  <2> QED BY <1>1, FiniteImage
<1>3. D \subseteq Int /\ D # {} /\ f[k] \in D
  OBVIOUS
<1> HIDE DEF D
<1>4. Max(D) \in D /\ \A x \in D : x <= Max(D)
  BY <1>2, <1>3, MaxIs
<1>5. Largest(D) = Max(D)
  BY <1>3 DEF Largest
<1> QED
  BY <1>3, <1>4, <1>5 DEF D

\* The lines of TikTok's good orders.
LEMMA TikTokLines ==
  ASSUME NEW dep \in Setups, NEW c, c.vatDefault = dep.contract.vatDefault,
         NEW good, IsFiniteSet(good),
         \A p \in good : /\ {"store", "order", "created", "status"} \subseteq DOMAIN p
                         /\ DOMAIN p \cap ({"sku"} \cup OrderAmounts) = {},
         NEW orders, IsFiniteSet(orders), \A k \in OrderAmounts : Numbers(orders, k)
  PROVE  LET sku == ComputeTikTok(c, Masters(dep).vat, ExplodeToSku(good, orders))
             Of(p, line) == Pair(line) = Pair(p) /\ line.created = p.created
         IN  /\ IsFiniteSet(sku) /\ Numbers(sku, "wv") /\ Numbers(sku, "pre")
             /\ \A line \in sku : \E p \in good : Of(p, line)
             /\ \A p \in good : Pair(p) \in Pairs(sku) => \E line \in sku : Of(p, line)
<1> DEFINE joined == ExplodeToSku(good, orders)
           vat == Masters(dep).vat
           T(line) == Priced(With(line, [allocated |-> 0]), NetOf(line), VatFactor(c, vat, line.sku))
           sku == ComputeTikTok(c, vat, joined)
           Of(p, line) == Pair(line) = Pair(p) /\ line.created = p.created
<1>1. sku = {T(line) : line \in joined}
  BY DEF ComputeTikTok
<1>2. /\ IsFiniteSet(joined) /\ \A k \in OrderAmounts : Numbers(joined, k)
      /\ \A line \in joined : OrderAmounts \cup {"sku"} \subseteq DOMAIN line
  BY JoinedAmounts
<1>3. ASSUME NEW p \in good, NEW o \in OrderLines(orders), Pair(p) = Pair(o)
      PROVE  /\ With(o, p) \in joined /\ Of(p, With(o, p))
             /\ {"store", "order", "created"} \subseteq DOMAIN With(o, p)
  <2>1. With(o, p) \in joined
    BY <1>3, JoinedPairs
  <2> QED BY <2>1, WithNew DEF Pair
<1>4. ASSUME NEW line \in joined
      PROVE  \E p \in good, o \in OrderLines(orders) : Pair(p) = Pair(o) /\ line = With(o, p)
  BY JoinedPairs
<1>5. ASSUME NEW line \in joined
      PROVE  /\ T(line).wv \in Int /\ T(line).pre \in Int
             /\ Pair(T(line)) = Pair(line) /\ T(line).created = line.created
  <2>1. line.qty \in Int /\ "qty" \in DOMAIN line /\ NetOf(line) \in Int
    BY <1>2 DEF OrderAmounts, Numbers, NetOf
  <2>2. VatFactor(c, vat, line.sku) \in Nat \ {0}
    BY RateOfSku
  <2>3. {"store", "order", "created"} \subseteq DOMAIN line
    BY <1>3, <1>4
  <2> DEFINE share == [allocated |-> 0]
             amount == NetOf(line)
             rate == VatFactor(c, vat, line.sku)
             priced == Priced(With(line, share), amount, rate)
  <2>4. DOMAIN share = {"allocated"} /\ amount \in Int /\ rate \in Nat \ {0}
    BY <2>1, <2>2
  <2>5. T(line) = priced
    OBVIOUS
  <2> HIDE DEF share, amount, rate, T
  <2>6. priced.wv \in Int /\ priced.pre \in Int
    BY <2>1, <2>4, PricedAmounts
  <2>7. priced.store = line.store /\ priced.order = line.order /\ priced.created = line.created
    BY <2>3, <2>4, PricedKeeps
  <2> HIDE DEF priced
  <2> QED BY <2>5, <2>6, <2>7 DEF Pair
<1>6. IsFiniteSet(sku)
  <2> DEFINE g == [line \in joined |-> T(line)]
  <2>1. sku = {g[line] : line \in joined} /\ DOMAIN g = joined
    BY <1>1
  <2> HIDE DEF g, joined, sku
  <2> QED BY <1>2, <2>1, FiniteImage
<1> HIDE DEF T, sku, joined
<1>7. Numbers(sku, "wv") /\ Numbers(sku, "pre")
  BY <1>1, <1>5 DEF Numbers
<1>8. ASSUME NEW x \in sku PROVE \E p \in good : Of(p, x)
  <2>1. PICK line \in joined : x = T(line)
    BY <1>1
  <2>2. PICK p \in good, o \in OrderLines(orders) : Pair(p) = Pair(o) /\ line = With(o, p)
    BY <1>4
  <2> QED BY <1>3, <1>5, <2>1, <2>2
<1>9. ASSUME NEW p \in good, Pair(p) \in Pairs(sku) PROVE \E x \in sku : Of(p, x)
  <2>1. PICK line \in joined : Pair(T(line)) = Pair(p)
    BY <1>1, <1>9 DEF Pairs
  <2>2. PICK q \in good, o \in OrderLines(orders) : Pair(q) = Pair(o) /\ line = With(o, q)
    BY <1>4
  <2>3. Pair(p) = Pair(o)
    BY <1>3, <1>5, <2>1, <2>2
  <2>4. With(o, p) \in joined /\ Of(p, With(o, p))
    BY <1>3, <2>3
  <2>5. T(With(o, p)) \in sku /\ Of(p, T(With(o, p)))
    BY <1>1, <1>5, <2>4
  <2> QED BY <2>5
<1> QED
  BY <1>6, <1>7, <1>8, <1>9 DEF sku, joined

-----------------------------------------------------------------------------
(* TikTok: store by store. *)

\* Two numbers are finitely many.
LEMMA FinitePair ==
  ASSUME NEW x, NEW y
  PROVE  IsFiniteSet({x, y})
<1>1. IsFiniteSet({x}) /\ IsFiniteSet({y})
  BY FS_Singleton
<1>2. IsFiniteSet({x} \cup {y})
  BY <1>1, FS_Union
<1>3. {x, y} = {x} \cup {y}
  OBVIOUS
<1> QED
  BY <1>2, <1>3

\* What a store's matched orders settle is what the rows of sales that its lines
\* are of do.
LEMMA MatchedIsPaid ==
  ASSUME NEW income, IsFiniteSet(income), Numbers(income, "settled"),
         \A x, y \in income : x.store = y.store => x.brand = y.brand,
         NEW sku, NEW s,
         LET good == Settled("tiktok", ClassifyTikTok(income))
             Of(p, line) == Pair(line) = Pair(p) /\ line.created = p.created
         IN  /\ \A line \in sku : \E p \in good : Of(p, line)
             /\ \A p \in good : Pair(p) \in Pairs(sku) => \E line \in sku : Of(p, line)
  PROVE  LET good == Settled("tiktok", ClassifyTikTok(income))
             mine == OfStore(Matched(good, Pairs(sku)), s)
             paid == {row \in income : \E line \in sku :
                        /\ row.store = s /\ row.store = line.store /\ row.order = line.order
                        /\ row.type = "Order" /\ row.created = line.created}
         IN  SumOf(mine, "settled") = SumOf(paid, "settled") /\ SumOf(mine, "settled") \in Int
<1> DEFINE typed == {x \in income : x.type # NoType}
           orders == ClassifyTikTok(income)
           good == Settled("tiktok", orders)
           mine == OfStore(Matched(good, Pairs(sku)), s)
           Of(p, line) == Pair(line) = Pair(p) /\ line.created = p.created
           paid == {row \in income : \E line \in sku :
                      /\ row.store = s /\ row.store = line.store /\ row.order = line.order
                      /\ row.type = "Order" /\ row.created = line.created}
           grouped == Covered(typed, TikTokKey, mine)
<1>1. /\ IsFiniteSet(orders)
      /\ \A row \in orders :
           /\ row.settled = SumOf(Alike(typed, TikTokKey, row), "settled")
           /\ Alike(typed, TikTokKey, row) # {}
           /\ row.status = "Good" => row.type = "Order"
      /\ \A m, n \in orders : Restrict(m, TikTokKey) = Restrict(n, TikTokKey) => m = n
  BY TikTokGroups
<1>2. good = {row \in orders : row.status = "Good"}
  BY DEF Settled
<1>3. mine = {row \in good : Pair(row) \in Pairs(sku) /\ row.store = s}
  BY DEF OfStore, Matched
<1>4. /\ \A line \in sku : \E p \in good : Of(p, line)
      /\ \A p \in good : Pair(p) \in Pairs(sku) => \E line \in sku : Of(p, line)
  OBVIOUS
<1>5. \A x, y : Restrict(x, TikTokKey) = Restrict(y, TikTokKey) <=>
                  \A k \in TikTokKey : x[k] = y[k]
  BY DEF Restrict
<1>6. ASSUME NEW row \in grouped PROVE row \in paid
  <2>1. PICK m \in mine : \A k \in TikTokKey : row[k] = m[k]
    BY <1>5 DEF Covered
  <2>2. m \in good /\ Pair(m) \in Pairs(sku) /\ m.store = s /\ m.type = "Order"
    BY <1>1, <1>2, <1>3
  <2>3. PICK line \in sku : Of(m, line)
    BY <1>4, <2>2
  <2>4. /\ row.store = m.store /\ row.order = m.order /\ row.type = m.type
        /\ row.created = m.created
    BY <2>1 DEF TikTokKey
  <2>5. row \in income /\ line.store = m.store /\ line.order = m.order /\ line.created = m.created
    BY <2>3 DEF Pair, Covered
  <2> QED BY <2>2, <2>4, <2>5
<1>7. ASSUME NEW row \in paid PROVE row \in grouped
  <2>1. PICK line \in sku : /\ row.store = s /\ row.store = line.store /\ row.order = line.order
                            /\ row.type = "Order" /\ row.created = line.created
    OBVIOUS
  <2>2. PICK p \in good : Of(p, line)
    BY <1>4
  <2>3. p \in orders /\ p.type = "Order"
    BY <1>1, <1>2
  <2>4. PICK x \in typed : \A k \in TikTokKey : x[k] = p[k]
    <3>1. PICK x \in Alike(typed, TikTokKey, p) : TRUE
      BY <1>1, <2>3
    <3> QED BY <3>1, <1>5 DEF Alike
  <2>5. p.store = line.store /\ p.order = line.order /\ p.created = line.created
    BY <2>2 DEF Pair
  <2>6. row.brand = p.brand
    <3>1. x.store = p.store /\ x.brand = p.brand /\ x \in income /\ row \in income
      BY <2>4 DEF TikTokKey
    <3> QED BY <2>1, <2>5, <3>1
  <2>7. \A k \in TikTokKey : row[k] = p[k]
    BY <2>1, <2>3, <2>5, <2>6 DEF TikTokKey
  <2>8. p \in mine
    BY <1>3, <2>1, <2>2, <2>5 DEF Pairs
  <2>9. row \in typed
    BY <2>1, NoTypeAssumption
  <2> QED BY <1>5, <2>7, <2>8, <2>9 DEF Covered
<1>8. grouped = paid
  BY <1>6, <1>7
<1>9. /\ IsFiniteSet(typed) /\ Numbers(typed, "settled") /\ IsFiniteSet(mine)
      /\ mine \subseteq orders /\ paid \in SUBSET income
  <2>1. mine \subseteq orders
    BY <1>2, <1>3
  <2> QED BY <1>1, <2>1, FS_Subset DEF Numbers
<1> HIDE DEF typed, mine, orders, good, Of, paid
<1>10. SumOf(mine, "settled") = SumOf(grouped, "settled")
  <2>1. \A m \in mine : m["settled"] =
           SumOf(Alike(typed, TikTokKey, m), "settled")
    BY <1>1, <1>9
  <2>2. \A m, n \in mine : Restrict(m, TikTokKey) = Restrict(n, TikTokKey) => m = n
    BY <1>1, <1>9
  <2> QED BY <1>9, <2>1, <2>2, SumOfGroups
<1>11. SumOf(paid, "settled") \in Int
  BY <1>9, SumOfSome
<1> QED
  BY <1>8, <1>10, <1>11 DEF mine, good, orders, paid

\* TikTok: behind a run with no breach a store is invoiced what was settled for the
\* orders it has lines of.
LEMMA TikTokMoney ==
  ASSUME NEW dep \in Setups, dep.platform = "tiktok", NEW input \in SUBSET ExportsOf(dep),
         NEW w, NEW stores, Breaches(Settle(dep, input, w, stores).checks) = {},
         NEW s \in Stores(Settle(dep, input, w, stores).book.lines)
  PROVE  LET lines  == Settle(dep, input, w, stores).book.lines
             income == ReadIncome(dep.contract, input, w)
         IN  Abs(SumOf(OfStore(lines, s), "wv") - SumOf(PaidTo(s, lines, income), "settled"))
               <= Loosest(dep.contract, {"conservation", "perStore"})
<1> DEFINE c == PartialRoster(dep.contract, stores)
           relaxed == Relaxed(dep.contract, stores)
           income == ReadIncome(c, input, w)
           classified == ClassifyTikTok(income)
           good == Settled("tiktok", classified)
           found == ResolveOrders(c, input, w, good, "settled")
           sku == ComputeTikTok(c, Masters(dep).vat, ExplodeToSku(good, found.orders))
           checks == RunChecksTikTok(c, good, sku, found)
           work == Settle(dep, input, w, stores)
           Of(p, line) == Pair(line) = Pair(p) /\ line.created = p.created
<1>1. /\ IsFiniteSet(income) /\ Numbers(income, "settled")
      /\ \A x, y \in income : x.store = y.store => x.brand = y.brand
  BY SetupAmounts, IncomeAmounts DEF Amounts
<1>2. income = ReadIncome(dep.contract, input, w)
  BY IncomeOfRoster
<1>3. c.tolerance = dep.contract.tolerance /\ c.vatDefault = dep.contract.vatDefault
  BY RelaxedTolerance
<1>4. IsFiniteSet(found.orders) /\ \A k \in OrderAmounts : Numbers(found.orders, k)
  BY SetupAmounts, ResolvedAmounts
<1>5. work = WorkTikTok(c, Masters(dep), relaxed, classified, found)
  <2> HIDE DEF c, relaxed
  <2> QED BY DEF Settle, SettleTikTok, c, relaxed
<1> HIDE DEF c, income, found
<1>6. /\ IsFiniteSet(classified)
      /\ \A p \in good : /\ {"store", "order", "created", "status"} \subseteq DOMAIN p
                         /\ DOMAIN p \cap ({"sku"} \cup OrderAmounts) = {}
      /\ good \subseteq classified
  <2>1. good \subseteq classified
    BY DEF Settled
  <2>2. /\ IsFiniteSet(classified)
        /\ \A p \in classified :
             DOMAIN p = TikTokKey \cup {"day", "gross", "net", "refund", "settled",
                                        "listed", "refunded", "status"}
    BY <1>1, TikTokGroups
  <2> HIDE DEF classified, good
  <2> QED BY <2>1, <2>2 DEF TikTokKey, OrderAmounts
<1>7. IsFiniteSet(good)
  BY <1>6, FS_Subset
<1>8. work.checks = checks /\ work.book.lines = sku
  BY <1>5 DEF WorkTikTok, BuildTikTok
<1>20. s \in Stores(work.book.lines) /\ Breaches(work.checks) = {}
  OBVIOUS
<1> HIDE DEF work, good
<1>9. /\ IsFiniteSet(sku) /\ Numbers(sku, "wv")
      /\ \A line \in sku : \E p \in good : Of(p, line)
      /\ \A p \in good : Pair(p) \in Pairs(sku) => \E line \in sku : Of(p, line)
  BY <1>3, <1>4, <1>6, <1>7, TikTokLines
<1> HIDE DEF sku, checks
<1> DEFINE matched == Matched(good, Pairs(sku))
           gap == [x \in Stores(matched) |->
                     Abs(SumOf(OfStore(sku, x), "wv") - SumOf(OfStore(matched, x), "settled"))]
           worst == Largest({gap[x] : x \in Stores(matched)})
           most == Max({c.tolerance.conservation, c.tolerance.perStore})
           paid == {row \in income : \E line \in sku :
                      /\ row.store = s /\ row.store = line.store /\ row.order = line.order
                      /\ row.type = "Order" /\ row.created = line.created}
<1>10. Check("per store", worst, most) \in checks
  <2> DEFINE reference == Reference(good, Pairs(sku), "settled")
  <2>1. DOMAIN reference.perStore = Stores(matched)
        /\ \A x \in Stores(matched) : reference.perStore[x] = SumOf(OfStore(matched, x), "settled")
    BY DEF Reference
  <2>2. {Abs(SumOf(OfStore(sku, x), "wv") - reference.perStore[x]) : x \in DOMAIN reference.perStore}
          = {gap[x] : x \in Stores(matched)}
    <3> HIDE DEF reference, matched
    <3> QED BY <2>1
  <2>3. ConservationChecks(c, sku, reference, "settled") \subseteq checks
    BY DEF checks, RunChecksTikTok
  <2>4. sku # {}
    BY <1>8, <1>20 DEF Stores
  <2> HIDE DEF reference, gap, matched
  <2> QED BY <2>2, <2>3, <2>4 DEF ConservationChecks
<1>11. s \in Stores(matched)
  <2>1. PICK line \in sku : line.store = s
    BY <1>8, <1>20 DEF Stores
  <2>2. PICK p \in good : Of(p, line)
    BY <1>9
  <2> QED BY <2>1, <2>2 DEF Stores, Matched, Pairs, Pair
<1>12. /\ SumOf(OfStore(matched, s), "settled") = SumOf(paid, "settled")
  BY <1>1, <1>9, MatchedIsPaid DEF good
<1>13. \A x \in Stores(matched) : gap[x] \in Int
  <2> SUFFICES ASSUME NEW x \in Stores(matched) PROVE gap[x] \in Int
    OBVIOUS
  <2>1. SumOf(OfStore(matched, x), "settled") \in Int
    BY <1>1, <1>9, MatchedIsPaid DEF good
  <2>2. SumOf(OfStore(sku, x), "wv") \in Int
    BY <1>9, SumOfSome DEF OfStore
  <2> HIDE DEF matched
  <2> QED BY <2>1, <2>2 DEF Abs
<1>14. IsFiniteSet(Stores(matched))
  <2>1. IsFiniteSet(matched)
    BY <1>7, FS_Subset DEF Matched
  <2> DEFINE g == [row \in matched |-> row.store]
  <2>2. Stores(matched) = {g[row] : row \in matched} /\ DOMAIN g = matched
    BY DEF Stores
  <2> HIDE DEF g, matched
  <2> QED BY <2>1, <2>2, FiniteImage
<1> HIDE DEF gap, matched
<1>15. gap[s] <= worst /\ worst \in Int
  BY <1>11, <1>13, <1>14, LargestIs
<1>16. Abs(worst) <= most
  <2> HIDE DEF worst, most
  <2> QED BY <1>8, <1>10, <1>20, Passed
<1>17. most \in Int
  <2> DEFINE T == {dep.contract.tolerance.conservation, dep.contract.tolerance.perStore}
  <2>1. T \subseteq Int /\ T # {} /\ IsFiniteSet(T)
    BY AmountsAssumption, FinitePair
  <2> HIDE DEF T
  <2>2. Max(T) \in Int
    BY <2>1, MaxIs
  <2> QED BY <1>3, <2>2 DEF T
<1>18. gap[s] <= most
  <2> HIDE DEF worst, most
  <2> QED BY <1>11, <1>13, <1>15, <1>16, <1>17 DEF Abs
<1>19. gap[s] = Abs(SumOf(OfStore(sku, s), "wv") - SumOf(paid, "settled"))
  BY <1>11, <1>12 DEF gap
<1> HIDE DEF most, paid
<1>21. Abs(SumOf(OfStore(sku, s), "wv") - SumOf(paid, "settled")) <= most
  BY <1>18, <1>19
<1>22. paid = PaidTo(s, sku, income)
  BY DEF paid, PaidTo, OfSame
<1>23. most = Loosest(dep.contract, {"conservation", "perStore"})
  <2>1. \A f : {f[t] : t \in {"conservation", "perStore"}} = {f.conservation, f.perStore}
    OBVIOUS
  <2> QED BY <1>3, <2>1 DEF most, Loosest
<1> QED
  BY <1>2, <1>8, <1>21, <1>22, <1>23 DEF work

-----------------------------------------------------------------------------
(* Shopee: order by order. *)

\* The lines of Shopee's orders: an order's are of its status, and those of an
\* order number of one store are of one order.
LEMMA ShopeeLines ==
  ASSUME NEW dep \in Setups, NEW c, c.vatDefault = dep.contract.vatDefault,
         NEW classified, IsFiniteSet(classified), Numbers(classified, "vouchers"),
         \A p \in classified : /\ {"store", "order", "vouchers", "status"} \subseteq DOMAIN p
                               /\ DOMAIN p \cap ({"sku"} \cup OrderAmounts) = {},
         NEW orders, IsFiniteSet(orders), \A k \in OrderAmounts : Numbers(orders, k)
  PROVE  LET sku == ComputeShopee(c, Masters(dep).vat, ExplodeToSku(classified, orders))
         IN  /\ IsFiniteSet(sku) /\ Numbers(sku, "wv") /\ Numbers(sku, "pre")
             /\ Numbers(sku, "allocated")
             /\ \A line \in sku : \E p \in classified :
                  Pair(line) = Pair(p) /\ line.status = p.status
<1> DEFINE joined == ExplodeToSku(classified, orders)
           vat == Masters(dep).vat
           A(line) == Allocated(joined, line)
           T(line) == Priced(With(line, [allocated |-> A(line)]), NetOf(line) + A(line),
                             VatFactor(c, vat, line.sku))
           sku == ComputeShopee(c, vat, joined)
<1>1. sku = {T(line) : line \in joined}
  BY DEF ComputeShopee
<1>2. /\ IsFiniteSet(joined) /\ \A k \in OrderAmounts : Numbers(joined, k)
      /\ \A line \in joined : OrderAmounts \cup {"sku"} \subseteq DOMAIN line
  BY JoinedAmounts
<1>3. ASSUME NEW line \in joined
      PROVE  \E p \in classified : /\ Pair(line) = Pair(p) /\ line.status = p.status
                                   /\ line.vouchers = p.vouchers
                                   /\ {"store", "order", "status"} \subseteq DOMAIN line
  <2>1. PICK p \in classified, o \in OrderLines(orders) : Pair(p) = Pair(o) /\ line = With(o, p)
    BY JoinedPairs
  <2>2. /\ line.store = p.store /\ line.order = p.order /\ line.status = p.status
        /\ line.vouchers = p.vouchers /\ {"store", "order", "status"} \subseteq DOMAIN line
    BY <2>1, WithNew
  <2> QED BY <2>2 DEF Pair
<1>4. ASSUME NEW line \in joined PROVE A(line) \in Int /\ NetOf(line) \in Int
  <2>1. line.vouchers \in Int
    BY <1>3 DEF Numbers
  <2>2. \A l \in joined : NetOf(l) \in Int
    BY <1>2 DEF OrderAmounts, Numbers, NetOf
  <2> DEFINE mine == {l \in joined : Pair(l) = Pair(line)}
  <2>3. IsFiniteSet(mine) /\ \A k \in OrderAmounts : Numbers(mine, k)
    <3>1. mine \in SUBSET joined
      OBVIOUS
    <3> HIDE DEF mine, joined
    <3> QED BY <1>2, <3>1, FS_Subset DEF Numbers
  <2> DEFINE sale == MapThenSumSet(NetOf, mine)
  <2>4. sale \in Int
    <3> HIDE DEF mine
    <3> QED BY <2>3, SaleIsNumber
  <2>5. A(line) = IF sale = 0 THEN 0 ELSE Quotient(NetOf(line) * line.vouchers, sale)
    BY DEF Allocated
  <2> HIDE DEF sale, A, joined
  <2>6. NetOf(line) * line.vouchers \in Int
    BY <2>1, <2>2
  <2> QED BY <2>2, <2>4, <2>5, <2>6, QuotientIsNumber
<1>5. ASSUME NEW line \in joined
      PROVE  /\ T(line).wv \in Int /\ T(line).pre \in Int /\ T(line).allocated \in Int
             /\ Pair(T(line)) = Pair(line) /\ T(line).status = line.status
  <2>1. line.qty \in Int /\ "qty" \in DOMAIN line
    BY <1>2 DEF OrderAmounts, Numbers
  <2>2. VatFactor(c, vat, line.sku) \in Nat \ {0}
    BY RateOfSku
  <2>3. {"store", "order", "status"} \subseteq DOMAIN line
    BY <1>3
  <2> DEFINE share == [allocated |-> A(line)]
             amount == NetOf(line) + A(line)
             rate == VatFactor(c, vat, line.sku)
  <2>4. DOMAIN share = {"allocated"} /\ amount \in Int /\ rate \in Nat \ {0}
    BY <1>4, <2>2
  <2>8. share.allocated \in Int
    BY <1>4
  <2> DEFINE priced == Priced(With(line, share), amount, rate)
  <2>5. T(line) = priced
    OBVIOUS
  <2> HIDE DEF share, amount, rate, T, A
  <2>6. priced.wv \in Int /\ priced.pre \in Int
    BY <2>1, <2>4, PricedAmounts
  <2>9. priced.allocated = share.allocated
    BY <2>4, PricedShare
  <2>7. priced.store = line.store /\ priced.order = line.order /\ priced.status = line.status
    BY <2>3, <2>4, PricedKeeps
  <2> HIDE DEF priced
  <2> QED BY <2>5, <2>6, <2>7, <2>8, <2>9 DEF Pair
<1>6. IsFiniteSet(sku)
  <2> DEFINE g == [line \in joined |-> T(line)]
  <2>1. sku = {g[line] : line \in joined} /\ DOMAIN g = joined
    BY <1>1
  <2> HIDE DEF g, joined, sku
  <2> QED BY <1>2, <2>1, FiniteImage
<1> HIDE DEF T, sku, joined
<1>7. Numbers(sku, "wv") /\ Numbers(sku, "pre") /\ Numbers(sku, "allocated")
  BY <1>1, <1>5 DEF Numbers
<1>8. ASSUME NEW x \in sku PROVE \E p \in classified : Pair(x) = Pair(p) /\ x.status = p.status
  <2>1. PICK line \in joined : x = T(line)
    BY <1>1
  <2>2. PICK p \in classified : Pair(line) = Pair(p) /\ line.status = p.status
    BY <1>3
  <2> QED BY <1>5, <2>1, <2>2
<1> QED
  BY <1>6, <1>7, <1>8 DEF sku, joined

\* Shopee's orders, by the store and the number.
LEMMA ShopeePairs ==
  ASSUME NEW income, IsFiniteSet(income), Numbers(income, "refund"), Numbers(income, "vouchers"),
         \A x, y \in income : x.store = y.store => x.brand = y.brand
  PROVE  LET sales == {x \in income : x.type = "Order"}
             orders == ClassifyShopee(income)
         IN  /\ Numbers(orders, "vouchers")
             /\ \A p \in orders :
                  /\ Pair(p) \in Pairs(sales)
                  /\ p.refund = SumOf(OfOrder(sales, Pair(p)), "refund")
             /\ \A p, q \in orders : Pair(p) = Pair(q) => p = q
<1> DEFINE sales == {x \in income : x.type = "Order"}
           orders == ClassifyShopee(income)
<1>1. /\ \A row \in orders :
           /\ row.refund = SumOf(Alike(sales, ShopeeKey, row), "refund")
           /\ row.vouchers = SumOf(Alike(sales, ShopeeKey, row), "vouchers")
           /\ Alike(sales, ShopeeKey, row) # {}
      /\ \A m, n \in orders : Restrict(m, ShopeeKey) = Restrict(n, ShopeeKey) => m = n
  BY ShopeeGroups
<1>2. \A x, y : Restrict(x, ShopeeKey) = Restrict(y, ShopeeKey) <=>
                  \A k \in ShopeeKey : x[k] = y[k]
  BY DEF Restrict
<1>3. sales \in SUBSET income
  OBVIOUS
<1> HIDE DEF orders, sales
<1>4. ASSUME NEW p \in orders
      PROVE  \E x \in sales : \A k \in ShopeeKey : x[k] = p[k]
  <2>1. PICK x \in Alike(sales, ShopeeKey, p) : TRUE
    BY <1>1
  <2> QED BY <1>2, <2>1 DEF Alike
<1>5. ASSUME NEW p \in orders
      PROVE  /\ Alike(sales, ShopeeKey, p) = OfOrder(sales, Pair(p))
             /\ Pair(p) \in Pairs(sales)
  <2>1. PICK x \in sales : \A k \in ShopeeKey : x[k] = p[k]
    BY <1>4
  <2>2. x.store = p.store /\ x.order = p.order /\ x.brand = p.brand
    BY <2>1 DEF ShopeeKey
  <2>3. ASSUME NEW row \in sales
        PROVE  (\A k \in ShopeeKey : row[k] = p[k]) <=> Pair(row) = Pair(p)
    <3>1. row.store = p.store => row.brand = p.brand
      BY <1>3, <2>2
    <3> QED BY <3>1 DEF ShopeeKey, Pair
  <2> QED BY <1>2, <2>2, <2>3 DEF Alike, OfOrder, Pairs, Pair
<1>6. Numbers(orders, "vouchers")
  <2> SUFFICES ASSUME NEW p \in orders PROVE p.vouchers \in Int
    BY DEF Numbers
  <2> DEFINE alike == Alike(sales, ShopeeKey, p)
  <2>1. alike \in SUBSET income
    BY <1>3 DEF Alike
  <2> HIDE DEF alike
  <2>2. SumOf(alike, "vouchers") \in Int
    BY <2>1, SumOfSome
  <2> QED BY <1>1, <2>2 DEF alike
<1>7. ASSUME NEW p \in orders, NEW q \in orders, Pair(p) = Pair(q) PROVE p = q
  <2>1. PICK x \in sales : \A k \in ShopeeKey : x[k] = p[k]
    BY <1>4
  <2>2. PICK y \in sales : \A k \in ShopeeKey : y[k] = q[k]
    BY <1>4
  <2>3. p.store = q.store /\ p.order = q.order
    BY <1>7 DEF Pair
  <2>4. x.store = p.store /\ x.brand = p.brand /\ y.store = q.store /\ y.brand = q.brand
    BY <2>1, <2>2 DEF ShopeeKey
  <2>5. p.brand = q.brand
    BY <1>3, <2>3, <2>4
  <2>6. \A k \in ShopeeKey : p[k] = q[k]
    BY <2>3, <2>5 DEF ShopeeKey
  <2> QED BY <1>1, <1>2, <2>6
<1> QED
  BY <1>1, <1>5, <1>6, <1>7 DEF orders, sales

\* Shopee: behind a run with no breach an invoiced order whose lines all have a
\* quantity is invoiced at what its buyers paid and the platform added.
LEMMA ShopeeMoney ==
  ASSUME NEW dep \in Setups, dep.platform = "shopee", NEW input \in SUBSET ExportsOf(dep),
         NEW w, NEW stores, Breaches(Settle(dep, input, w, stores).checks) = {},
         \E f \in FilesOf(input, w, "income") : f.mapped,
         NEW line \in Settle(dep, input, w, stores).book.lines,
         \A l \in OfSame(Settle(dep, input, w, stores).book.lines, line) : l.qty # 0
  PROVE  LET mine == OfSame(Settle(dep, input, w, stores).book.lines, line)
             paid == SalesOf(line, ReadIncome(dep.contract, input, w))
         IN  Abs(SumOf(mine, "wv") - SumOf(mine, "allocated")
                   - SumOf(paid, "gross") - SumOf(paid, "subsidy"))
               <= Loosest(dep.contract, {"conservation"})
<1> DEFINE c == PartialRoster(dep.contract, stores)
           relaxed == Relaxed(dep.contract, stores)
           income == ReadIncome(c, input, w)
           sales == {x \in income : x.type = "Order"}
           classified == ClassifyShopee(income)
           found == ResolveOrders(c, input, w, classified, "net")
           sku == ComputeShopee(c, Masters(dep).vat, ExplodeToSku(classified, found.orders))
           ok == {l \in sku : l.status = "ok"}
           parts == FilesOf(input, w, "income")
           checks == RunChecksShopee(c, classified, parts, income, sku, found)
           work == Settle(dep, input, w, stores)
           pair == Pair(line)
<1>1. /\ IsFiniteSet(income) /\ \A k \in Amounts("income") : Numbers(income, k)
      /\ \A x, y \in income : x.store = y.store => x.brand = y.brand
  BY SetupAmounts, IncomeAmounts
<1>2. income = ReadIncome(dep.contract, input, w)
  BY IncomeOfRoster
<1>3. c.tolerance = dep.contract.tolerance /\ c.vatDefault = dep.contract.vatDefault
  BY RelaxedTolerance
<1>4. IsFiniteSet(found.orders) /\ \A k \in OrderAmounts : Numbers(found.orders, k)
  BY SetupAmounts, ResolvedAmounts
<1>5. work = WorkShopee(c, Masters(dep), relaxed, FilesOf(input, w, "income"), income, classified, found)
  <2> HIDE DEF c, relaxed
  <2> QED BY DEF Settle, SettleShopee, c, relaxed
<1> HIDE DEF c, income, found
<1>6. /\ IsFiniteSet(classified)
      /\ \A p \in classified :
           /\ {"store", "order", "vouchers", "status"} \subseteq DOMAIN p
           /\ DOMAIN p \cap ({"sku"} \cup OrderAmounts) = {}
           /\ p.status = "ok" => p.refund = 0
  <2>1. /\ IsFiniteSet(classified)
        /\ \A p \in classified :
             /\ DOMAIN p = ShopeeKey \cup {"day", "created", "net", "refund", "gross",
                                           "vouchers", "status"}
             /\ p.status = "ok" => p.refund = 0
    BY <1>1, ShopeeGroups
  <2> HIDE DEF classified
  <2> QED BY <2>1 DEF ShopeeKey, OrderAmounts
<1>7. /\ Numbers(classified, "vouchers")
      /\ \A p \in classified :
           /\ Pair(p) \in Pairs(sales)
           /\ p.refund = SumOf(OfOrder(sales, Pair(p)), "refund")
      /\ \A p, q \in classified : Pair(p) = Pair(q) => p = q
  BY <1>1, ShopeePairs DEF Amounts
<1>8. work.checks = checks /\ work.book.lines = ok
  BY <1>5 DEF WorkShopee, BuildShopee
<1>9. /\ line \in work.book.lines /\ Breaches(work.checks) = {}
      /\ \A l \in work.book.lines : l.store = line.store /\ l.order = line.order => l.qty # 0
  BY DEF OfSame
<1> HIDE DEF work, classified
<1>10. /\ IsFiniteSet(sku) /\ Numbers(sku, "wv") /\ Numbers(sku, "allocated")
       /\ \A l \in sku : \E p \in classified : Pair(l) = Pair(p) /\ l.status = p.status
  BY <1>3, <1>4, <1>6, <1>7, ShopeeLines
<1> HIDE DEF sku, checks, sales
<1>11. PICK p \in classified : pair = Pair(p) /\ p.status = "ok"
  BY <1>8, <1>9, <1>10
<1>12. \A l \in sku : Pair(l) = pair => l.status = "ok"
  BY <1>7, <1>10, <1>11
<1>13. /\ \A l \in sku : Pair(l) = pair => l.qty # 0
       /\ OfOrder(sku, pair) = {l \in ok : l.store = line.store /\ l.order = line.order}
  BY <1>8, <1>9, <1>12 DEF Pair, OfOrder
<1> DEFINE crossing == RevenueCrossing(income)
           held == ZeroQuantityOrders(sku)
           both == DOMAIN crossing.perOrder \ held
           Mine(q) == SumOf(OfOrder(sku, q), "wv") - SumOf(OfOrder(sku, q), "allocated")
           Revenue(q) == SumOf(OfOrder(sales, q), "gross") + SumOf(OfOrder(sales, q), "subsidy")
           gap == [q \in both |-> Abs(Mine(q) - crossing.perOrder[q])]
           worst == Largest({gap[q] : q \in both})
           most == c.tolerance.conservation
<1>14. /\ DOMAIN crossing.perOrder = {q \in Pairs(sales) : SumOf(OfOrder(sales, q), "refund") = 0}
       /\ \A q \in DOMAIN crossing.perOrder : crossing.perOrder[q] = Revenue(q)
  BY DEF RevenueCrossing, sales
<1>15. pair \in both
  <2>1. pair \in DOMAIN crossing.perOrder
    <3> HIDE DEF crossing
    <3> QED BY <1>6, <1>7, <1>11, <1>14
  <2>2. pair \notin held
    BY <1>13 DEF ZeroQuantityOrders, Pairs
  <2> QED BY <2>1, <2>2
<1>16. Check("crossing per order", worst, most) \in checks
  <2>1. {Abs(Mine(q) - crossing.perOrder[q]) : q \in both} = {gap[q] : q \in both}
    <3> HIDE DEF both, crossing, Mine
    <3> QED OBVIOUS
  <2>2. CrossingChecks(c, sku, crossing) \subseteq checks
    BY DEF checks, RunChecksShopee, CrossingBuilt
  <2>3. sku # {}
    BY <1>8, <1>9
  <2> HIDE DEF gap, crossing
  <2> QED BY <2>1, <2>2, <2>3 DEF CrossingChecks
<1>17. IsFiniteSet(sales) /\ Numbers(sales, "gross") /\ Numbers(sales, "subsidy")
  BY <1>1, FS_Subset DEF sales, Amounts, Numbers
<1>18. ASSUME NEW q PROVE Mine(q) \in Int /\ Revenue(q) \in Int
  <2> DEFINE x == OfOrder(sku, q)
             y == OfOrder(sales, q)
  <2>1. x \in SUBSET sku /\ y \in SUBSET sales
    BY DEF OfOrder
  <2> HIDE DEF x, y
  <2>2. SumOf(x, "wv") \in Int /\ SumOf(x, "allocated") \in Int
    BY <1>10, <2>1, SumOfSome
  <2>3. SumOf(y, "gross") \in Int /\ SumOf(y, "subsidy") \in Int
    BY <1>17, <2>1, SumOfSome
  <2> QED BY <2>2, <2>3 DEF x, y
<1>19. IsFiniteSet(both)
  <2> DEFINE g == [row \in sales |-> Pair(row)]
  <2>1. Pairs(sales) = {g[row] : row \in sales} /\ DOMAIN g = sales
    BY DEF Pairs
  <2>2. both \subseteq Pairs(sales)
    BY <1>14
  <2> HIDE DEF g, both
  <2>3. IsFiniteSet(Pairs(sales))
    BY <1>17, <2>1, FiniteImage
  <2> QED BY <2>2, <2>3, FS_Subset
<1> HIDE DEF crossing, held, Mine, Revenue
<1>20. \A q \in both : gap[q] = Abs(Mine(q) - Revenue(q)) /\ gap[q] \in Int
  BY <1>14, <1>18 DEF Abs
<1> HIDE DEF gap, both
<1>21. gap[pair] <= worst /\ worst \in Int
  BY <1>15, <1>19, <1>20, LargestIs
<1>22. most \in Int
  BY <1>3, AmountsAssumption
<1> HIDE DEF worst, most
<1>23. Abs(worst) <= most
  BY <1>8, <1>9, <1>16, Passed
<1>24. Max({most}) = most
  BY <1>22 DEF Max
<1>25. Abs(Mine(pair) - Revenue(pair)) <= Max({most})
  BY <1>15, <1>20, <1>21, <1>22, <1>23, <1>24 DEF Abs
<1> DEFINE mine == OfSame(ok, line)
           paid == SalesOf(line, income)
<1>26. OfOrder(sku, pair) = mine /\ OfOrder(sales, pair) = paid
  BY <1>13 DEF OfOrder, Pair, sales, OfSame, SalesOf
<1> HIDE DEF mine, paid
<1>27. Mine(pair) - Revenue(pair)
         = SumOf(mine, "wv") - SumOf(mine, "allocated") - SumOf(paid, "gross") - SumOf(paid, "subsidy")
  <2>1. Mine(pair) = SumOf(mine, "wv") - SumOf(mine, "allocated")
    BY <1>26 DEF Mine
  <2>2. Revenue(pair) = SumOf(paid, "gross") + SumOf(paid, "subsidy")
    BY <1>26 DEF Revenue
  <2>3. mine \in SUBSET sku /\ paid \in SUBSET income
    BY DEF mine, paid, OfSame, SalesOf
  <2>4. SumOf(mine, "wv") \in Int /\ SumOf(mine, "allocated") \in Int
    BY <1>10, <2>3, SumOfSome
  <2>5. SumOf(paid, "gross") \in Int /\ SumOf(paid, "subsidy") \in Int
    BY <1>1, <2>3, SumOfSome DEF Amounts
  <2> HIDE DEF pair
  <2> QED BY <2>1, <2>2, <2>4, <2>5
<1>28. Max({most}) = Loosest(dep.contract, {"conservation"})
  <2>1. \A f : {f[t] : t \in {"conservation"}} = {f.conservation}
    OBVIOUS
  <2> QED BY <1>3, <2>1 DEF most, Loosest
<1> QED
  BY <1>2, <1>8, <1>25, <1>27, <1>28 DEF work, mine, paid

\* ... and where no income part has the product subsidy its checks say that
\* the money is not verified.
LEMMA ShopeeUnverified ==
  ASSUME NEW dep, dep.platform = "shopee", NEW input, NEW w, NEW stores,
         ~CrossingBuilt(FilesOf(input, w, "income"))
  PROVE  MoneyNotVerified \in Settle(dep, input, w, stores).checks
<1> DEFINE c == PartialRoster(dep.contract, stores)
           relaxed == Relaxed(dep.contract, stores)
           parts == FilesOf(input, w, "income")
           income == ReadIncome(c, input, w)
           classified == ClassifyShopee(income)
           found == ResolveOrders(c, input, w, classified, "net")
           sku == ComputeShopee(c, Masters(dep).vat, ExplodeToSku(classified, found.orders))
<1>1. Settle(dep, input, w, stores).checks = RunChecksShopee(c, classified, parts, income, sku, found)
  <2> HIDE DEF c, relaxed
  <2> QED BY DEF Settle, SettleShopee, WorkShopee, c, relaxed
<1> HIDE DEF c, classified, income, sku, found
<1> QED
  BY <1>1 DEF RunChecksShopee

-----------------------------------------------------------------------------
(* Lazada: the ledger as a whole. *)

\* What tells revenue lines apart.
LineKey == {"store", "order", "sku"}

\* A window's ledger rows, classified, have numbers and rates.
LEMMA LedgerAmounts ==
  ASSUME NEW dep \in Setups, NEW c, c.vatDefault = dep.contract.vatDefault,
         NEW input \in SUBSET ExportsOf(dep), NEW w
  PROVE  LET classified == ClassifyLedger(c, FeeMasters(dep), ReadLedger(LedgerFiles(input, w)))
         IN  /\ IsFiniteSet(classified)
             /\ Numbers(classified, "amount")
             /\ \A row \in classified : row.rate \in Nat \ {0}
<1> DEFINE files == LedgerFiles(input, w)
           masters == FeeMasters(dep)
           read == ReadFiles(files)
           ledger == ReadLedger(files)
           New(row) == [bucket |-> BucketOf(masters.fees, row.fee),
                        rate   |-> VatFactor(c, masters.vat, row.sku)]
           classified == ClassifyLedger(c, masters, ledger)
<1>1. IsFiniteSet(input) /\ \A f \in input : IsFiniteSet(f.rows)
  BY SetupFiles
<1>2. files \in SUBSET input /\ \A f \in files : f.kind \in LedgerKinds
  BY DEF LedgerFiles, FilesOf
<1>3. HasAmounts("weekly", files)
  <2>1. IsFiniteSet(files)
    BY <1>1, <1>2, FS_Subset
  <2>2. \A kind \in LedgerKinds : Columns(kind) = Columns("weekly") /\ Amounts(kind) = Amounts("weekly")
    BY DEF LedgerKinds, Columns, Amounts
  <2>3. \A f \in input : \A r \in f.rows :
          /\ Columns(f.kind) \ Unmapped(f) \subseteq DOMAIN r
          /\ \A k \in Amounts(f.kind) \ Unmapped(f) : r[k] \in Int \cup {Unreadable}
    BY AmountsAssumption
  <2> HIDE DEF files
  <2> QED BY <1>1, <1>2, <2>1, <2>2, <2>3 DEF HasAmounts
<1>4. IsFiniteSet(classified)
  BY <1>1, <1>2, <1>3, FiniteLedger DEF HasAmounts
<1> HIDE DEF files, masters
<1>5. ASSUME NEW row \in ledger PROVE "amount" \in DOMAIN row /\ row.amount \in Int
  <2>1. PICK x \in read : row = [x EXCEPT !.amount = ToNumber(x.amount)]
    BY DEF ReadLedger
  <2>2. /\ Columns("weekly") \cup {"store"} \subseteq DOMAIN x
        /\ \A k \in Amounts("weekly") : x[k] \in Int \cup {Unreadable}
    BY <1>3, RowsReadHave
  <2>3. "amount" \in DOMAIN x /\ x.amount \in Int \cup {Unreadable}
    BY <2>2 DEF Columns, Amounts
  <2>4. ToNumber(x.amount) \in Int
    BY <2>3 DEF ToNumber
  <2> QED BY <2>1, <2>3, <2>4
<1>6. classified = {With(row, New(row)) : row \in ledger}
  BY DEF ClassifyLedger
<1>7. ASSUME NEW row \in ledger
      PROVE  /\ With(row, New(row)).amount \in Int
             /\ With(row, New(row)).rate \in Nat \ {0}
  <2> DEFINE new == New(row)
  <2>1. DOMAIN new = {"bucket", "rate"} /\ new.rate = VatFactor(c, masters.vat, row.sku)
    OBVIOUS
  <2>2. VatFactor(c, masters.vat, row.sku) \in Nat \ {0}
    BY RateOfSku DEF masters
  <2> HIDE DEF new
  <2>3. With(row, new).amount = row.amount
    BY <1>5, <2>1, WithOld
  <2>4. With(row, new).rate = new.rate
    BY <2>1, WithNew
  <2> QED BY <1>5, <2>1, <2>2, <2>3, <2>4 DEF new
<1> HIDE DEF New, ledger, classified
<1>8. Numbers(classified, "amount") /\ \A row \in classified : row.rate \in Nat \ {0}
  BY <1>6, <1>7 DEF Numbers
<1> QED
  BY <1>4, <1>8 DEF classified, ledger, masters, files

\* Rounding a quotient by a positive number gives a number.
LEMMA RoundedIsNumber ==
  ASSUME NEW p \in Int, NEW q \in Nat \ {0}
  PROVE  RoundHalfAway(p, q) \in Int
BY DEF RoundHalfAway

\* The product of two positive numbers is positive.
LEMMA ProductIsPositive ==
  ASSUME NEW m \in Nat \ {0}, NEW n \in Nat \ {0}
  PROVE  m * n \in Nat \ {0}
OBVIOUS

\* A revenue line has numbers, and carries the promotions with its key.
LEMMA RevenueLineAmounts ==
  ASSUME NEW c, NEW classified, IsFiniteSet(classified), Numbers(classified, "amount"),
         \A row \in classified : row.rate \in Nat \ {0},
         NEW key \in Groups(RevenueRows(c, classified), LineKey)
  PROVE  LET line == RevenueLine(c, classified, key)
         IN  /\ line.wv \in Int /\ line.pre \in Int /\ line.qty \in Nat \ {0}
             /\ line.rate \in Nat \ {0} /\ line.wv = (line.pre * line.rate) \div 100
             /\ DOMAIN key = LineKey /\ Restrict(line, LineKey) = key
             /\ line.promo = SumOf(Members(PromoRows(c, classified), key), "amount")
             /\ DOMAIN line = LineKey \cup {"qty", "credits", "promo", "rate", "price", "pre", "wv"}
<1> DEFINE revenue == RevenueRows(c, classified)
           rows == Members(revenue, key)
           promos == Members(PromoRows(c, classified), key)
           promo == SumOf(promos, "amount")
           credits == SumOf(rows, "amount")
           qty == Cardinality(rows)
           rates == {row.rate : row \in rows}
           rate == Max(rates)
           price == RoundHalfAway((credits + promo) * 100, qty * rate)
           new == [qty |-> qty, credits |-> credits, promo |-> promo, rate |-> rate,
                   price |-> price, pre |-> price * qty, wv |-> (price * qty * rate) \div 100]
           line == RevenueLine(c, classified, key)
<1>1. DOMAIN key = LineKey /\ \E row \in revenue : \A k \in LineKey : key[k] = row[k]
  BY GroupsOfRows
<1>2. rows # {}
  <2>1. PICK row \in revenue : key = Restrict(row, LineKey)
    BY DEF Groups
  <2> QED BY <1>1, <2>1 DEF Members
<1>3. rows \in SUBSET classified /\ promos \in SUBSET classified
  BY DEF Members, RevenueRows, PromoRows
<1>4. line = With(key, new)
  BY DEF RevenueLine
<1> HIDE DEF rows, promos, line
<1>5. promo \in Int /\ credits \in Int
  BY <1>3, SumOfSome
<1>6. qty \in Nat \ {0}
  <2>1. IsFiniteSet(rows)
    BY <1>3, FS_Subset
  <2> QED BY <1>2, <2>1, FS_CardinalityType, FS_EmptySet
<1>7. rate \in Nat \ {0}
  <2> DEFINE g == [row \in rows |-> row.rate]
  <2>1. rates = {g[row] : row \in rows} /\ DOMAIN g = rows
    OBVIOUS
  <2>2. IsFiniteSet(rows)
    BY <1>3, FS_Subset
  <2>3. rates \subseteq Nat \ {0} /\ rates # {}
    BY <1>2, <1>3
  <2> HIDE DEF g, rates
  <2>4. IsFiniteSet(rates)
    BY <2>1, <2>2, FiniteImage
  <2>5. rates \subseteq Int
    BY <2>3
  <2>6. rate \in rates
    BY <2>3, <2>4, <2>5, MaxIs
  <2> QED BY <2>3, <2>6
<1> HIDE DEF promo, credits, qty, rate
<1>8. price \in Int
  <2>1. qty * rate \in Nat \ {0}
    BY <1>6, <1>7, ProductIsPositive
  <2>2. (credits + promo) * 100 \in Int
    BY <1>5
  <2> QED BY <2>1, <2>2, RoundedIsNumber
<1> HIDE DEF price
<1>9. /\ DOMAIN new = {"qty", "credits", "promo", "rate", "price", "pre", "wv"}
      /\ new.qty = qty /\ new.rate = rate /\ new.promo = promo
      /\ new.pre = price * qty /\ new.wv = (price * qty * rate) \div 100
  OBVIOUS
<1>10. price * qty \in Int /\ (price * qty) * rate \in Int
  BY <1>6, <1>7, <1>8
<1>11. new.pre \in Int /\ new.wv \in Int /\ new.wv = (new.pre * new.rate) \div 100
  BY <1>9, <1>10
<1> HIDE DEF new
<1>12. /\ line.qty = new.qty /\ line.rate = new.rate /\ line.promo = new.promo
       /\ line.pre = new.pre /\ line.wv = new.wv
  BY <1>4, <1>9, WithNew
<1>13. \A k \in LineKey : line[k] = key[k]
  BY <1>1, <1>4, <1>9, WithOld DEF LineKey
<1>14. Restrict(line, LineKey) = key
  BY <1>1, <1>13, GroupMembers
<1>15. DOMAIN line = LineKey \cup {"qty", "credits", "promo", "rate", "price", "pre", "wv"}
  BY <1>1, <1>4, <1>9 DEF With
<1> QED
  BY <1>1, <1>6, <1>7, <1>9, <1>11, <1>12, <1>14, <1>15 DEF line, promo, promos

\* Lazada: behind a run with no breach the lines, and what has no order, come to
\* the ledger's credits net of the promotions that a line was paired with.
LEMMA LazadaMoney ==
  ASSUME NEW dep \in Setups, dep.platform = "lazada", NEW input \in SUBSET ExportsOf(dep),
         NEW w, NEW stores, Breaches(Settle(dep, input, w, stores).checks) = {}
  PROVE  LET work == Settle(dep, input, w, stores)
         IN  LedgerAgrees(dep.contract, work.book.lines, work.classified)
<1> DEFINE c == PartialRoster(dep.contract, stores)
           relaxed == Relaxed(dep.contract, stores)
           masters == FeeMasters(dep)
           classified == ClassifyLedger(c, masters, ReadLedger(LedgerFiles(input, w)))
           all == RevenueLines(c, classified)
           checks == RunChecksLazada(c, classified, all)
           work == Settle(dep, input, w, stores)
           revenue == RevenueRows(c, classified)
           promos == PromoRows(c, classified)
           orderless == {line \in all : line.order = NoOrder}
           dropped == {line \in all : line.order = NoOrder \/ line.qty <= 0}
           paired == {row \in promos : \E x \in OfSame(revenue, row) : x.sku = row.sku}
           keys == Groups(revenue, LineKey)
           Line(key) == RevenueLine(c, classified, key)
           most == Max({c.tolerance.conservation, c.tolerance.priceRounding})
<1>1. /\ c.tolerance = dep.contract.tolerance /\ c.vatDefault = dep.contract.vatDefault
      /\ c.revenueBucket = dep.contract.revenueBucket
      /\ c.promoBuckets = dep.contract.promoBuckets
  BY RelaxedTolerance
<1>2. /\ IsFiniteSet(classified) /\ Numbers(classified, "amount")
      /\ \A row \in classified : row.rate \in Nat \ {0}
  BY <1>1, LedgerAmounts
<1>3. work.checks = checks /\ work.classified = classified /\ work.book.lines = all \ dropped
  <2>1. work = SettleLedger(c, masters, input, w, relaxed)
    <3> HIDE DEF c, relaxed, masters
    <3> QED BY DEF Settle, c, relaxed, masters
  <2> HIDE DEF c, masters
  <2> QED BY <2>1 DEF SettleLedger, BuildLazada
<1>4. Breaches(work.checks) = {}
  OBVIOUS
<1> HIDE DEF work, classified, c
<1>5. all = {Line(key) : key \in keys}
  BY DEF RevenueLines, LineKey
<1>6. revenue \in SUBSET classified /\ promos \in SUBSET classified /\ paired \in SUBSET promos
  BY DEF RevenueRows, PromoRows
<1> HIDE DEF revenue, promos
<1>7. ASSUME NEW key \in keys
      PROVE  /\ Line(key).wv \in Int /\ Line(key).qty \in Nat \ {0}
             /\ Restrict(Line(key), LineKey) = key
             /\ Line(key).promo = SumOf(Alike(promos, LineKey, Line(key)), "amount")
  <2> DEFINE line == Line(key)
  <2>1. /\ line.wv \in Int /\ line.qty \in Nat \ {0}
        /\ DOMAIN key = LineKey /\ Restrict(line, LineKey) = key
        /\ line.promo = SumOf(Members(promos, key), "amount")
    BY <1>2, RevenueLineAmounts DEF promos, revenue
  <2> HIDE DEF line
  <2>2. Members(promos, key) = Alike(promos, LineKey, line)
    BY <2>1 DEF Members, Alike
  <2> QED BY <2>1, <2>2 DEF line
<1> HIDE DEF Line
<1>8. IsFiniteSet(all)
  <2> DEFINE g == [key \in keys |-> Line(key)]
  <2>1. all = {g[key] : key \in keys} /\ DOMAIN g = keys
    BY <1>5
  <2>2. IsFiniteSet(revenue)
    BY <1>2, <1>6, FS_Subset
  <2>3. IsFiniteSet(keys)
    BY <2>2, FiniteGroups
  <2> HIDE DEF g, keys, all
  <2> QED BY <2>1, <2>3, FiniteImage
<1> HIDE DEF all, keys
<1>9. /\ Numbers(all, "wv") /\ dropped = orderless
      /\ \A line \in all : line.promo = SumOf(Alike(promos, LineKey, line), "amount")
      /\ \A m, n \in all : Restrict(m, LineKey) = Restrict(n, LineKey) => m = n
  <2>1. \A line \in all : \E key \in keys : line = Line(key)
    BY <1>5
  <2>2. \A line \in all : line.wv \in Int /\ line.qty \in Nat \ {0}
    BY <1>7, <2>1
  <2>3. dropped = orderless
    <3>1. \A line \in all : ~(line.qty <= 0)
      BY <2>2
    <3> QED BY <3>1
  <2>4. \A m, n \in all : Restrict(m, LineKey) = Restrict(n, LineKey) => m = n
    BY <1>7, <2>1
  <2> QED BY <1>7, <2>1, <2>2, <2>3, <2>4 DEF Numbers
<1>10. IsFiniteSet(promos) /\ Numbers(promos, "amount")
  BY <1>2, <1>6, FS_Subset DEF Numbers
<1>11. SumOf(all, "promo") = SumOf(Covered(promos, LineKey, all), "amount")
  BY <1>8, <1>9, <1>10, SumOfGroups
<1>12. \A x, y : Restrict(x, LineKey) = Restrict(y, LineKey) <=>
                   x.store = y.store /\ x.order = y.order /\ x.sku = y.sku
  BY DEF Restrict, LineKey
<1>13. Covered(promos, LineKey, all) = paired
  <2>1. ASSUME NEW row \in promos, NEW line \in all, Restrict(row, LineKey) = Restrict(line, LineKey)
        PROVE  row \in paired
    <3>1. PICK key \in keys : line = Line(key)
      BY <1>5
    <3>2. PICK x \in revenue : key = Restrict(x, LineKey)
      BY DEF keys, Groups
    <3>3. Restrict(x, LineKey) = Restrict(row, LineKey)
      BY <1>7, <2>1, <3>1, <3>2
    <3>4. x.store = row.store /\ x.order = row.order /\ x.sku = row.sku
      BY <1>12, <3>3
    <3> QED BY <3>4 DEF OfSame
  <2>2. ASSUME NEW row \in promos, NEW x \in revenue,
               x.store = row.store, x.order = row.order, x.sku = row.sku
        PROVE  \E line \in all : Restrict(row, LineKey) = Restrict(line, LineKey)
    <3> DEFINE key == Restrict(x, LineKey)
    <3>1. key \in keys /\ key = Restrict(row, LineKey)
      BY <1>12, <2>2 DEF keys, Groups
    <3> HIDE DEF key
    <3>2. Line(key) \in all /\ Restrict(Line(key), LineKey) = key
      BY <1>5, <1>7, <3>1
    <3> QED BY <3>1, <3>2
  <2> QED BY <2>1, <2>2 DEF Covered, OfSame
<1> DEFINE booked == SumOf(revenue, "amount") + SumOf(all, "promo")
           variance == SumOf(all, "wv") - booked
<1>14. Check("ledger", variance, most) \in checks
  BY DEF RunChecksLazada, revenue
<1>15. Abs(variance) <= most
  <2> HIDE DEF variance, most, checks
  <2> QED BY <1>3, <1>4, <1>14, Passed
<1>16. SumOf(all, "wv") = SumOf(orderless, "wv") + SumOf(all \ orderless, "wv")
  BY <1>8, <1>9, SumOfBoth
<1>17. SumOf(orderless, "wv") \in Int /\ SumOf(all \ orderless, "wv") \in Int
  <2>1. orderless \in SUBSET all /\ all \ orderless \in SUBSET all
    OBVIOUS
  <2> HIDE DEF orderless
  <2> QED BY <1>8, <1>9, <2>1, SumOfSome
<1>18. SumOf(revenue, "amount") \in Int /\ SumOf(paired, "amount") \in Int
  <2>1. paired \in SUBSET classified
    BY <1>6
  <2> HIDE DEF paired
  <2> QED BY <1>2, <1>6, <2>1, SumOfSome
<1>19. variance = SumOf(all \ orderless, "wv") + SumOf(orderless, "wv")
                    - SumOf(revenue, "amount") - SumOf(paired, "amount")
  <2>1. SumOf(all, "promo") = SumOf(paired, "amount")
    BY <1>11, <1>13
  <2> HIDE DEF orderless, paired
  <2> QED BY <1>16, <1>17, <1>18, <2>1
<1> HIDE DEF variance, dropped
<1>20. work.book.lines = all \ orderless
  BY <1>3, <1>9
<1>21. /\ revenue = RevenueRows(dep.contract, classified)
       /\ promos = PromoRows(dep.contract, classified)
       /\ all = RevenueLines(dep.contract, classified)
  <2>1. /\ revenue = RevenueRows(dep.contract, classified)
        /\ promos = PromoRows(dep.contract, classified)
    BY <1>1 DEF RevenueRows, PromoRows, revenue, promos
  <2>2. \A key : RevenueLine(c, classified, key) = RevenueLine(dep.contract, classified, key)
    BY <2>1 DEF RevenueLine, revenue, promos
  <2> QED BY <2>1, <2>2 DEF RevenueLines, all, revenue
<1>22. Abs(SumOf(all \ orderless, "wv") + SumOf(orderless, "wv")
             - SumOf(revenue, "amount") - SumOf(paired, "amount")) <= most
  BY <1>15, <1>19
<1>23. most = Loosest(dep.contract, {"conservation", "priceRounding"})
  <2>1. \A f : {f[t] : t \in {"conservation", "priceRounding"}} = {f.conservation, f.priceRounding}
    OBVIOUS
  <2> QED BY <1>1, <2>1 DEF Loosest
<1> HIDE DEF most
<1>24. LedgerAgrees(dep.contract, all \ orderless, classified)
  BY <1>21, <1>22, <1>23 DEF LedgerAgrees
<1> QED
  BY <1>3, <1>20, <1>24 DEF work

-----------------------------------------------------------------------------
(* What a run without a variance says. *)

\* A run without a variance has no check that is a breach.
LEMMA CleanHasNoBreach ==
  ASSUME NEW dep, NEW work, NEW masters, NEW team, NEW unchecked,
         Status(Variances(dep, work, masters, team), unchecked) # "variance"
  PROVE  Breaches(work.checks) = {}
<1> DEFINE variances == Variances(dep, work, masters, team)
<1>1. variances = {}
  <2>1. Status(variances, unchecked) # "variance"
    OBVIOUS
  <2> HIDE DEF variances
  <2> QED BY <2>1 DEF Status
<1>2. \A row \in Breaches(work.checks) : <<"TIE-OUT", row.check>> \in Variances(dep, work, masters, team)
  BY DEF Variances
<1> QED
  BY <1>1, <1>2

\* Behind a run without a variance the invoice is what was settled, within the
\* contract's tolerance: store by store on TikTok, order by order on Shopee, on
\* Lazada as a whole.  (pipeline.py: consume_tieout, tieout.py: run_checks,
\* lazada.py: run_checks_lazada.)
THEOREM MoneyAgrees == Spec => []CleanMeansMoneyAgrees
<1>1. RunsAreResults => CleanMeansMoneyAgrees
  <2> SUFFICES ASSUME RunsAreResults, NEW w \in setup.windows, Produced(w),
                      outcome[w].status # "variance"
               PROVE  LET r      == outcome[w]
                          income == ReadIncome(setup.contract, r.asked.input, w)
                      IN  CASE setup.platform = "tiktok" ->
                                 StoresAgree(setup.contract, r.book.lines, income)
                            [] setup.platform = "shopee" ->
                                 IF \E f \in FilesOf(r.asked.input, w, "income") : f.mapped
                                 THEN OrdersAgree(setup.contract, r.book.lines, income)
                                 ELSE MoneyNotVerified \in r.checks
                            [] OTHER -> LedgerAgrees(setup.contract, r.book.lines, r.classified)
    BY DEF CleanMeansMoneyAgrees
  <2> DEFINE asked == outcome[w].asked
  <2>1. /\ setup \in Setups /\ asked.input \in SUBSET ExportsOf(setup)
        /\ outcome[w] = RunResult(setup, asked.input, w, asked.stores, asked.team)
        /\ outcome[w].status \notin {"hard_stop", "variance"}
    BY DEF RunsAreResults, Produced, NoRun
  <2> HIDE DEF asked
  <2> DEFINE work == Settle(setup, asked.input, w, asked.stores)
             lines == work.book.lines
             income == ReadIncome(setup.contract, asked.input, w)
             parts == FilesOf(asked.input, w, "income")
  <2>2. /\ outcome[w].book = work.book /\ outcome[w].classified = work.classified
        /\ outcome[w].checks = work.checks
        /\ outcome[w].status = Status(Variances(setup, work, Masters(setup), asked.team),
                                      NotChecked(setup, work.figures, asked.team.perStore))
    BY <2>1, ResultProduced
  <2>3. Breaches(work.checks) = {}
    <3> HIDE DEF work
    <3> QED BY <2>1, <2>2, CleanHasNoBreach
  <2>5. ASSUME setup.platform = "tiktok" PROVE StoresAgree(setup.contract, lines, income)
    BY <2>1, <2>3, <2>5, TikTokMoney DEF StoresAgree
  <2>4. ASSUME setup.platform = "shopee", ~CrossingBuilt(parts)
        PROVE  MoneyNotVerified \in work.checks
    BY <2>4, ShopeeUnverified
  <2>6. ASSUME setup.platform = "shopee", \E f \in parts : f.mapped
        PROVE  OrdersAgree(setup.contract, lines, income)
    BY <2>1, <2>3, <2>6, ShopeeMoney DEF OrdersAgree
  <2>7. ASSUME setup.platform = "lazada"
        PROVE  LedgerAgrees(setup.contract, lines, work.classified)
    BY <2>1, <2>3, <2>7, LazadaMoney
  <2>8. setup.platform \in {"tiktok", "shopee", "lazada"}
    BY <2>1, SetupsAssumption
  <2> HIDE DEF work
  <2> QED
    BY <2>2, <2>4, <2>5, <2>6, <2>7, <2>8 DEF asked, CrossingBuilt
<1> QED
  BY <1>1, OutcomesAreResults, PTL

-----------------------------------------------------------------------------
(* The month's master: windows, and the stores they have. *)

\* What the values of a function come to is a total.
LEMMA AddedIs ==
  ASSUME NEW f, IsFiniteSet(DOMAIN f), \A x \in DOMAIN f : f[x] \in Int
  PROVE  Added(f) = Total(f, DOMAIN f) /\ Added(f) \in Int
<1> DEFINE S == DOMAIN f
<1>1. PICK g : Adds(f, S, g)
  BY AdderExists
<1>2. PICK h : /\ h = [s \in SUBSET S |->
                         IF s = {} THEN 0 ELSE f[Picked(s)] + h[s \ {Picked(s)}]]
               /\ Added(f) = h[S]
  <2>1. g = [s \in SUBSET S |-> IF s = {} THEN 0 ELSE f[Picked(s)] + g[s \ {Picked(s)}]]
    BY <1>1 DEF Adds
  <2> HIDE DEF S
  <2> QED
    BY <2>1 DEF Added, MapThenSumSet, MapThenFoldSet, Picked, S
<1>3. Adds(f, S, h)
  BY <1>2 DEF Adds
<1>4. Total(f, S) = h[S] /\ Total(f, S) \in Int
  BY <1>3, TotalIs, TotalInt
<1> QED
  BY <1>2, <1>4

\* What has a key.
Keyed(S, key, k) == {x \in S : key[x] = k}

\* A total is that of the totals by key, whatever these are written as.
LEMMA TotalOfKeyed ==
  ASSUME NEW f, NEW S, IsFiniteSet(S), \A x \in S : f[x] \in Int,
         NEW key, NEW K, IsFiniteSet(K), \A x \in S : key[x] \in K,
         NEW g, \A k \in K : g[k] = Total(f, Keyed(S, key, k))
  PROVE  Total(f, S) = Total(g, K) /\ \A k \in K : g[k] \in Int
<1> DEFINE Part(k) == {x \in S : key[x] = k}
           h == [k \in K |-> Total(f, Part(k))]
<1>1. Total(f, S) = Total(h, K)
  BY TotalByKey
<1>2. \A k \in K : h[k] \in Int /\ h[k] = g[k]
  <2> SUFFICES ASSUME NEW k \in K PROVE h[k] \in Int /\ h[k] = g[k]
    OBVIOUS
  <2> DEFINE some == Part(k)
  <2>1. IsFiniteSet(some) /\ \A x \in some : f[x] \in Int
    <3>1. some \in SUBSET S
      OBVIOUS
    <3> HIDE DEF some
    <3> QED BY <3>1, FS_Subset
  <2>2. h[k] = Total(f, some) /\ g[k] = Total(f, some)
    BY DEF Keyed
  <2> HIDE DEF some, h
  <2> QED BY <2>1, <2>2, TotalInt
<1> HIDE DEF h
<1>3. Total(h, K) = Total(g, K)
  BY <1>2, TotalSame
<1> QED
  BY <1>1, <1>2, <1>3

(***************************************************************************)
(* The windows of a month: finite in number, with finitely many stores and *)
(* numbers for each, and one to a platform and label.                      *)
(***************************************************************************)
Month(windows) ==
  /\ IsFiniteSet(windows)
  /\ \A window \in windows :
        /\ IsFiniteSet(DOMAIN window.totals)
        /\ \A s \in DOMAIN window.totals :
              window.totals[s].pre \in Int /\ window.totals[s].wv \in Int
  /\ \A m, n \in windows : m.platform = n.platform /\ m.label = n.label => m = n

\* A window and a store it has.
Entries(windows) == UNION {{window} \X DOMAIN window.totals : window \in windows}

\* The entries are finitely many, and the windows' own.
LEMMA EntriesAre ==
  ASSUME NEW windows, Month(windows)
  PROVE  /\ IsFiniteSet(Entries(windows))
         /\ \A x \in Entries(windows) :
              /\ x = <<x[1], x[2]>> /\ x[1] \in windows /\ x[2] \in DOMAIN x[1].totals
              /\ x[1].totals[x[2]].pre \in Int /\ x[1].totals[x[2]].wv \in Int
         /\ \A window \in windows : \A s \in DOMAIN window.totals :
              <<window, s>> \in Entries(windows)
<1> DEFINE Of(window) == {window} \X DOMAIN window.totals
           g == [window \in windows |-> Of(window)]
<1>1. Entries(windows) = UNION {g[window] : window \in windows} /\ DOMAIN g = windows
  BY DEF Entries
<1>2. ASSUME NEW window \in windows PROVE IsFiniteSet(g[window])
  <2>1. IsFiniteSet({window}) /\ IsFiniteSet(DOMAIN window.totals)
    BY FS_Singleton DEF Month
  <2>2. IsFiniteSet({window} \X DOMAIN window.totals)
    BY <2>1, FS_Product
  <2> QED BY <2>2
<1>3. IsFiniteSet(Entries(windows))
  <2> DEFINE T == {g[window] : window \in windows}
  <2>1. \A t \in T : IsFiniteSet(t)
    BY <1>2
  <2> HIDE DEF g
  <2>2. IsFiniteSet(T)
    BY <1>1, FiniteImage DEF Month
  <2> HIDE DEF T
  <2>3. IsFiniteSet(UNION T)
    BY <2>1, <2>2, FS_UNION
  <2> QED BY <1>1, <2>3 DEF T
<1>4. ASSUME NEW x \in Entries(windows)
      PROVE  x = <<x[1], x[2]>> /\ x[1] \in windows /\ x[2] \in DOMAIN x[1].totals
  <2>1. PICK window \in windows : x \in {window} \X DOMAIN window.totals
    BY DEF Entries
  <2> QED BY <2>1
<1>5. ASSUME NEW window \in windows, NEW s \in DOMAIN window.totals
      PROVE  <<window, s>> \in Entries(windows)
  BY DEF Entries
<1> QED
  BY <1>3, <1>4, <1>5 DEF Month

\* The money of the entries.
EntryMoney(windows, column) == [x \in Entries(windows) |-> x[1].totals[x[2]][column]]

\* A window's total is that of its entries, and the windows' that of them all.
LEMMA WindowsTotal ==
  ASSUME NEW windows, Month(windows), NEW column \in {"pre", "wv"}
  PROVE  /\ \A window \in windows : TotalOf(window, column) \in Int
         /\ Total([window \in windows |-> TotalOf(window, column)], windows)
              = Total(EntryMoney(windows, column), Entries(windows))
<1> DEFINE E == Entries(windows)
           f == EntryMoney(windows, column)
           key == [x \in E |-> x[1]]
           g == [window \in windows |-> TotalOf(window, column)]
<1>1. /\ IsFiniteSet(E) /\ IsFiniteSet(windows)
      /\ \A x \in E : f[x] = x[1].totals[x[2]][column] /\ f[x] \in Int /\ key[x] \in windows
  BY EntriesAre DEF EntryMoney, Month
<1>2. ASSUME NEW window \in windows PROVE g[window] = Total(f, Keyed(E, key, window))
  <2> DEFINE mine == [s \in DOMAIN window.totals |-> window.totals[s][column]]
             h == [s \in DOMAIN window.totals |-> <<window, s>>]
             D == DOMAIN window.totals
  <2>1. /\ IsFiniteSet(D) /\ DOMAIN mine = D
        /\ \A s \in D : mine[s] \in Int /\ mine[s] = window.totals[s][column]
    BY DEF Month
  <2>2. \A s \in D : h[s] = <<window, s>> /\ h[s] \in E /\ f[h[s]] = mine[s]
    BY <1>1, EntriesAre DEF EntryMoney
  <2>3. \A x, y \in D : h[x] = h[y] => x = y
    OBVIOUS
  <2>4. Keyed(E, key, window) = {h[s] : s \in D}
    <3>1. ASSUME NEW x \in Keyed(E, key, window) PROVE x \in {h[s] : s \in D}
      <4>1. x \in E /\ x[1] = window /\ x = <<x[1], x[2]>> /\ x[2] \in D
        BY EntriesAre DEF Keyed
      <4> QED BY <4>1
    <3>2. ASSUME NEW s \in D PROVE h[s] \in Keyed(E, key, window)
      BY <2>2 DEF Keyed
    <3> HIDE DEF E, key, h, D
    <3> QED BY <3>1, <3>2
  <2>5. TotalOf(window, column) = Added(mine)
    BY DEF TotalOf
  <2> HIDE DEF mine, h, D, f, E, key
  <2>6. Added(mine) = Total(mine, D)
    BY <2>1, AddedIs
  <2>7. Total(f, {h[s] : s \in D}) = Total(mine, D)
    BY <2>1, <2>2, <2>3, TotalRenamed
  <2> QED BY <2>4, <2>5, <2>6, <2>7
<1> HIDE DEF E, f, key, g
<1>3. Total(f, E) = Total(g, windows) /\ \A window \in windows : g[window] \in Int
  <2>1. \A x \in E : f[x] \in Int
    BY <1>1
  <2>2. \A x \in E : key[x] \in windows
    BY <1>1
  <2>3. \A window \in windows : g[window] = Total(f, Keyed(E, key, window))
    BY <1>2
  <2>4. IsFiniteSet(E) /\ IsFiniteSet(windows)
    BY <1>1
  <2> QED BY <2>1, <2>2, <2>3, <2>4, TotalOfKeyed
<1> QED
  BY <1>3 DEF E, f, g

\* The rows of the summary are the windows.
LEMMA SummaryTotal ==
  ASSUME NEW windows, Month(windows), NEW column \in {"pre", "wv"}
  PROVE  SumOf(SummaryRows(windows), column)
           = Total([window \in windows |-> TotalOf(window, column)], windows)
<1> DEFINE Row(window) == [platform |-> window.platform, label |-> window.label,
                           pre |-> TotalOf(window, "pre"), wv |-> TotalOf(window, "wv")]
           h == [window \in windows |-> Row(window)]
           g == [window \in windows |-> TotalOf(window, column)]
           rows == SummaryRows(windows)
           f == ColumnOf(rows, column)
<1>1. rows = {h[window] : window \in windows} /\ DOMAIN h = windows
  BY DEF SummaryRows
<1>2. \A window \in windows :
         /\ h[window].platform = window.platform /\ h[window].label = window.label
         /\ h[window][column] = g[window]
  OBVIOUS
<1>3. \A window \in windows : g[window] \in Int
  BY WindowsTotal
<1> HIDE DEF h, g, rows
<1>4. IsFiniteSet(windows) /\ IsFiniteSet(rows)
  BY <1>1, FiniteImage DEF Month
<1>5. \A window \in windows : f[h[window]] = g[window]
  BY <1>1, <1>2 DEF ColumnOf
<1>6. \A m, n \in windows : h[m] = h[n] => m = n
  BY <1>2 DEF Month
<1> HIDE DEF f
<1>7. Total(f, {h[window] : window \in windows}) = Total(g, windows)
  BY <1>3, <1>4, <1>5, <1>6, TotalRenamed
<1>8. SumOf(rows, column) = Total(f, rows)
  BY <1>4, SumOfIs DEF f
<1> QED
  BY <1>1, <1>7, <1>8 DEF g, rows

-----------------------------------------------------------------------------
(* The same money by storefront and by brand. *)

\* The storefront of an entry.
CellOf(windows) == [x \in Entries(windows) |-> <<x[2], x[1].platform>>]

\* The storefronts of the master are those of the entries.
LEMMA CellsAre ==
  ASSUME NEW windows, Month(windows)
  PROVE  /\ DOMAIN ByStorefront(windows) = {CellOf(windows)[x] : x \in Entries(windows)}
         /\ IsFiniteSet(DOMAIN ByStorefront(windows))
<1> DEFINE E == Entries(windows)
           key == CellOf(windows)
           platforms == {window.platform : window \in windows}
           K == UNION {StoresOn(windows, p) \X {p} : p \in platforms}
<1>1. DOMAIN ByStorefront(windows) = K
  BY DEF ByStorefront
<1>2. ASSUME NEW x \in E PROVE key[x] \in K
  <2>1. x[1] \in windows /\ x[2] \in DOMAIN x[1].totals
    BY EntriesAre
  <2>2. x[2] \in StoresOn(windows, x[1].platform)
    BY <2>1 DEF StoresOn, OnPlatform
  <2>3. x[1].platform \in platforms
    BY <2>1
  <2>4. key[x] = <<x[2], x[1].platform>>
    BY DEF CellOf
  <2> QED BY <2>2, <2>3, <2>4
<1>3. ASSUME NEW cell \in K PROVE \E x \in E : key[x] = cell
  <2>1. PICK p \in platforms : cell \in StoresOn(windows, p) \X {p}
    OBVIOUS
  <2>2. PICK s \in StoresOn(windows, p) : cell = <<s, p>>
    BY <2>1
  <2>3. PICK window \in windows : window.platform = p /\ s \in DOMAIN window.totals
    BY DEF StoresOn, OnPlatform
  <2>4. <<window, s>> \in E
    BY <2>3, EntriesAre
  <2>5. key[<<window, s>>] = <<s, p>>
    BY <2>3, <2>4 DEF CellOf
  <2> QED BY <2>2, <2>4, <2>5
<1>4. IsFiniteSet(E) /\ DOMAIN key = E
  BY EntriesAre DEF CellOf
<1> HIDE DEF E, key, K
<1>5. K = {key[x] : x \in E}
  BY <1>2, <1>3
<1>6. IsFiniteSet({key[x] : x \in E})
  BY <1>4, FiniteImage
<1> QED
  BY <1>1, <1>5, <1>6 DEF E, key

\* What a storefront sold is the money of its entries.
LEMMA StoreTotalIs ==
  ASSUME NEW windows, Month(windows), NEW cell \in DOMAIN ByStorefront(windows)
  PROVE  StoreTotal(windows, cell[2], cell[1])
           = Total(EntryMoney(windows, "wv"), Keyed(Entries(windows), CellOf(windows), cell))
<1> DEFINE E == Entries(windows)
           f == EntryMoney(windows, "wv")
           key == CellOf(windows)
           D == {window \in OnPlatform(windows, cell[2]) : cell[1] \in DOMAIN window.totals}
           mine == [window \in D |-> window.totals[cell[1]].wv]
           h == [window \in D |-> <<window, cell[1]>>]
<1>1. PICK y \in E : cell = <<y[2], y[1].platform>>
  <2>1. PICK y \in E : cell = CellOf(windows)[y]
    BY CellsAre
  <2>2. CellOf(windows)[y] = <<y[2], y[1].platform>>
    BY DEF CellOf
  <2> QED BY <2>1, <2>2
<1>2. IsFiniteSet(D) /\ D \subseteq windows /\ DOMAIN mine = D
  <2>1. D \in SUBSET windows
    BY DEF OnPlatform
  <2> HIDE DEF D
  <2> QED BY <2>1, FS_Subset DEF Month
<1>3. ASSUME NEW window \in D
      PROVE  /\ h[window] = <<window, cell[1]>> /\ h[window] \in E
             /\ f[h[window]] = mine[window] /\ mine[window] \in Int
             /\ key[h[window]] = cell
  <2>1. window \in windows /\ cell[1] \in DOMAIN window.totals /\ window.platform = cell[2]
    BY DEF OnPlatform
  <2>2. h[window] = <<window, cell[1]>> /\ h[window] \in E
    BY <2>1, EntriesAre
  <2>3. f[h[window]] = window.totals[cell[1]].wv
    BY <2>2 DEF EntryMoney
  <2>4. window.totals[cell[1]].wv \in Int
    BY <2>1 DEF Month
  <2>5. key[h[window]] = <<cell[1], cell[2]>>
    BY <2>1, <2>2 DEF CellOf
  <2> QED BY <2>2, <2>3, <2>4, <2>5, <1>1
<1>4. Keyed(E, key, cell) = {h[window] : window \in D}
  <2>1. ASSUME NEW x \in Keyed(E, key, cell) PROVE \E window \in D : x = h[window]
    <3>1. /\ x \in E /\ key[x] = cell /\ x = <<x[1], x[2]>> /\ x[1] \in windows
          /\ x[2] \in DOMAIN x[1].totals
      BY EntriesAre DEF Keyed
    <3>2. cell[1] = x[2] /\ cell[2] = x[1].platform
      BY <3>1 DEF CellOf
    <3>3. x[1] \in D
      BY <3>1, <3>2 DEF OnPlatform
    <3> QED BY <3>1, <3>2, <3>3
  <2>2. \A window \in D : h[window] \in Keyed(E, key, cell)
    BY <1>3 DEF Keyed
  <2> HIDE DEF E, key, h, D
  <2> QED BY <2>1, <2>2
<1>5. \A m, n \in D : h[m] = h[n] => m = n
  OBVIOUS
<1>6. StoreTotal(windows, cell[2], cell[1]) = Added(mine)
  BY DEF StoreTotal
<1> HIDE DEF mine, h, D, E, f, key
<1>7. Added(mine) = Total(mine, D)
  BY <1>2, <1>3, AddedIs
<1>8. Total(f, {h[window] : window \in D}) = Total(mine, D)
  BY <1>2, <1>3, <1>5, TotalRenamed
<1> QED
  BY <1>4, <1>6, <1>7, <1>8 DEF E, f, key

\* What the storefronts come to is the money of the entries.
LEMMA StorefrontTotal ==
  ASSUME NEW windows, Month(windows)
  PROVE  /\ Added(ByStorefront(windows))
              = Total(EntryMoney(windows, "wv"), Entries(windows))
         /\ \A cell \in DOMAIN ByStorefront(windows) :
              StoreTotal(windows, cell[2], cell[1]) \in Int
<1> DEFINE E == Entries(windows)
           f == EntryMoney(windows, "wv")
           key == CellOf(windows)
           K == DOMAIN ByStorefront(windows)
           g == ByStorefront(windows)
<1>1. \A cell \in K : g[cell] = StoreTotal(windows, cell[2], cell[1])
  BY DEF ByStorefront
<1>2. \A cell \in K : g[cell] = Total(f, Keyed(E, key, cell))
  BY <1>1, StoreTotalIs
<1>3. IsFiniteSet(E) /\ \A x \in E : f[x] \in Int
  BY EntriesAre DEF EntryMoney
<1>4. IsFiniteSet(K) /\ \A x \in E : key[x] \in K
  BY CellsAre
<1> HIDE DEF E, f, key, K, g
<1>5. Total(f, E) = Total(g, K) /\ \A cell \in K : g[cell] \in Int
  BY <1>2, <1>3, <1>4, TotalOfKeyed
<1>6. Added(g) = Total(g, K)
  BY <1>4, <1>5, AddedIs DEF K, g
<1> QED
  BY <1>1, <1>5, <1>6 DEF E, f, K, g

\* The cell of a storefront's brand.
BrandCellOf(brandMap, windows) ==
  [cell \in DOMAIN ByStorefront(windows) |-> <<BrandOf(brandMap, cell[2], cell[1]), cell[2]>>]

\* They are, per platform, the stores of its windows.
LEMMA StorefrontsAre ==
  ASSUME NEW windows
  PROVE  /\ \A cell \in DOMAIN ByStorefront(windows) :
              /\ cell = <<cell[1], cell[2]>> /\ cell[1] \in StoresOn(windows, cell[2])
              /\ cell[2] \in {window.platform : window \in windows}
         /\ \A p \in {window.platform : window \in windows} : \A s \in StoresOn(windows, p) :
              <<s, p>> \in DOMAIN ByStorefront(windows)
<1> DEFINE platforms == {window.platform : window \in windows}
           K == UNION {StoresOn(windows, p) \X {p} : p \in platforms}
<1>1. DOMAIN ByStorefront(windows) = K
  BY DEF ByStorefront
<1>2. ASSUME NEW cell \in K
      PROVE  cell = <<cell[1], cell[2]>> /\ cell[1] \in StoresOn(windows, cell[2])
             /\ cell[2] \in platforms
  <2>1. PICK p \in platforms : cell \in StoresOn(windows, p) \X {p}
    OBVIOUS
  <2> QED BY <2>1
<1>3. \A p \in platforms : \A s \in StoresOn(windows, p) : <<s, p>> \in K
  OBVIOUS
<1> QED
  BY <1>1, <1>2, <1>3

\* What the brands come to is what their storefronts do.
LEMMA BrandTotal ==
  ASSUME NEW windows, Month(windows), NEW brandMap
  PROVE  Added(ByBrand(brandMap, windows)) = Added(ByStorefront(windows))
<1> DEFINE K == DOMAIN ByStorefront(windows)
           f == ByStorefront(windows)
           key == BrandCellOf(brandMap, windows)
           B == BrandCells(brandMap, windows)
           g == ByBrand(brandMap, windows)
           platforms == {window.platform : window \in windows}
<1>1. /\ IsFiniteSet(K) /\ DOMAIN f = K
      /\ \A cell \in K : f[cell] = StoreTotal(windows, cell[2], cell[1]) /\ f[cell] \in Int
  BY CellsAre, StorefrontTotal DEF ByStorefront
<1>2. DOMAIN g = B
  BY DEF ByBrand
<1>3. ASSUME NEW cell \in K PROVE key[cell] \in B
  <2>1. cell[1] \in StoresOn(windows, cell[2]) /\ cell[2] \in platforms
    BY StorefrontsAre
  <2>2. key[cell] = <<BrandOf(brandMap, cell[2], cell[1]), cell[2]>>
    BY DEF BrandCellOf
  <2>3. <<BrandOf(brandMap, cell[2], cell[1]), cell[2]>> \in B
    BY <2>1 DEF BrandCells
  <2> QED BY <2>2, <2>3
<1>4. ASSUME NEW b \in B PROVE \E cell \in K : key[cell] = b
  <2>1. PICK p \in platforms :
           b \in {<<BrandOf(brandMap, p, s), p>> : s \in StoresOn(windows, p)}
    BY DEF BrandCells
  <2>2. PICK s \in StoresOn(windows, p) : b = <<BrandOf(brandMap, p, s), p>>
    BY <2>1
  <2>3. <<s, p>> \in K
    BY StorefrontsAre
  <2>4. key[<<s, p>>] = b
    BY <2>2, <2>3 DEF BrandCellOf
  <2> QED BY <2>3, <2>4
<1>5. IsFiniteSet(B)
  <2>0. DOMAIN key = K
    BY DEF BrandCellOf
  <2> HIDE DEF K, f, key, B
  <2>1. B = {key[cell] : cell \in K}
    BY <1>3, <1>4
  <2>2. IsFiniteSet({key[cell] : cell \in K})
    BY <1>1, <2>0, FiniteImage
  <2> QED BY <2>1, <2>2
<1>6. ASSUME NEW b \in B PROVE g[b] = Total(f, Keyed(K, key, b))
  <2> DEFINE D == BrandStores(brandMap, windows, b)
             mine == [s \in D |-> StoreTotal(windows, b[2], s)]
             h == [s \in D |-> <<s, b[2]>>]
  <2>1. g[b] = Added(mine)
    BY DEF ByBrand
  <2>2. PICK c \in K : b = <<BrandOf(brandMap, c[2], c[1]), c[2]>>
    BY <1>4 DEF BrandCellOf
  <2>3. b = <<b[1], b[2]>> /\ b[2] \in platforms
    BY <2>2, StorefrontsAre
  <2>4. ASSUME NEW s \in D
        PROVE  /\ h[s] = <<s, b[2]>> /\ h[s] \in K /\ f[h[s]] = mine[s] /\ mine[s] \in Int
               /\ key[h[s]] = b
    <3>1. s \in StoresOn(windows, b[2]) /\ BrandOf(brandMap, b[2], s) = b[1]
      BY DEF BrandStores
    <3>2. h[s] = <<s, b[2]>> /\ <<s, b[2]>> \in K
      BY <3>1, <2>3, StorefrontsAre
    <3>3. f[<<s, b[2]>>] = StoreTotal(windows, b[2], s) /\ f[<<s, b[2]>>] \in Int
      BY <3>2, <1>1
    <3>4. key[<<s, b[2]>>] = <<b[1], b[2]>>
      BY <3>1, <3>2 DEF BrandCellOf
    <3> QED BY <3>2, <3>3, <3>4, <2>3
  <2>5. ASSUME NEW cell \in Keyed(K, key, b) PROVE \E s \in D : cell = h[s]
    <3>1. cell \in K /\ key[cell] = b /\ cell = <<cell[1], cell[2]>>
          /\ cell[1] \in StoresOn(windows, cell[2])
      BY StorefrontsAre DEF Keyed
    <3>2. b[1] = BrandOf(brandMap, cell[2], cell[1]) /\ b[2] = cell[2]
      BY <3>1 DEF BrandCellOf
    <3>3. cell[1] \in D
      BY <3>1, <3>2 DEF BrandStores
    <3> QED BY <3>1, <3>2, <3>3
  <2>6. \A s \in D : h[s] \in Keyed(K, key, b)
    BY <2>4 DEF Keyed
  <2>7. \A s, t \in D : h[s] = h[t] => s = t
    OBVIOUS
  <2>8. DOMAIN mine = D
    OBVIOUS
  <2> HIDE DEF K, f, key, B, g, D, mine, h
  <2>9. Keyed(K, key, b) = {h[s] : s \in D}
    BY <2>5, <2>6
  <2>10. IsFiniteSet(Keyed(K, key, b))
    BY <1>1, FS_Subset DEF Keyed
  <2>11. IsFiniteSet(D)
    <3> DEFINE back == [cell \in Keyed(K, key, b) |-> cell[1]]
    <3>1. \A s \in D : h[s] \in Keyed(K, key, b) /\ back[h[s]] = s
      BY <2>4, <2>6
    <3>2. \A cell \in Keyed(K, key, b) : back[cell] \in D
      BY <2>4, <2>5
    <3>0. DOMAIN back = Keyed(K, key, b)
      OBVIOUS
    <3> HIDE DEF back
    <3>3. D = {back[cell] : cell \in Keyed(K, key, b)}
      BY <3>1, <3>2
    <3>4. IsFiniteSet({back[cell] : cell \in Keyed(K, key, b)})
      BY <2>10, <3>0, FiniteImage
    <3> QED BY <3>3, <3>4
  <2>12. Added(mine) = Total(mine, D)
    BY <2>4, <2>8, <2>11, AddedIs
  <2>13. Total(f, {h[s] : s \in D}) = Total(mine, D)
    BY <2>4, <2>7, <2>11, TotalRenamed
  <2> QED BY <2>1, <2>9, <2>12, <2>13
<1> HIDE DEF K, f, key, B, g
<1>7. Total(f, K) = Total(g, B) /\ \A b \in B : g[b] \in Int
  <2>1. \A cell \in K : f[cell] \in Int
    BY <1>1
  <2>2. \A cell \in K : key[cell] \in B
    BY <1>3
  <2>3. \A b \in B : g[b] = Total(f, Keyed(K, key, b))
    BY <1>6
  <2>4. IsFiniteSet(K)
    BY <1>1
  <2> QED BY <2>1, <2>2, <2>3, <2>4, <1>5, TotalOfKeyed
<1>8. Added(f) = Total(f, K) /\ Added(g) = Total(g, B)
  BY <1>1, <1>2, <1>5, <1>7, AddedIs
<1> QED
  BY <1>7, <1>8 DEF f, g

-----------------------------------------------------------------------------
(* The lines a finance file is read back to. *)

\* The lines of a finance file: finitely many, with their amounts, and on
\* Lazada the amount with VAT is what a line tab makes of the one without.
Invoiced(platform, lines) ==
  /\ IsFiniteSet(lines) /\ Numbers(lines, "pre") /\ Numbers(lines, "wv")
  /\ platform = "lazada" =>
       \A line \in lines : line = [line EXCEPT !.wv = (line.pre * line.rate) \div 100]

\* The lines of a TikTok run have that.
LEMMA TikTokInvoice ==
  ASSUME NEW dep \in Setups, dep.platform = "tiktok", NEW input \in SUBSET ExportsOf(dep),
         NEW w, NEW stores
  PROVE  Invoiced("tiktok", Settle(dep, input, w, stores).book.lines)
<1> DEFINE c == PartialRoster(dep.contract, stores)
           relaxed == Relaxed(dep.contract, stores)
           income == ReadIncome(c, input, w)
           classified == ClassifyTikTok(income)
           good == Settled("tiktok", classified)
           found == ResolveOrders(c, input, w, good, "settled")
           sku == ComputeTikTok(c, Masters(dep).vat, ExplodeToSku(good, found.orders))
           work == Settle(dep, input, w, stores)
<1>1. IsFiniteSet(income)
  BY SetupAmounts, IncomeAmounts
<1>2. c.vatDefault = dep.contract.vatDefault
  BY RelaxedTolerance
<1>3. IsFiniteSet(found.orders) /\ \A k \in OrderAmounts : Numbers(found.orders, k)
  BY SetupAmounts, ResolvedAmounts
<1>4. work = WorkTikTok(c, Masters(dep), relaxed, classified, found)
  <2> HIDE DEF c, relaxed
  <2> QED BY DEF Settle, SettleTikTok, c, relaxed
<1> HIDE DEF c, income, found
<1>5. /\ IsFiniteSet(classified)
      /\ \A p \in good : /\ {"store", "order", "created", "status"} \subseteq DOMAIN p
                         /\ DOMAIN p \cap ({"sku"} \cup OrderAmounts) = {}
      /\ good \subseteq classified
  <2>1. good \subseteq classified
    BY DEF Settled
  <2>2. /\ IsFiniteSet(classified)
        /\ \A p \in classified :
             DOMAIN p = TikTokKey \cup {"day", "gross", "net", "refund", "settled",
                                        "listed", "refunded", "status"}
    BY <1>1, TikTokGroups
  <2> HIDE DEF classified, good
  <2> QED BY <2>1, <2>2 DEF TikTokKey, OrderAmounts
<1>6. IsFiniteSet(good)
  BY <1>5, FS_Subset
<1>7. work.book.lines = sku
  BY <1>4 DEF WorkTikTok, BuildTikTok
<1> HIDE DEF work, good
<1>8. IsFiniteSet(sku) /\ Numbers(sku, "wv") /\ Numbers(sku, "pre")
  BY <1>2, <1>3, <1>5, <1>6, TikTokLines
<1> HIDE DEF sku
<1> QED
  BY <1>7, <1>8 DEF Invoiced, work

\* So have those of a Shopee run.
LEMMA ShopeeInvoice ==
  ASSUME NEW dep \in Setups, dep.platform = "shopee", NEW input \in SUBSET ExportsOf(dep),
         NEW w, NEW stores
  PROVE  Invoiced("shopee", Settle(dep, input, w, stores).book.lines)
<1> DEFINE c == PartialRoster(dep.contract, stores)
           relaxed == Relaxed(dep.contract, stores)
           income == ReadIncome(c, input, w)
           classified == ClassifyShopee(income)
           found == ResolveOrders(c, input, w, classified, "net")
           sku == ComputeShopee(c, Masters(dep).vat, ExplodeToSku(classified, found.orders))
           ok == {l \in sku : l.status = "ok"}
           work == Settle(dep, input, w, stores)
<1>1. /\ IsFiniteSet(income) /\ \A k \in Amounts("income") : Numbers(income, k)
      /\ \A x, y \in income : x.store = y.store => x.brand = y.brand
  BY SetupAmounts, IncomeAmounts
<1>2. c.vatDefault = dep.contract.vatDefault
  BY RelaxedTolerance
<1>3. IsFiniteSet(found.orders) /\ \A k \in OrderAmounts : Numbers(found.orders, k)
  BY SetupAmounts, ResolvedAmounts
<1>4. work = WorkShopee(c, Masters(dep), relaxed, FilesOf(input, w, "income"), income, classified, found)
  <2> HIDE DEF c, relaxed
  <2> QED BY DEF Settle, SettleShopee, c, relaxed
<1> HIDE DEF c, income, found
<1>5. /\ IsFiniteSet(classified)
      /\ \A p \in classified :
           /\ {"store", "order", "vouchers", "status"} \subseteq DOMAIN p
           /\ DOMAIN p \cap ({"sku"} \cup OrderAmounts) = {}
  <2>1. /\ IsFiniteSet(classified)
        /\ \A p \in classified :
             DOMAIN p = ShopeeKey \cup {"day", "created", "net", "refund", "gross",
                                        "vouchers", "status"}
    BY <1>1, ShopeeGroups
  <2> HIDE DEF classified
  <2> QED BY <2>1 DEF ShopeeKey, OrderAmounts
<1>6. Numbers(classified, "vouchers")
  BY <1>1, ShopeePairs DEF Amounts
<1>7. work.book.lines = ok
  BY <1>4 DEF WorkShopee, BuildShopee
<1> HIDE DEF work, classified
<1>8. IsFiniteSet(sku) /\ Numbers(sku, "wv") /\ Numbers(sku, "pre")
  BY <1>2, <1>3, <1>5, <1>6, ShopeeLines
<1> HIDE DEF sku
<1>9. IsFiniteSet(ok) /\ Numbers(ok, "wv") /\ Numbers(ok, "pre")
  <2>1. ok \in SUBSET sku
    OBVIOUS
  <2> HIDE DEF ok
  <2> QED BY <1>8, <2>1, FS_Subset DEF Numbers
<1> HIDE DEF ok
<1> QED
  BY <1>7, <1>9 DEF Invoiced, work

\* And those of a Lazada run.
LEMMA LazadaInvoice ==
  ASSUME NEW dep \in Setups, dep.platform = "lazada", NEW input \in SUBSET ExportsOf(dep),
         NEW w, NEW stores
  PROVE  Invoiced("lazada", Settle(dep, input, w, stores).book.lines)
<1> DEFINE c == PartialRoster(dep.contract, stores)
           relaxed == Relaxed(dep.contract, stores)
           masters == FeeMasters(dep)
           classified == ClassifyLedger(c, masters, ReadLedger(LedgerFiles(input, w)))
           all == RevenueLines(c, classified)
           work == Settle(dep, input, w, stores)
           revenue == RevenueRows(c, classified)
           dropped == {line \in all : line.order = NoOrder \/ line.qty <= 0}
           keys == Groups(revenue, LineKey)
           Line(key) == RevenueLine(c, classified, key)
<1>1. c.vatDefault = dep.contract.vatDefault
  BY RelaxedTolerance
<1>2. /\ IsFiniteSet(classified) /\ Numbers(classified, "amount")
      /\ \A row \in classified : row.rate \in Nat \ {0}
  BY <1>1, LedgerAmounts
<1>3. work.book.lines = all \ dropped
  <2>1. work = SettleLedger(c, masters, input, w, relaxed)
    <3> HIDE DEF c, relaxed, masters
    <3> QED BY DEF Settle, c, relaxed, masters
  <2> HIDE DEF c, masters
  <2> QED BY <2>1 DEF SettleLedger, BuildLazada
<1> HIDE DEF work, classified, c
<1>4. all = {Line(key) : key \in keys}
  BY DEF RevenueLines, LineKey
<1>5. ASSUME NEW key \in keys
      PROVE  /\ Line(key).wv \in Int /\ Line(key).pre \in Int
             /\ Line(key) = [Line(key) EXCEPT !.wv = (Line(key).pre * Line(key).rate) \div 100]
  <2> DEFINE line == Line(key)
  <2>1. /\ line.wv \in Int /\ line.pre \in Int
        /\ line.wv = (line.pre * line.rate) \div 100
    BY <1>2, RevenueLineAmounts
  <2>2. \E new : line = With(key, new)
    BY DEF RevenueLine
  <2> HIDE DEF line
  <2>3. \A v : v = line.wv => line = [line EXCEPT !.wv = v]
    BY <2>2 DEF With
  <2> QED BY <2>1, <2>3 DEF line
<1> HIDE DEF Line
<1>6. IsFiniteSet(all)
  <2> DEFINE g == [key \in keys |-> Line(key)]
  <2>1. all = {g[key] : key \in keys} /\ DOMAIN g = keys
    BY <1>4
  <2>2. revenue \in SUBSET classified
    BY DEF RevenueRows
  <2>3. IsFiniteSet(revenue)
    <3> HIDE DEF revenue
    <3> QED BY <1>2, <2>2, FS_Subset
  <2>4. IsFiniteSet(keys)
    BY <2>3, FiniteGroups
  <2> HIDE DEF g, keys, all
  <2> QED BY <2>1, <2>4, FiniteImage
<1> HIDE DEF keys
<1>7. \A line \in all :
         /\ line.wv \in Int /\ line.pre \in Int
         /\ line = [line EXCEPT !.wv = (line.pre * line.rate) \div 100]
  BY <1>4, <1>5
<1> HIDE DEF all
<1>8. all \ dropped \in SUBSET all
  OBVIOUS
<1> HIDE DEF dropped
<1>9. IsFiniteSet(all \ dropped)
  BY <1>6, <1>8, FS_Subset
<1> QED
  BY <1>3, <1>7, <1>8, <1>9 DEF Invoiced, Numbers, work

\* The lines a finance file is read back to are those on its tabs.
LEMMA LinesOnTabs ==
  ASSUME NEW platform, NEW lines, Invoiced(platform, lines)
  PROVE  FoldLines(platform, lines)
           = {line \in lines : platform = "lazada" => line.rate \in {105, 108, 110}}
<1> DEFINE Again(line) == [line EXCEPT !.wv = (line.pre * line.rate) \div 100]
           listed == {l \in lines : l.rate \in {105, 108, 110}}
<1>1. CASE platform # "lazada"
  BY <1>1 DEF FoldLines
<1>2. CASE platform = "lazada"
  <2>1. \A line \in listed : line = Again(line)
    BY <1>2 DEF Invoiced
  <2>2. FoldLines(platform, lines) = {Again(line) : line \in listed}
    BY <1>2 DEF FoldLines
  <2> HIDE DEF Again
  <2>3. {Again(line) : line \in listed} = listed
    BY <2>1
  <2> QED BY <1>2, <2>2, <2>3
<1> QED BY <1>1, <1>2

\* A window of the month has finitely many stores, with numbers.
HasTotals(window) ==
  /\ IsFiniteSet(DOMAIN window.totals)
  /\ \A s \in DOMAIN window.totals :
        window.totals[s].pre \in Int /\ window.totals[s].wv \in Int

\* Whatever spellings a store's rows have, the stores come to the rows.
LEMMA StoresAddUp ==
  ASSUME NEW rows, IsFiniteSet(rows), Numbers(rows, "pre"), Numbers(rows, "wv"),
         NEW window, window.totals = PerStore(rows)
  PROVE  HasTotals(window) /\ TotalOf(window, "pre") = SumOf(rows, "pre")
<1> DEFINE key == [row \in rows |-> NormStore(row.store)]
           K == {NormStore(row.store) : row \in rows}
           totals == PerStore(rows)
           Of(name) == {row \in rows : NormStore(row.store) = name}
           g == [s \in K |-> totals[s].pre]
           f == ColumnOf(rows, "pre")
<1>1. DOMAIN totals = K
  BY DEF PerStore
<1>2. \A s \in K : totals[s].pre = SumOf(Of(s), "pre") /\ totals[s].wv = SumOf(Of(s), "wv")
  BY DEF PerStore
<1>3. IsFiniteSet(K) /\ \A row \in rows : key[row] \in K
  <2>1. K = {key[row] : row \in rows} /\ DOMAIN key = rows
    OBVIOUS
  <2> HIDE DEF K, key
  <2> QED BY <2>1, FiniteImage
<1>4. ASSUME NEW s \in K
      PROVE  /\ SumOf(Of(s), "pre") = Total(f, Keyed(rows, key, s))
             /\ SumOf(Of(s), "pre") \in Int /\ SumOf(Of(s), "wv") \in Int
  <2>1. Of(s) \in SUBSET rows /\ Of(s) = Keyed(rows, key, s)
    BY DEF Keyed
  <2> HIDE DEF Of
  <2> QED BY <2>1, SumOfSome
<1> HIDE DEF totals, K, Of, key
<1>5. \A row \in rows : f[row] \in Int
  BY DEF ColumnOf, Numbers
<1>6. \A s \in K : g[s] = Total(f, Keyed(rows, key, s))
  BY <1>2, <1>4
<1>7. TotalOf(window, "pre") = Added(g)
  BY <1>1 DEF TotalOf, totals
<1>8. DOMAIN g = K /\ \A s \in K : g[s] \in Int
  BY <1>2, <1>4
<1>9. SumOf(rows, "pre") = Total(f, rows)
  BY SumOfIs
<1> HIDE DEF f, g
<1>10. Total(f, rows) = Total(g, K)
  BY <1>3, <1>5, <1>6, TotalOfKeyed
<1>11. Added(g) = Total(g, K)
  BY <1>3, <1>8, AddedIs
<1>12. HasTotals(window)
  BY <1>1, <1>2, <1>3, <1>4 DEF HasTotals, totals
<1> QED
  BY <1>7, <1>9, <1>10, <1>11, <1>12

-----------------------------------------------------------------------------
(* The month's windows. *)

\* The windows whose last run made a finance file.
ProducedWindows == {w \in setup.windows : Produced(w)}

\* The finance files of the month's runs, read back.
ReadBack == [w \in ProducedWindows |-> ReadWindow(setup.platform, w, outcome[w].book)]

\* A finance file is read back to what is on its tabs.
LEMMA ReadBackIs ==
  ASSUME RunsAreResults, NEW w \in ProducedWindows
  PROVE  /\ ReadBack[w].platform = setup.platform /\ ReadBack[w].label = w
         /\ HasTotals(ReadBack[w])
         /\ TotalOf(ReadBack[w], "pre") = SumOf(OnTabs(outcome[w].book.lines), "pre")
<1> DEFINE asked == outcome[w].asked
           lines == outcome[w].book.lines
           tabs == FoldLines(setup.platform, lines)
           window == ReadBack[w]
<1>1. /\ setup \in Setups /\ asked.input \in SUBSET ExportsOf(setup)
      /\ outcome[w] = RunResult(setup, asked.input, w, asked.stores, asked.team)
      /\ outcome[w].status # "hard_stop"
  BY DEF RunsAreResults, ProducedWindows, Produced, NoRun
<1> HIDE DEF asked
<1> DEFINE work == Settle(setup, asked.input, w, asked.stores)
<1>2. outcome[w].book = work.book /\ ~Refused(setup, asked.input, w, asked.stores)
  BY <1>1, ResultProduced
<1>3. Invoiced(setup.platform, work.book.lines)
  <2>1. setup.platform \in {"tiktok", "shopee", "lazada"}
    BY <1>1, SetupsAssumption
  <2> HIDE DEF work
  <2>2. CASE setup.platform = "tiktok"
    BY <1>1, <2>2, TikTokInvoice DEF work
  <2>3. CASE setup.platform = "shopee"
    BY <1>1, <2>3, ShopeeInvoice DEF work
  <2>4. CASE setup.platform = "lazada"
    BY <1>1, <2>4, LazadaInvoice DEF work
  <2> QED BY <2>1, <2>2, <2>3, <2>4
<1>4. setup.platform = "lazada" => setup.contract.rates = {105, 108, 110}
  <2> SUFFICES ASSUME setup.platform = "lazada" PROVE setup.contract.rates = {105, 108, 110}
    OBVIOUS
  <2> DEFINE c == PartialRoster(setup.contract, asked.stores)
  <2>1. ~LedgerRunRefused(c, FeeMasters(setup), asked.input, w)
    BY <1>2 DEF Refused
  <2>2. c.rates = setup.contract.rates
    BY <1>1, RelaxedTolerance
  <2> HIDE DEF c
  <2> QED BY <2>1, <2>2 DEF LedgerRunRefused, WorkbookRefused
<1> HIDE DEF work
<1>5. Invoiced(setup.platform, lines)
  BY <1>2, <1>3
<1> HIDE DEF lines
<1>6. tabs = {line \in lines : setup.platform = "lazada" => line.rate \in {105, 108, 110}}
  BY <1>5, LinesOnTabs
<1>7. tabs = OnTabs(lines)
  BY <1>4, <1>6 DEF OnTabs
<1>8. IsFiniteSet(tabs) /\ Numbers(tabs, "pre") /\ Numbers(tabs, "wv")
  <2>1. tabs \in SUBSET lines
    BY <1>6
  <2> HIDE DEF tabs
  <2> QED BY <1>5, <2>1, FS_Subset DEF Invoiced, Numbers
<1>9. window.platform = setup.platform /\ window.label = w /\ window.totals = PerStore(tabs)
  BY DEF ReadBack, ReadWindow, lines
<1> HIDE DEF tabs, window
<1>10. HasTotals(window) /\ TotalOf(window, "pre") = SumOf(tabs, "pre")
  BY <1>8, <1>9, StoresAddUp
<1> QED
  BY <1>7, <1>9, <1>10 DEF lines, window

\* The month's windows: those read back, and the other platforms'.
LEMMA MonthIs ==
  ASSUME RunsAreResults
  PROVE  /\ Month(MonthWindows)
         /\ Total([window \in MonthWindows |-> TotalOf(window, "pre")], MonthWindows)
              = Added([w \in ProducedWindows |-> SumOf(OnTabs(outcome[w].book.lines), "pre")])
                + Added([window \in setup.others |-> TotalOf(window, "pre")])
<1> DEFINE P == ProducedWindows
           h == ReadBack
           read == {h[w] : w \in P}
           others == setup.others
           windows == MonthWindows
           f == [window \in windows |-> TotalOf(window, "pre")]
           tabs == [w \in P |-> SumOf(OnTabs(outcome[w].book.lines), "pre")]
           rest == [window \in others |-> TotalOf(window, "pre")]
<1>1. windows = read \cup others /\ DOMAIN h = P
  BY DEF MonthWindows, ReadBack, ProducedWindows
<1>2. \A w \in P : /\ h[w].platform = setup.platform /\ h[w].label = w /\ HasTotals(h[w])
                   /\ TotalOf(h[w], "pre") = tabs[w]
  BY ReadBackIs
<1>3. /\ IsFiniteSet(setup.windows) /\ IsFiniteSet(others)
      /\ \A window \in others :
            /\ HasTotals(window)
            /\ window.platform = setup.platform => window.label \notin setup.windows
            /\ \A same \in others :
                  same.platform = window.platform /\ same.label = window.label => same = window
  <2>1. setup \in Setups
    BY DEF RunsAreResults
  <2> QED BY <2>1, AmountsAssumption DEF HasTotals
<1>4. P \in SUBSET setup.windows
  BY DEF ProducedWindows
<1>5. DOMAIN tabs = P /\ DOMAIN rest = others
      /\ \A window \in others : rest[window] = TotalOf(window, "pre")
  OBVIOUS
<1>6. \A window \in windows : f[window] = TotalOf(window, "pre")
  OBVIOUS
<1> HIDE DEF h, P, others, windows, f, tabs, rest
<1>7. IsFiniteSet(P) /\ IsFiniteSet(read) /\ IsFiniteSet(windows)
  <2>1. IsFiniteSet(P)
    BY <1>3, <1>4, FS_Subset
  <2>2. IsFiniteSet(read)
    BY <1>1, <2>1, FiniteImage
  <2> HIDE DEF read
  <2> QED BY <1>1, <1>3, <2>1, <2>2, FS_Union
<1>8. \A m, n \in P : h[m] = h[n] => m = n
  BY <1>2
<1>9. read \cap others = {}
  BY <1>2, <1>3, <1>4
<1>10. Month(windows)
  <2>1. \A window \in windows : HasTotals(window)
    BY <1>1, <1>2, <1>3
  <2>2. ASSUME NEW m \in windows, NEW n \in windows, m.platform = n.platform, m.label = n.label
        PROVE  m = n
    BY <1>1, <1>2, <1>3, <1>4, <2>2
  <2> QED BY <1>7, <2>1, <2>2 DEF Month, HasTotals
<1>11. \A window \in windows : f[window] \in Int
  BY <1>6, <1>10, WindowsTotal
<1>12. \A w \in P : tabs[w] \in Int /\ tabs[w] = f[h[w]]
  BY <1>1, <1>2, <1>6, <1>11
<1>13. \A window \in others : rest[window] \in Int /\ rest[window] = f[window]
  BY <1>1, <1>5, <1>6, <1>11
<1>14. Total(f, windows) = Total(f, read) + Total(f, others)
  <2>1. \A window \in read \cup others : f[window] \in Int
    BY <1>1, <1>11
  <2> HIDE DEF read
  <2> QED BY <1>1, <1>3, <1>7, <1>9, <2>1, TotalUnion
<1>15. Total(f, read) = Total(tabs, P)
  BY <1>7, <1>8, <1>12, TotalRenamed
<1>16. Total(f, others) = Total(rest, others)
  <2>1. \A window \in others : f[window] \in Int /\ f[window] = rest[window]
    BY <1>13
  <2> QED BY <1>3, <2>1, TotalSame
<1>17. Added(tabs) = Total(tabs, P)
  BY <1>5, <1>7, <1>12, AddedIs
<1>18. Added(rest) = Total(rest, others)
  BY <1>3, <1>5, <1>13, AddedIs
<1>19. Total(f, windows) = Added(tabs) + Added(rest)
  BY <1>14, <1>15, <1>16, <1>17, <1>18
<1> QED
  BY <1>10, <1>19 DEF windows, f, P, tabs, rest, others

(***************************************************************************)
(* The sheets of a month's master come to the same money, which is that of *)
(* the lines on the tabs of the finance files, whatever the windows, the   *)
(* brands and the spellings of the stores.  (master_summary.py: per_store, *)
(* by_brand, by_storefront and the summary's totals.)                      *)
(***************************************************************************)
THEOREM MasterIsTheLines == Spec => []MasterAddsUp
<1>1. RunsAreResults => MasterAddsUp
  <2> SUFFICES ASSUME RunsAreResults PROVE MasterAddsUp
    OBVIOUS
  <2> DEFINE windows == MonthWindows
             built == BuildMaster(setup.brandMap, windows)
  <2>1. Month(windows)
    BY MonthIs
  <2>2. /\ built.byBrand = ByBrand(setup.brandMap, windows)
        /\ built.byStorefront = ByStorefront(windows)
        /\ built.pre = SumOf(SummaryRows(windows), "pre")
        /\ built.wv = SumOf(SummaryRows(windows), "wv")
    BY DEF BuildMaster
  <2> HIDE DEF windows, built
  <2>3. Added(built.byStorefront) = Total(EntryMoney(windows, "wv"), Entries(windows))
    BY <2>1, <2>2, StorefrontTotal
  <2>4. Added(built.byBrand) = Added(built.byStorefront)
    BY <2>1, <2>2, BrandTotal
  <2>5. built.wv = Total(EntryMoney(windows, "wv"), Entries(windows))
    BY <2>1, <2>2, WindowsTotal, SummaryTotal
  <2>6. built.pre = Total([window \in windows |-> TotalOf(window, "pre")], windows)
    BY <2>1, <2>2, SummaryTotal
  <2>7. built.pre = Added([w \in ProducedWindows |-> SumOf(OnTabs(outcome[w].book.lines), "pre")])
                      + Added([window \in setup.others |-> TotalOf(window, "pre")])
    BY <2>6, MonthIs DEF windows
  <2> QED
    BY <2>3, <2>4, <2>5, <2>7 DEF MasterAddsUp, windows, built, ProducedWindows
<1> QED
  BY <1>1, OutcomesAreResults, PTL
=============================================================================
