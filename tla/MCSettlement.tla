---------------------------- MODULE MCSettlement ----------------------------
(* Small deployments of each platform for TLC: a handful of exports, each   *)
(* with the rows one question needs.  Amounts are chosen so that VAT        *)
(* divides them.                                                            *)
EXTENDS Settlement, TLC

CONSTANTS OtherMasters

\* Windows of one month and series, and one of another series.
Win(letter, n) == [month |-> 7, letter |-> letter, ordinal |-> <<n>>]
w1 == Win(2, 1)
w2 == Win(2, 2)
w3 == Win(2, 3)
v1 == Win(1, 1)

\* Storefronts: two spellings of alpha, an alias, and two more.
Alpha == <<"alpha", "Alpha">>
AlphaPart == <<"alpha", "2. ALPHA">>
Alfa == <<"alfa", "Alfa">>
Beta == <<"beta", "Beta">>
Gamma == <<"gamma", "Gamma">>

File(window, kind, store, name, rows) ==
    [window |-> window, kind |-> kind, store |-> store, file |-> name,
     protected |-> FALSE, mapped |-> TRUE, rows |-> rows]

OrderRow(at, order, sku, price, qty) ==
    [at |-> at, order |-> order, sku |-> sku, price |-> price, qty |-> qty,
     discount |-> 0, created |-> 1]

IncomeRow(at, order, type, amount, day) ==
    [at |-> at, order |-> order, type |-> type, gross |-> amount, net |-> amount,
     refund |-> 0, settled |-> amount, listed |-> amount, refunded |-> 0,
     vouchers |-> 0, subsidy |-> 0, created |-> 1, day |-> day]

LedgerRow(at, order, sku, fee, amount) ==
    [at |-> at, order |-> order, sku |-> sku, fee |-> fee, amount |-> amount, day |-> 1]

\* A SKU's price: 108 or, for the second, 105, per hundred before VAT.
a == 1080
b == 1050

-----------------------------------------------------------------------------
Contract ==
    [mode |-> "apply", dedupeRows |-> TRUE, numericCoercion |-> "hard_stop",
     dateCoercion |-> "warn", bounds |-> << >>, aliases |-> (Alfa :> Alpha),
     expected |-> {}, optional |-> {}, brands |-> << >>, vatDefault |-> 108,
     rates |-> {105, 108, 110},
     buckets |-> [match |-> ("alpha" :> "KAO 8"), default |-> "Others 8"],
     tolerance |-> [conservation |-> 1, grand |-> 1, perStore |-> 1, pvSum |-> 12000,
                    xuatHd |-> 2000, priceRounding |-> 20],
     mastersFile |-> DefaultMasters, revenueBucket |-> "revenue",
     promoBuckets |-> {"promo"}, variants |-> {"weekly", "daily"}]

ShopeeContract ==
    [Contract EXCEPT !.buckets = [match |-> ("alpha" :> "KAO"), default |-> "Others"]]

Lib == [fees |-> [sale |-> "revenue", flexi |-> "promo", ship |-> "other"],
        vat |-> [apple |-> 108, bread |-> 105]]
OldLib == [Lib EXCEPT !.vat = [apple |-> 110, bread |-> 105]]

Job(own, partial) == [refs |-> own, partial |-> partial]

Setup ==
    [platform |-> "tiktok", contract |-> Contract, live |-> (DefaultMasters :> Lib),
     snapshot |-> OldLib, shortened |-> {}, base |-> {}, exports |-> {}, recorded |-> << >>,
     windows |-> {w3},
     jobs |-> {Job(NoTeam, FALSE)},
     declarations |-> {}, references |-> {}, dispositions |-> {},
     brandMap |-> << >>, others |-> {}]

Team(store, metrics) == [perStore |-> (store :> metrics), grand |-> << >>]

-----------------------------------------------------------------------------
(* TikTok: the third window settles orders exported with the first two. *)

Borrowing ==
    LET own == File(w3, "orders", Alpha, "o3", {OrderRow(1, 1, "apple", a, 1)})
        paid == File(w3, "income", Alpha, "i3",
                     {IncomeRow(2, 1, "Order", a, 9), IncomeRow(3, 2, "Order", 2 * a, 9),
                      IncomeRow(4, 3, "Order", b, 9), IncomeRow(5, 4, "Adjustment", 77, 9)})
        betaOwn == File(w3, "orders", Beta, "p3", {OrderRow(6, 2, "bread", b, 1)})
        betaPaid == File(w3, "income", Beta, "j3", {IncomeRow(7, 2, "Order", b, 9)})
        second == File(w2, "orders", Alfa, "o2",
                       {OrderRow(8, 2, "apple", a, 1), OrderRow(9, 2, "apple", a, 1)})
        twice  == File(w2, "orders", Alpha, "o2b",
                       {OrderRow(14, 2, "apple", a, 1), OrderRow(15, 1, "apple", a, 1)})
        first  == File(w1, "orders", Alpha, "o1",
                       {OrderRow(10, 2, "apple", a, 2), OrderRow(11, 3, "bread", b, 1)})
        drifted == [first EXCEPT !.rows = {OrderRow(12, 3, "bread", 3 * b, 1)}, !.file = "o1b"]
        later  == File(w3, "orders", Gamma, "q3", {OrderRow(13, 9, "apple", a, 1)})
        locked == [second EXCEPT !.protected = TRUE, !.file = "o2c"]
        other  == File(v1, "orders", Alpha, "x1", {OrderRow(16, 3, "bread", b, 1)})
        after  == File(Win(2, 4), "orders", Alpha, "o4", {OrderRow(17, 3, "bread", b, 1)})
        plain  == [Setup EXCEPT !.base = {own, paid, betaOwn, betaPaid}]
        \* All through the door, one of them under another store perhaps.
        AtDoor(dep, corrected) ==
            [dep EXCEPT !.recorded = corrected @@ [f \in dep.base \cup dep.exports |-> f.store]]
    IN  {[plain EXCEPT !.contract.mode = mode, !.exports = {second, first, after, x}] :
            mode \in {"apply", "report"}, x \in {twice, drifted, locked, other}}
        \cup {AtDoor([plain EXCEPT !.base = @ \ {paid}, !.exports = {paid, second, first}],
                     corrected) :
                 corrected \in {<< >>, second :> Beta, betaOwn :> Alpha}}
        \cup {[plain EXCEPT !.contract.mode = "off", !.exports = {second}]}

(* TikTok: what one storefront is invoiced too much, another is too little. *)

Offsetting ==
    LET orders(s, n, amount) == File(w3, "orders", s, <<s, "o">>, {OrderRow(n, n, "apple", amount, 1)})
        income(s, n) == File(w3, "income", s, <<s, "i">>, {IncomeRow(n + 1, n, "Order", a, 9)})
    IN  {[Setup EXCEPT !.base = {orders(Alpha, 1, a + 54), income(Alpha, 1), income(Beta, 3)},
                       !.exports = {orders(Beta, 3, a - 54)}]}

(* TikTok: two windows, bounds, brands, rosters and references. *)

Rostered ==
    LET orders(w, n) == File(w, "orders", Alpha, <<w, "o">>, {OrderRow(n, n, "apple", a, 1)})
        income(w, n) ==
            File(w, "income", AlphaPart, <<w, "i">>,
                 {IncomeRow(n + 1, n, "Order", a, 3), IncomeRow(n + 2, n, "Order", 500, 8),
                  [IncomeRow(n + 3, n + 1, "Order", a, 3) EXCEPT !.refunded = -a, !.net = 0]})
        missing(kind) == File(w2, kind, Beta, <<w2, kind>>,
                              IF kind = "orders" THEN {OrderRow(40, 40, "bread", b, 1)}
                              ELSE {IncomeRow(41, 40, "Order", b, 3)})
        stranger == File(w2, "orders", Gamma, <<w2, "g">>, {OrderRow(42, 42, "apple", a, 1)})
        bad == File(w1, "orders", Alpha, <<w1, "bad">>, {OrderRow(43, 43, "apple", Unreadable, 1)})
        c == [Contract EXCEPT !.expected = {Alpha, Beta}, !.aliases = (AlphaPart :> Alpha),
                              !.bounds = (w1 :> [from |-> 1, to |-> 7]),
                              !.brands = ("alpha" :> <<"kao", "KAO">>)]
        good == [ok_good_settlement |-> a, raw_revenue |-> 2 * a]
        both == [Setup EXCEPT
                    !.contract = c,
                    !.base = {orders(w1, 10), income(w1, 10), orders(w2, 20), income(w2, 20)},
                    !.exports = {missing("orders"), missing("income"), stranger, bad}]
    IN  {[both EXCEPT !.windows = {w2}, !.declarations = {{}, {Beta}, {Gamma}},
               !.jobs = {Job(NoTeam, partial) : partial \in BOOLEAN}],
         [both EXCEPT
            !.contract.expected = {}, !.windows = {w1, w2}, !.jobs = {Job(NoTeam, FALSE), Job(Team(AlphaPart, good), FALSE)},
            !.brandMap = (<<"tiktok", "alpha">> :> "KAO" @@ <<"tiktok", "beta">> :> "KAO"),
            !.others = {[platform |-> "shopee", label |-> w1,
                         totals |-> ("alpha" :> [pre |-> 100, wv |-> 108])]}]}

(* Shopee: refunds, vouchers, lines of no quantity, and a partial return. *)

Crossed ==
    LET ShopeeRow(at, order, gross, vouchers) ==
            [IncomeRow(at, order, "Order", gross, 9) EXCEPT
                !.net = gross + vouchers, !.vouchers = vouchers]
        orders == File(w3, "orders", Alpha, "o",
                       {OrderRow(1, 1, "apple", a, 1), OrderRow(2, 1, "bread", a, 1),
                        OrderRow(3, 2, "apple", a, 2), OrderRow(4, 3, "apple", a, 1)})
        income == File(w3, "income", Alpha, "i",
                       {ShopeeRow(5, 1, 2 * a, -108), ShopeeRow(6, 2, 2 * a, 0),
                        [ShopeeRow(7, 3, a, 0) EXCEPT !.refund = -a, !.net = 0]})
        short  == File(w3, "income", Beta, "short", {ShopeeRow(8, 4, a, 0)})
        lines  == File(w3, "orders", Beta, "lines", {OrderRow(9, 4, "apple", a, 1)})
        empty  == File(w3, "orders", Beta, "empty", {OrderRow(10, 4, "apple", a, 0)})
        unmapped == [File(w3, "orders", Beta, "unmapped", {OrderRow(11, 4, "apple", 2 * a, 1)})
                        EXCEPT !.mapped = FALSE]
        twin   == File(w3, "orders", Beta, "twin", {OrderRow(12, 4, "apple", a, 1)})
    IN  {[Setup EXCEPT
            !.platform = "shopee", !.contract = ShopeeContract, !.base = {orders, income},
            !.exports = {short, lines, empty, unmapped, twin},
            !.references = {[with_vat |-> 4 * a - 108, tolerance |-> 0],
                            [with_vat |-> Blank, pre_vat |-> 4 * a - 108]},
            !.jobs = {Job(NoTeam, FALSE), Job(Team(Alpha, [ok_with_vat |-> 4 * a - 108]), FALSE)}]}
        \cup {[Setup EXCEPT
                !.platform = "shopee", !.contract = ShopeeContract,
                !.base = {[orders EXCEPT !.rows = {OrderRow(3, 2, "apple", a, 2)}],
                          [income EXCEPT !.rows = {ShopeeRow(6, 2, 2 * a, 0), ShopeeRow(8, 4, a, 0)}]},
                !.declarations = {{Gamma}},
                !.dispositions = {"reviewed", "expected"}]}
        \* The subsidy's header is in another part, or in none; what it would have
        \* said is of the order that ties, or of the one that does not.
        \cup {[Setup EXCEPT
                !.platform = "shopee", !.contract = ShopeeContract,
                !.base = {orders, [income EXCEPT !.mapped = FALSE,
                                     !.rows = {[ShopeeRow(5, 1, 2 * a, 0) EXCEPT !.subsidy = 54],
                                               ShopeeRow(6, 2, amount, 0)}]},
                !.exports = {short, lines}] : amount \in {2 * a, a}}

(* Lazada: two ledgers of a window, promotions, an unknown fee. *)

Ledgers ==
    LET weekly == File(w3, "weekly", Alpha, "w",
                       {LedgerRow(1, 1, "apple", "sale", a), LedgerRow(2, 1, "apple", "flexi", -108),
                        LedgerRow(3, 2, "bread", "sale", b), LedgerRow(4, 2, "bread", "sale", b),
                        LedgerRow(5, NoOrder, "apple", "sale", 54)})
        daily  == File(w3, "daily", Beta, "d", {LedgerRow(6, 3, "apple", "sale", a),
                                                LedgerRow(7, 4, "apple", "flexi", -50)})
        fee    == File(w3, "daily", Alpha, "f", {LedgerRow(8, 1, "apple", "mystery", -7)})
        c == [ShopeeContract EXCEPT !.buckets = [match |-> ("alpha" :> "KAO"), default |-> "Others"],
                                    !.expected = {Alpha, Beta}]
    IN  {[Setup EXCEPT
            !.platform = "lazada", !.contract = d, !.live = live, !.base = {weekly},
            !.exports = {daily, fee}, !.declarations = {{Beta}, {}},
            !.jobs = {Job(NoTeam, FALSE), Job(Team(Alpha, [revenue |-> a + 2 * b + 54]), FALSE),
                      Job(Team(<<"al", "al">>, [revenue |-> 1]), FALSE)},
            !.references = {[pre_vat_105 |-> 1, net |-> 0]},
            !.shortened = {{"al", "alpha"}}] :
              d \in {c, [c EXCEPT !.mastersFile = OtherMasters]},
              live \in {DefaultMasters :> Lib, << >>}}

AllSetups == Borrowing \cup Offsetting \cup Rostered \cup Crossed \cup Ledgers
=============================================================================
