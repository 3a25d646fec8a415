---------------------------- MODULE MCUploadDoor ----------------------------
(* Small deployments for TLC: one or two windows, two or three files.       *)
EXTENDS UploadDoor, TLC

Win(n) == [month |-> 7, letter |-> 2, ordinal |-> <<n>>]
w1 == Win(1)
w2 == Win(2)

\* Storefronts, and a name the pattern cuts short.
Alpha == <<"alpha", "Alpha">>
Alpha2 == <<"alpha", "Alpha 2">>
Beta == <<"beta", "Beta">>
Alfa == <<"alfa", "Alfa">>

\* Texts of file names that are nobody's name.
Alpha2Dated == <<"alpha", "Alpha 2 7.7">>
AlphaDated == <<"alpha", "Alpha 7.7">>

\* The pattern takes off one trailing token: a dated "Alpha 2" is read as such,
\* and that as "Alpha".
Reads == (Alpha :> Alpha) @@ (Beta :> Beta) @@ (Alfa :> Alfa) @@ (Alpha2 :> Alpha)
         @@ (Alpha2Dated :> Alpha2) @@ (AlphaDated :> Alpha)

Contract ==
    [reads |-> Reads, aliases |-> << >>, expected |-> {}, optional |-> {}, mode |-> "report",
     columns |-> [orders |-> [id |-> "order_id", price |-> "unit_price_gross"],
                  income |-> [id |-> "order_id", paid |-> "statement_date"]]]

\* The export's price header as it is named from now on, and a contract for it.
Renamed == [Contract EXCEPT !.columns.orders =
                [id |-> "order_id", price |-> "unit_price_gross", cost |-> "unit_price_gross"]]

Name(at, text) == [at |-> at, text |-> text]
File(headers, orders, days) == [headers |-> headers, orders |-> orders, days |-> days]
Orders(o) == File({"id", "price", "phone"}, {o}, {})
Income(o) == File({"id", "paid"}, {o}, 1..7)

Request(raw, w, kind, name) ==
    [raw |-> raw, window |-> w, kind |-> kind, name |-> name, store |-> NotGiven]

Setup ==
    [windows |-> {w1}, contracts |-> {Contract}, month |-> (7 :> 1..31), touched |-> {"o"},
     declared |-> (w1 :> NotDeclared @@ w2 :> NotDeclared),
     files |-> ("o" :> Orders(1) @@ "i" :> Income(1) @@ Foreign :> Orders(99)),
     requests |-> {Request("o", w1, "orders", Name(1, Alpha)),
                   Request("i", w1, "income", Name(1, Alpha))}]

(* Columns, rosters and aliases that change under the files. *)

Roster == [Contract EXCEPT !.expected = {Alpha, Beta}]

Drift ==
    [Setup EXCEPT
        !.contracts = {Contract, Renamed},
        !.files = @ @@ ("p" :> File({"id", "cost"}, {2}, {}) @@ "old" :> File({"id", "paid"}, {3}, 40..47)),
        !.requests = @ \cup {Request("p", w1, "orders", Name(2, AlphaDated)),
                             Request("p", w1, "orders", Name(2, Alpha2Dated)),
                             [Request("p", w1, "orders", Name(2, Alpha2Dated)) EXCEPT !.store = Alpha],
                             Request("old", w1, "income", Name(2, Alpha))}]

Rostered ==
    [Setup EXCEPT
        !.contracts = {Roster, [Roster EXCEPT !.optional = {Beta}],
                       [Roster EXCEPT !.aliases = (Alfa :> Alpha)]},
        !.files = @ @@ ("b" :> Orders(2)),
        !.requests = @ \cup {Request("b", w1, "orders", Name(3, Alfa)),
                             [Request("b", w1, "orders", Name(3, Alpha)) EXCEPT !.store = Beta]}]

(* Order files of the window before, two of one name among them. *)

Lending(modes) ==
    [Setup EXCEPT
        !.windows = {w1, w2},
        !.touched = {"e"},
        !.contracts = {[Contract EXCEPT !.mode = mode] : mode \in modes},
        !.files = @ @@ ("e" :> Orders(2) @@ "f" :> Orders(3)),
        !.requests = {Request("o", w2, "orders", Name(1, Alpha)),
                      Request("i", w2, "income", Name(1, Alpha)),
                      Request("e", w1, "orders", Name(1, Alpha)),
                      Request("f", w1, "orders", Name(1, Alpha)),
                      Request("e", w2, "orders", Name(2, Alpha))}]

DoorSetups ==
    {Drift, Rostered,
     [Rostered EXCEPT !.declared[w1] = {Beta}],
     Lending({"apply", "report"})}
=============================================================================
