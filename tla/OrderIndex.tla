----------------------------- MODULE OrderIndex -----------------------------
(***************************************************************************)
(* Which upload holds which order: the table record_order_index fills once *)
(* a file is accepted, and what a run's log is told from it before the     *)
(* pipeline opens a file (repository_m5.py).  A row of the index is the    *)
(* storefront the upload was recorded under, through the aliases of the    *)
(* contract, with an order.                                                *)
(*                                                                         *)
(* "index" is the uploads that have their rows in it, each a file with the *)
(* store it was recorded under for a store: not every file has an upload,  *)
(* and not every upload its rows.                                          *)
(*                                                                         *)
(* A definition marked "Variant" is a plausible mistake in the one after   *)
(* it, here and in the modules this one extends.                           *)
(***************************************************************************)
EXTENDS Backfill

\* Variant: the name the file carries, without the aliases.
IndexRowsRaw(c, f) == {<<f.store, row.order>> : row \in f.rows}

IndexRows(c, f) == {<<CanonicalStore(c, f.store), row.order>> : row \in f.rows}

Indexed(c, index, w, kinds) ==
    UNION {IndexRows(c, f) : f \in {g \in index : g.window = w /\ g.kind \in kinds}}

Settling == {"income", "weekly", "daily"}

\* Settled orders without lines among the window's own uploads.
Missing(c, index, w) == Indexed(c, index, w, Settling) \ Indexed(c, index, w, {"orders"})

\* Any window of the month whose label sorts before this one's: the query
\* does not look at the series.
PeriodBefore(v, w) ==
    /\ v.month = w.month
    /\ TextBefore(<<v.letter>> \o v.ordinal, <<w.letter>> \o w.ordinal)

\* cross_window_order_holders.
Holders(c, index, w) ==
    {[store |-> p[1][1], order |-> p[1][2], window |-> p[2].window] :
        p \in {q \in Missing(c, index, w) \X {f \in index : f.kind = "orders"} :
                  /\ PeriodBefore(q[2].window, w)
                  /\ q[1] \in IndexRows(c, q[2])}}
=============================================================================
