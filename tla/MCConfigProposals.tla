------------------------- MODULE MCConfigProposals --------------------------
(* ConfigProposals on two scalars, one of them locked, two storefronts, an    *)
(* alias, a brand and the revenue bucket.                                     *)
EXTENDS ConfigProposals, TLC

CONSTANTS a1, a2

MCAppliers == {a1, a2}

Row(t, n) == [table |-> t, name |-> n]
Vat == Row("scalars", "vat")
Pii == Row("scalars", "drop_unmapped_columns")
North == Row("stores", "north")
South == Row("stores", "south")
Alias == Row("aliases", "nort")
Brand == Row("brands", "south")
Revenue == Row("revenue buckets", "1.revenue")
Renamed == Row("revenue buckets", "1.sales")

MCKeys == {Vat, Pii, North, South, Alias, Brand, Revenue, Renamed}
MCSeed == [k \in MCKeys |->
    CASE k = Vat -> "8%" [] k = Pii -> "on" [] k = North -> "active" [] k = Revenue -> "row"
      [] OTHER -> "absent"]

MCLocked == {Pii}

Put(k, v) == [key |-> k, op |-> "upsert", value |-> v, reason |-> TRUE]
Take(k) == [key |-> k, op |-> "delete", value |-> "none", reason |-> TRUE]

\* Changes that may cross, and others that config_rows refuses on the seed.
MCBaskets == {
    <<Put(Vat, "10%")>>,
    <<Put(Vat, "8%")>>,
    <<Put(South, "active"), Put(Alias, "south")>>,
    <<Put(Alias, "south")>>,
    <<Take(South)>>,
    <<Put(North, "inactive"), Put(Vat, "10%")>>,
    <<Take(Revenue), Put(Renamed, "row")>> }
RefusedBaskets == {
    <<Put(Renamed, "row")>>,
    <<Put(Brand, "brand")>>,
    <<Put(Pii, "off")>>,
    <<Put(Vat, "nonsense")>>,
    <<Take(Vat)>>,
    <<[Put(South, "active") EXCEPT !.reason = FALSE]>> }
AllBaskets == MCBaskets \cup RefusedBaskets

Symmetry == Permutations(MCAppliers)

=============================================================================
