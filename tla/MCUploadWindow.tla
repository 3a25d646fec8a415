--------------------------- MODULE MCUploadWindow ---------------------------
(* UploadWindow on two windows, one of which lends to the other: an order    *)
(* export that may be posted to either, and the later one's income.          *)
EXTENDS UploadWindow

CONSTANTS e1, e2, A, B, d1

MCExports == {e1, e2}
MCWindows == {A, B}
MCLends == {<<A, B>>}
MCDigests == {d1}

MCRequests ==
    [export: {e1}, window: {A, B}, kind: {"orders"}, digest: {d1}]
        \cup [export: {e2}, window: {B}, kind: {"income"}, digest: {d1}]

=============================================================================
