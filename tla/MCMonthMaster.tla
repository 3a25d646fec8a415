--------------------------- MODULE MCMonthMaster ----------------------------
(* MonthMaster on a month of two windows. *)
EXTENDS MonthMaster, TLC

CONSTANTS A, B

MCWindows == {A, B}
Symmetry == Permutations(MCWindows)

=============================================================================
