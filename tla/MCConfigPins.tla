---------------------------- MODULE MCConfigPins ----------------------------
(* ConfigPins with a contract that takes two texts. *)
EXTENDS ConfigPins, TLC

CONSTANTS v0, v1, a1, a2

MCVersions == {v0, v1}
MCAdmins == {a1, a2}

Symmetry == Permutations(MCAdmins)

=============================================================================
