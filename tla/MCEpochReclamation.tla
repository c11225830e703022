------------------------- MODULE MCEpochReclamation -------------------------
(* Two participants that both read and retire, and an independent collector. *)
EXTENDS EpochReclamation, TLC

CONSTANTS o1, o2

MCObjects == {o1, o2}
Symmetry == Permutations(MCObjects)
=============================================================================
