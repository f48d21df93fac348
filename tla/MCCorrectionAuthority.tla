---------------------- MODULE MCCorrectionAuthority ----------------------
(* OneIncident lets any correction supersede any other; the first          *)
(* revisions are irreversible; of the two usable selectors one is narrower *)
(* than the other.                                                         *)
EXTENDS CorrectionAuthority, TLC

CONSTANTS i1, l1, l2

OneIncident == [c \in Correction |-> i1]
FirstRevisions == {<<c, 1>> : c \in Correction}
NestedSelectors == {{}, {l1}, {l1, l2}}

MCSymmetry == Permutations(Correction)
=============================================================================
