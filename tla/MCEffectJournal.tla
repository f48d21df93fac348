--------------------------- MODULE MCEffectJournal ---------------------------
(* Two operations, two keys and two effects: the smallest instance in      *)
(* which keys collide, effects are shared and two operations interleave.   *)
EXTENDS EffectJournal, TLC

MCSymmetry == Permutations(Op) \cup Permutations(Key)
=============================================================================
