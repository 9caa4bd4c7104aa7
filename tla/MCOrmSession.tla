----------------------------- MODULE MCOrmSession -----------------------------
(* OrmSession for TLC.  Nothing tells the managers, the keys or the values *)
(* apart, and no liveness is checked, so all three are symmetric.          *)
EXTENDS OrmSession, TLC

Symmetry == Permutations(Sessions) \cup Permutations(Keys) \cup Permutations(Vals)
=============================================================================
