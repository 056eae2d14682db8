--------------------------- MODULE MCObjectRegistry ---------------------------
(* Small instances of ObjectRegistry: at most three allocations, two heap   *)
(* addresses so that addresses are reused, three userdata at a time.        *)
EXTENDS ObjectRegistry, TLC

CONSTANTS o1, o2, o3, a1, a2, u1, u2, u3

Symmetry == Permutations({a1, a2}) \cup Permutations({u1, u2, u3})

=============================================================================
