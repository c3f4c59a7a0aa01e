--------------------------- MODULE MCWasmRegistry ---------------------------
(* Instances of WasmRegistry. *)
EXTENDS WasmRegistry, TLC

CONSTANTS r1, r2, r3, e1, c1, c2, c3

RegSymmetry == Permutations({r1, r2, r3})
=============================================================================
