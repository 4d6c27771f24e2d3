------------------------------ MODULE Overlay ------------------------------
(***************************************************************************)
(* f @@ g: one function laid over another, as in module TLC, of which the  *)
(* prover knows the name and not the definition.                           *)
(***************************************************************************)
f @@ g == [x \in DOMAIN f \cup DOMAIN g |-> IF x \in DOMAIN f THEN f[x] ELSE g[x]]
=============================================================================
